------------------------- MODULE EvaluationProofs -------------------------
(***************************************************************************)
(* The compared ledgers, the structures they are made of and the harness   *)
(* that measures them, and proofs about them: PrunedLedger, for any        *)
(* dataset, order and block size and any number of concurrent redactions   *)
(* and audits; Merkle trees, for every number of leaves; policies, of any  *)
(* length; the sweeps, for any axes that repeat no value and any number of *)
(* hosts; ResultMerge, for any documents; and what BindingTreeProofs and   *)
(* SequenceChainProofs show.                                               *)
(* The theorems are about the instances that MCEvaluation checks.  The     *)
(* parts share no state: one of them moves while the others stay as they   *)
(* are.  Each is instantiated where the lemmas about it begin.             *)
(***************************************************************************)
EXTENDS PrunedLedger, SequenceTheorems, FiniteSetTheorems, WellFoundedInduction, TLAPS

CONSTANTS
    \* The dataset of the ledgers is Order.
    Original, Changed, Arities, Z, Optimized, MaxSetups, MaxRedactions, MaxDeletes, Nothing,
    MaxLeaves, MaxTokens, True, False, Unknown, Open, Close, And, Or,
    NotApplicable, NoSetup, Total, MaxDocuments,
    \* The sweeps of experiment 1, and of experiments 2 and 3.
    Schemes, Concurrency, Picks, Repetitions, TraceLen,
    Axes, Traces, Sizes, Waits, Workloads, LedgerSizes, Depths, Cost, Claiming,
    Documents,          \* What the hosts of an experiment may write
    Parts               \* The parts that are checked

VARIABLES
    part,
    setups, redactions, treeAudits, q, prevHash, chain, version, bat, authorized, light,
    ready, chainBlocks, accumulated, current, blockOf, versions, lastDeletion, replayed,
    audited, modified, deletes, allowances,
    leaves, tree,
    policy, appended,
    knobs, levels, cells, system, cell, cursor, drawn, tally, cancelled, interrupted, opened,
    measured, base, status, claims,
    experiment, arms, host, points, verdict,
    pooledOf, shards, allowed, pooled, pool, extras, outcome, document

--------------------------------
(* Sequences and induction *)

IsSequence(s) == \E S : s \in Seq(S)

LEMMA SequenceFacts ==
  ASSUME NEW s, IsSequence(s)
  PROVE  Len(s) \in Nat /\ DOMAIN s = 1 .. Len(s)
  BY LenProperties DEF IsSequence

LEMMA FunctionIsSequence ==
  ASSUME NEW n \in Nat, NEW S, NEW s \in [1 .. n -> S]
  PROVE  IsSequence(s) /\ Len(s) = n
<1>1. s \in Seq(S) /\ Len(s) = n
  OBVIOUS
<1>2. QED
  BY <1>1 DEF IsSequence

(* Induction, of a set: the smallest number that is not in it would follow
   one that is. *)
LEMMA SetInduction ==
  ASSUME NEW P, 0 \in P, \A k \in Nat : k \in P => k + 1 \in P
  PROVE  Nat \subseteq P
<1> SUFFICES ASSUME Nat \ P # {} PROVE FALSE
  OBVIOUS
<1> DEFINE heads == {0 .. k : k \in Nat \ P}
<1>1. heads \subseteq FiniteSubsetsOf(Nat) /\ heads # {}
  <2>1. ASSUME NEW k \in Nat
        PROVE  0 .. k \in FiniteSubsetsOf(Nat)
    BY FS_Interval DEF FiniteSubsetsOf
  <2>2. QED
    BY <2>1
<1>2. PICK s \in heads : \A t \in heads : ~(<<t, s>> \in StrictSubsetOrdering(Nat))
  BY <1>1, WFMin, FS_StrictSubsetOrderingWellFounded
<1>3. \A t \in heads : ~(t \subseteq s /\ t # s)
  BY <1>1, <1>2 DEF StrictSubsetOrdering, FiniteSubsetsOf
<1>4. PICK x \in Nat \ P : s = 0 .. x
  BY <1>2
<1>5. x - 1 \in Nat /\ (x - 1) + 1 = x
  BY <1>4
<1>6. x - 1 \notin P
  BY <1>4, <1>5
<1>7. 0 .. x - 1 \in heads
  BY <1>5, <1>6
<1>8. 0 .. x - 1 \subseteq 0 .. x /\ x \in 0 .. x /\ x \notin 0 .. x - 1
  BY <1>5
<1>9. QED
  BY <1>3, <1>4, <1>7, <1>8

--------------------------------
(* Levels *)

(* Each recursive function of the model exists and satisfies its definition. *)
LEMMA WidthsDefined ==
  ASSUME NEW n \in Nat
  PROVE  Widths(n) = [k \in 1 .. n |-> IF k = 1 THEN n ELSE (Widths(n)[k - 1] + 1) \div 2]
<1> DEFINE P == {m \in Nat : \E f :
                    f = [k \in 1 .. m |-> IF k = 1 THEN n ELSE (f[k - 1] + 1) \div 2]}
<1>1. 0 \in P
  <2>1. PICK f : f = [k \in 1 .. 0 |-> n]
    OBVIOUS
  <2>2. f = [k \in 1 .. 0 |-> IF k = 1 THEN n ELSE (f[k - 1] + 1) \div 2]
    BY <2>1
  <2>3. QED
    BY <2>2
<1>2. ASSUME NEW m \in Nat, m \in P
      PROVE  m + 1 \in P
  <2>1. PICK f : f = [k \in 1 .. m |-> IF k = 1 THEN n ELSE (f[k - 1] + 1) \div 2]
    BY <1>2
  <2>2. PICK g : g = [k \in 1 .. m + 1 |->
                        IF k = 1 THEN n
                        ELSE IF k <= m THEN f[k] ELSE (f[m] + 1) \div 2]
    OBVIOUS
  <2>3. ASSUME NEW k \in 1 .. m + 1
        PROVE  g[k] = IF k = 1 THEN n ELSE (g[k - 1] + 1) \div 2
    <3>1. CASE k = 1
      BY <3>1, <2>2
    <3>2. CASE k # 1
      <4>1. k - 1 \in 1 .. m /\ k - 1 \in 1 .. m + 1 /\ (k <= m \/ k - 1 = m)
        BY <3>2
      <4>2. g[k - 1] = f[k - 1]
        BY <4>1, <2>1, <2>2
      <4>3. CASE k <= m
        BY <4>1, <4>2, <4>3, <3>2, <2>1, <2>2
      <4>4. CASE ~(k <= m)
        BY <4>1, <4>2, <4>4, <3>2, <2>2
      <4>5. QED
        BY <4>3, <4>4
    <3>3. QED
      BY <3>1, <3>2
  <2>4. g = [k \in 1 .. m + 1 |-> IF k = 1 THEN n ELSE (g[k - 1] + 1) \div 2]
    BY <2>2, <2>3
  <2>5. QED
    BY <2>4
<1>3. n \in P
  <2> HIDE DEF P
  <2>1. QED
    BY <1>1, <1>2, SetInduction
<1>4. QED
  BY <1>3 DEF Widths

LEMMA PathDefined ==
  ASSUME NEW i, NEW d \in Nat
  PROVE  Path(i, d) = [k \in 1 .. d |-> IF k = 1 THEN i ELSE Path(i, d)[k - 1] \div 2]
<1> DEFINE P == {m \in Nat : \E f :
                    f = [k \in 1 .. m |-> IF k = 1 THEN i ELSE f[k - 1] \div 2]}
<1>1. 0 \in P
  <2>1. PICK f : f = [k \in 1 .. 0 |-> i]
    OBVIOUS
  <2>2. f = [k \in 1 .. 0 |-> IF k = 1 THEN i ELSE f[k - 1] \div 2]
    BY <2>1
  <2>3. QED
    BY <2>2
<1>2. ASSUME NEW m \in Nat, m \in P
      PROVE  m + 1 \in P
  <2>1. PICK f : f = [k \in 1 .. m |-> IF k = 1 THEN i ELSE f[k - 1] \div 2]
    BY <1>2
  <2>2. PICK g : g = [k \in 1 .. m + 1 |->
                        IF k = 1 THEN i
                        ELSE IF k <= m THEN f[k] ELSE f[m] \div 2]
    OBVIOUS
  <2>3. ASSUME NEW k \in 1 .. m + 1
        PROVE  g[k] = IF k = 1 THEN i ELSE g[k - 1] \div 2
    <3>1. CASE k = 1
      BY <3>1, <2>2
    <3>2. CASE k # 1
      <4>1. /\ k - 1 \in 1 .. m /\ k - 1 \in 1 .. m + 1 /\ k - 1 <= m
            /\ k <= m \/ (k - 1 = m /\ k = m + 1)
        BY <3>2
      <4>2. g[k - 1] = f[k - 1]
        BY <4>1, <2>1, <2>2
      <4>3. CASE k <= m
        BY <4>1, <4>2, <4>3, <3>2, <2>1, <2>2
      <4>4. CASE ~(k <= m)
        BY <4>1, <4>2, <4>4, <3>2, <2>2
      <4>5. QED
        BY <4>3, <4>4
    <3>3. QED
      BY <3>1, <3>2
  <2>4. g = [k \in 1 .. m + 1 |-> IF k = 1 THEN i ELSE g[k - 1] \div 2]
    BY <2>2, <2>3
  <2>5. QED
    BY <2>4
<1>3. d \in P
  <2> HIDE DEF P
  <2>1. QED
    BY <1>1, <1>2, SetInduction
<1>4. QED
  BY <1>3 DEF Path

(* The levels of a tree of a given depth. *)
LevelsOver(items, d) ==
  CHOOSE rows : rows = [k \in 1 .. d |-> IF k = 1 THEN items ELSE NextLevel(rows[k - 1])]

LEMMA LevelsDefined ==
  ASSUME NEW items, NEW d \in Nat
  PROVE  LevelsOver(items, d) = [k \in 1 .. d |-> IF k = 1 THEN items ELSE NextLevel(LevelsOver(items, d)[k - 1])]
<1> DEFINE P == {m \in Nat : \E f :
                    f = [k \in 1 .. m |-> IF k = 1 THEN items ELSE NextLevel(f[k - 1])]}
<1>1. 0 \in P
  <2>1. PICK f : f = [k \in 1 .. 0 |-> items]
    OBVIOUS
  <2>2. f = [k \in 1 .. 0 |-> IF k = 1 THEN items ELSE NextLevel(f[k - 1])]
    BY <2>1
  <2>3. QED
    BY <2>2
<1>2. ASSUME NEW m \in Nat, m \in P
      PROVE  m + 1 \in P
  <2>1. PICK f : f = [k \in 1 .. m |-> IF k = 1 THEN items ELSE NextLevel(f[k - 1])]
    BY <1>2
  <2>2. PICK g : g = [k \in 1 .. m + 1 |->
                        IF k = 1 THEN items
                        ELSE IF k <= m THEN f[k] ELSE NextLevel(f[m])]
    OBVIOUS
  <2>3. ASSUME NEW k \in 1 .. m + 1
        PROVE  g[k] = IF k = 1 THEN items ELSE NextLevel(g[k - 1])
    <3>1. CASE k = 1
      BY <3>1, <2>2
    <3>2. CASE k # 1
      <4>1. /\ k - 1 \in 1 .. m /\ k - 1 \in 1 .. m + 1 /\ k - 1 <= m
            /\ k <= m \/ (k - 1 = m /\ k = m + 1)
        BY <3>2
      <4>2. g[k - 1] = f[k - 1]
        BY <4>1, <2>1, <2>2
      <4>3. CASE k <= m
        BY <4>1, <4>2, <4>3, <3>2, <2>1, <2>2
      <4>4. CASE ~(k <= m)
        BY <4>1, <4>2, <4>4, <3>2, <2>2
      <4>5. QED
        BY <4>3, <4>4
    <3>3. QED
      BY <3>1, <3>2
  <2>4. g = [k \in 1 .. m + 1 |-> IF k = 1 THEN items ELSE NextLevel(g[k - 1])]
    BY <2>2, <2>3
  <2>5. QED
    BY <2>4
<1>3. d \in P
  <2> HIDE DEF P
  <2>1. QED
    BY <1>1, <1>2, SetInduction
<1>4. QED
  BY <1>3 DEF LevelsOver

(* What verifyFrom has after each level. *)
Climbed(hash, proof, n) ==
  CHOOSE cur : cur = [k \in 0 .. n |-> IF k = 0 THEN hash ELSE Joined(cur[k - 1], proof[k])]

LEMMA ClimbedDefined ==
  ASSUME NEW hash, NEW proof, NEW n \in Nat
  PROVE  Climbed(hash, proof, n) = [k \in 0 .. n |-> IF k = 0 THEN hash ELSE Joined(Climbed(hash, proof, n)[k - 1], proof[k])]
<1> DEFINE P == {m \in Nat : \E f :
                    f = [k \in 0 .. m |-> IF k = 0 THEN hash ELSE Joined(f[k - 1], proof[k])]}
<1>1. 0 \in P
  <2>1. PICK f : f = [k \in 0 .. 0 |-> hash]
    OBVIOUS
  <2>2. f = [k \in 0 .. 0 |-> IF k = 0 THEN hash ELSE Joined(f[k - 1], proof[k])]
    BY <2>1
  <2>3. QED
    BY <2>2
<1>2. ASSUME NEW m \in Nat, m \in P
      PROVE  m + 1 \in P
  <2>1. PICK f : f = [k \in 0 .. m |-> IF k = 0 THEN hash ELSE Joined(f[k - 1], proof[k])]
    BY <1>2
  <2>2. PICK g : g = [k \in 0 .. m + 1 |->
                        IF k = 0 THEN hash
                        ELSE IF k <= m THEN f[k] ELSE Joined(f[m], proof[m + 1])]
    OBVIOUS
  <2>3. ASSUME NEW k \in 0 .. m + 1
        PROVE  g[k] = IF k = 0 THEN hash ELSE Joined(g[k - 1], proof[k])
    <3>1. CASE k = 0
      BY <3>1, <2>2
    <3>2. CASE k # 0
      <4>1. /\ k - 1 \in 0 .. m /\ k - 1 \in 0 .. m + 1 /\ k - 1 <= m
            /\ k <= m \/ (k - 1 = m /\ k = m + 1)
        BY <3>2
      <4>2. g[k - 1] = f[k - 1]
        BY <4>1, <2>1, <2>2
      <4>3. CASE k <= m
        BY <4>1, <4>2, <4>3, <3>2, <2>1, <2>2
      <4>4. CASE ~(k <= m)
        BY <4>1, <4>2, <4>4, <3>2, <2>2
      <4>5. QED
        BY <4>3, <4>4
    <3>3. QED
      BY <3>1, <3>2
  <2>4. g = [k \in 0 .. m + 1 |-> IF k = 0 THEN hash ELSE Joined(g[k - 1], proof[k])]
    BY <2>2, <2>3
  <2>5. QED
    BY <2>4
<1>3. n \in P
  <2> HIDE DEF P
  <2>1. QED
    BY <1>1, <1>2, SetInduction
<1>4. QED
  BY <1>3 DEF Climbed

--------------------------------
(* The shape of a tree *)

LEMMA WidthFacts ==
  ASSUME NEW n \in Nat \ {0}
  PROVE  /\ \A k \in 1 .. n : Widths(n)[k] \in Nat \ {0}
         /\ \A k \in 2 .. n : Widths(n)[k] = (Widths(n)[k - 1] + 1) \div 2
         /\ Widths(n)[1] = n /\ Widths(n)[n] = 1
<1> DEFINE w == Widths(n)
<1>1. /\ w[1] = n
      /\ \A k \in 2 .. n : w[k] = (w[k - 1] + 1) \div 2
  BY WidthsDefined
<1> HIDE DEF w
<1> DEFINE P == {m \in Nat : m + 1 \in 1 .. n =>
                    w[m + 1] \in Nat \ {0} /\ (w[m + 1] = 1 \/ w[m + 1] + m <= n)}
<1>2. 0 \in P
  BY <1>1
<1>3. ASSUME NEW m \in Nat, m \in P
      PROVE  m + 1 \in P
  <2> SUFFICES ASSUME (m + 1) + 1 \in 1 .. n
               PROVE  /\ w[(m + 1) + 1] \in Nat \ {0}
                      /\ w[(m + 1) + 1] = 1 \/ w[(m + 1) + 1] + (m + 1) <= n
    OBVIOUS
  <2>1. m + 1 \in 1 .. n /\ (m + 1) + 1 \in 2 .. n /\ ((m + 1) + 1) - 1 = m + 1
    OBVIOUS
  <2>2. PICK x \in Nat \ {0} : x = w[m + 1] /\ (x = 1 \/ x + m <= n)
    BY <1>3, <2>1
  <2>3. w[(m + 1) + 1] = (x + 1) \div 2
    BY <1>1, <2>1, <2>2
  <2>4. (x + 1) \div 2 \in Nat \ {0} /\ (x = 1 => (x + 1) \div 2 = 1)
        /\ (x # 1 => (x + 1) \div 2 <= x - 1)
    OBVIOUS
  <2>5. QED
    BY <2>2, <2>3, <2>4
<1>4. Nat \subseteq P
  <2> HIDE DEF P
  <2>1. QED
    BY <1>2, <1>3, SetInduction
<1>5. \A k \in 1 .. n : k - 1 \in Nat /\ (k - 1) + 1 = k
  OBVIOUS
<1>6. \A k \in 1 .. n : w[k] \in Nat \ {0} /\ (w[k] = 1 \/ w[k] + (k - 1) <= n)
  BY <1>4, <1>5
<1>7. w[n] = 1
  BY <1>6
<1>8. QED
  BY <1>1, <1>6, <1>7 DEF w

LEMMA DepthFacts ==
  ASSUME NEW n \in Nat \ {0}
  PROVE  /\ Depth(n) \in 1 .. n
         /\ Widths(n)[Depth(n)] = 1
         /\ \A e \in 1 .. Depth(n) - 1 : Widths(n)[e] > 1
<1> DEFINE w == Widths(n)
           good(d) == w[d] = 1 /\ \A e \in 1 .. d - 1 : w[e] > 1
<1>1. \E d \in 1 .. n : good(d)
  <2> SUFFICES ASSUME \A d \in 1 .. n : ~good(d)
               PROVE  FALSE
    OBVIOUS
  <2> DEFINE P == {m \in Nat : \A e \in 1 .. n : e <= m => w[e] > 1}
  <2>1. 0 \in P
    OBVIOUS
  <2>2. ASSUME NEW m \in Nat, m \in P
        PROVE  m + 1 \in P
    <3> SUFFICES ASSUME m + 1 \in 1 .. n
                 PROVE  w[m + 1] > 1
      BY <2>2
    <3>1. w[m + 1] # 1
      BY <2>2
    <3>2. w[m + 1] \in Nat \ {0}
      BY WidthFacts
    <3>3. QED
      BY <3>1, <3>2
  <2>3. n \in P
    <3> HIDE DEF P
    <3>1. QED
      BY <2>1, <2>2, SetInduction
  <2>4. QED
    BY <2>3, WidthFacts
<1>2. QED
  BY <1>1 DEF Depth

LEMMA NextLevelFacts ==
  ASSUME NEW nodes, IsSequence(nodes)
  PROVE  /\ IsSequence(NextLevel(nodes))
         /\ Len(NextLevel(nodes)) = (Len(nodes) + 1) \div 2
         /\ \A j \in 1 .. (Len(nodes) + 1) \div 2 :
                NextLevel(nodes)[j] =
                    IF 2 * j <= Len(nodes) THEN HashInternal(nodes[2 * j - 1], nodes[2 * j])
                    ELSE nodes[2 * j - 1]
<1> DEFINE n == (Len(nodes) + 1) \div 2
           value(j) == IF 2 * j <= Len(nodes) THEN HashInternal(nodes[2 * j - 1], nodes[2 * j])
                       ELSE nodes[2 * j - 1]
<1>1. n \in Nat
  BY SequenceFacts
<1>2. NextLevel(nodes) = [j \in 1 .. n |-> value(j)]
  BY DEF NextLevel
<1> HIDE DEF n
<1>3. NextLevel(nodes) \in [1 .. n -> {value(j) : j \in 1 .. n}]
  BY <1>2
<1>4. IsSequence(NextLevel(nodes)) /\ Len(NextLevel(nodes)) = n
  BY <1>1, <1>3, FunctionIsSequence
<1>5. QED
  BY <1>2, <1>4 DEF n

LEMMA TreeFacts ==
  ASSUME NEW items, IsSequence(items), Len(items) # 0
  PROVE  LET n == Len(items)
             d == Depth(n)
             mt == NewFromHashes(items)
         IN  /\ n \in Nat \ {0} /\ d \in 1 .. n
             /\ IsSequence(mt) /\ Len(mt) = d
             /\ mt[1] = items
             /\ \A k \in 2 .. d : mt[k] = NextLevel(mt[k - 1])
             /\ \A k \in 1 .. d : IsSequence(mt[k]) /\ Len(mt[k]) = Widths(n)[k]
<1> DEFINE n == Len(items)
           d == Depth(n)
           mt == NewFromHashes(items)
           w == Widths(n)
<1>1. n \in Nat \ {0}
  BY SequenceFacts
<1>2. d \in 1 .. n /\ d \in Nat
  BY <1>1, DepthFacts
<1> HIDE DEF d
<1>3. mt = LevelsOver(items, d)
  BY DEF NewFromHashes, LevelsOver, d
<1>4. mt = [k \in 1 .. d |-> IF k = 1 THEN items ELSE NextLevel(mt[k - 1])]
  BY <1>2, <1>3, LevelsDefined
<1> HIDE DEF mt
<1>5. mt[1] = items /\ \A k \in 2 .. d : mt[k] = NextLevel(mt[k - 1])
  <2>1. 1 \in 1 .. d /\ \A k \in 2 .. d : k \in 1 .. d /\ k # 1
    BY <1>2
  <2>2. \A k \in 1 .. d : mt[k] = IF k = 1 THEN items ELSE NextLevel(mt[k - 1])
    BY <1>4
  <2>3. QED
    BY <2>1, <2>2
<1>6. IsSequence(mt) /\ Len(mt) = d
  <2>1. mt \in [1 .. d -> {mt[k] : k \in 1 .. d}]
    BY <1>4
  <2>2. QED
    BY <1>2, <2>1, FunctionIsSequence
<1> DEFINE P == {m \in Nat : m + 1 \in 1 .. d =>
                    IsSequence(mt[m + 1]) /\ Len(mt[m + 1]) = w[m + 1]}
<1>7. 0 \in P
  BY <1>1, <1>5, WidthFacts
<1>8. ASSUME NEW m \in Nat, m \in P
      PROVE  m + 1 \in P
  <2> SUFFICES ASSUME (m + 1) + 1 \in 1 .. d
               PROVE  IsSequence(mt[(m + 1) + 1]) /\ Len(mt[(m + 1) + 1]) = w[(m + 1) + 1]
    OBVIOUS
  <2>1. /\ m + 1 \in 1 .. d /\ (m + 1) + 1 \in 2 .. d /\ (m + 1) + 1 \in 2 .. n
        /\ ((m + 1) + 1) - 1 = m + 1
    BY <1>2
  <2>2. IsSequence(mt[m + 1]) /\ Len(mt[m + 1]) = w[m + 1]
    BY <1>8, <2>1
  <2>3. mt[(m + 1) + 1] = NextLevel(mt[m + 1])
    BY <1>5, <2>1
  <2>4. w[(m + 1) + 1] = (w[m + 1] + 1) \div 2
    BY <1>1, <2>1, WidthFacts
  <2>5. QED
    BY <2>2, <2>3, <2>4, NextLevelFacts
<1>9. Nat \subseteq P
  <2> HIDE DEF P
  <2>1. QED
    BY <1>7, <1>8, SetInduction
<1>10. \A k \in 1 .. d : IsSequence(mt[k]) /\ Len(mt[k]) = w[k]
  <2>1. \A k \in 1 .. d : k - 1 \in Nat /\ (k - 1) + 1 = k
    BY <1>2
  <2>2. QED
    BY <1>9, <2>1
<1>11. QED
  BY <1>1, <1>2, <1>5, <1>6, <1>10 DEF mt, d

LEMMA PathFacts ==
  ASSUME NEW n \in Nat \ {0}, NEW d \in 1 .. n, NEW i \in 0 .. n - 1
  PROVE  /\ Path(i, d)[1] = i
         /\ \A k \in 2 .. d : Path(i, d)[k] = Path(i, d)[k - 1] \div 2
         /\ \A k \in 1 .. d : Path(i, d)[k] \in 0 .. Widths(n)[k] - 1
<1> DEFINE p == Path(i, d)
           w == Widths(n)
<1>1. p[1] = i /\ \A k \in 2 .. d : p[k] = p[k - 1] \div 2
  <2>1. d \in Nat
    OBVIOUS
  <2>2. p = [k \in 1 .. d |-> IF k = 1 THEN i ELSE p[k - 1] \div 2]
    BY <2>1, PathDefined
  <2> HIDE DEF p
  <2>3. QED
    BY <2>2
<1> HIDE DEF p
<1> DEFINE P == {m \in Nat : m + 1 \in 1 .. d => p[m + 1] \in 0 .. w[m + 1] - 1}
<1>2. 0 \in P
  BY <1>1, WidthFacts
<1>3. ASSUME NEW m \in Nat, m \in P
      PROVE  m + 1 \in P
  <2> SUFFICES ASSUME (m + 1) + 1 \in 1 .. d
               PROVE  p[(m + 1) + 1] \in 0 .. w[(m + 1) + 1] - 1
    OBVIOUS
  <2>1. /\ m + 1 \in 1 .. d /\ m + 1 \in 1 .. n
        /\ (m + 1) + 1 \in 2 .. d /\ (m + 1) + 1 \in 2 .. n
        /\ ((m + 1) + 1) - 1 = m + 1
    OBVIOUS
  <2>2. PICK x \in Nat, y \in Nat : x = p[m + 1] /\ y = w[m + 1] /\ x < y
    BY <1>3, <2>1, WidthFacts
  <2>3. p[(m + 1) + 1] = x \div 2 /\ w[(m + 1) + 1] = (y + 1) \div 2
    BY <1>1, <2>1, <2>2, WidthFacts
  <2>4. x \div 2 \in 0 .. ((y + 1) \div 2) - 1
    BY <2>2
  <2>5. QED
    BY <2>3, <2>4
<1>4. Nat \subseteq P
  <2> HIDE DEF P
  <2>1. QED
    BY <1>2, <1>3, SetInduction
<1>5. \A k \in 1 .. d : k - 1 \in Nat /\ (k - 1) + 1 = k
  OBVIOUS
<1>6. \A k \in 1 .. d : p[k] \in 0 .. w[k] - 1
  BY <1>4, <1>5
<1>7. QED
  BY <1>1, <1>6 DEF p

(* The node above idx is what a proof step makes of idx and its sibling, and
   what an update computes. *)
LEMMA ParentIs ==
  ASSUME NEW nodes, IsSequence(nodes), NEW idx \in 0 .. Len(nodes) - 1
  PROVE  /\ NextLevel(nodes)[idx \div 2 + 1] = Joined(nodes[idx + 1], Sibling(nodes, idx))
         /\ NextLevel(nodes)[idx \div 2 + 1] = ParentOf(nodes, idx)
<1>1. PICK n \in Nat : n = Len(nodes) /\ idx < n
  BY SequenceFacts
<1>2. PICK j \in Nat : j = idx \div 2 + 1 /\ (idx = 2 * j - 2 \/ idx = 2 * j - 1)
  <2>1. idx \div 2 + 1 \in Nat
    OBVIOUS
  <2>2. QED
    BY <2>1
<1>3. j \in 1 .. (n + 1) \div 2
  BY <1>1, <1>2
<1>4. NextLevel(nodes)[j] = IF 2 * j <= n THEN HashInternal(nodes[2 * j - 1], nodes[2 * j])
                            ELSE nodes[2 * j - 1]
  BY <1>1, <1>3, NextLevelFacts
<1>5. CASE idx = 2 * j - 1
  <2>1. idx % 2 = 1 /\ 2 * j <= n /\ 2 * j - 1 = idx /\ 2 * j = idx + 1
    BY <1>1, <1>2, <1>5
  <2>2. NextLevel(nodes)[j] = HashInternal(nodes[idx], nodes[idx + 1])
    BY <1>4, <2>1
  <2>3. Joined(nodes[idx + 1], Sibling(nodes, idx)) = HashInternal(nodes[idx], nodes[idx + 1])
    BY <2>1 DEF Sibling, Joined
  <2>4. ParentOf(nodes, idx) = HashInternal(nodes[idx], nodes[idx + 1])
    BY <2>1 DEF ParentOf
  <2>5. QED
    BY <1>2, <2>2, <2>3, <2>4
<1>6. CASE idx = 2 * j - 2 /\ 2 * j <= n
  <2>1. /\ idx % 2 # 1 /\ 2 * j - 1 = idx + 1 /\ 2 * j = idx + 2
        /\ idx + 1 < Len(nodes)
    BY <1>1, <1>2, <1>6
  <2>2. NextLevel(nodes)[j] = HashInternal(nodes[idx + 1], nodes[idx + 2])
    BY <1>4, <1>6, <2>1
  <2>3. Joined(nodes[idx + 1], Sibling(nodes, idx)) = HashInternal(nodes[idx + 1], nodes[idx + 2])
    BY <2>1 DEF Sibling, Joined
  <2>4. ParentOf(nodes, idx) = HashInternal(nodes[idx + 1], nodes[idx + 2])
    BY <2>1 DEF ParentOf
  <2>5. QED
    BY <1>2, <2>2, <2>3, <2>4
<1>7. CASE idx = 2 * j - 2 /\ ~(2 * j <= n)
  <2>1. idx % 2 # 1 /\ 2 * j - 1 = idx + 1 /\ ~(idx + 1 < Len(nodes))
    BY <1>1, <1>2, <1>7
  <2>2. NextLevel(nodes)[j] = nodes[idx + 1]
    BY <1>4, <1>7, <2>1
  <2>3. Joined(nodes[idx + 1], Sibling(nodes, idx)) = nodes[idx + 1]
    BY <2>1 DEF Sibling, Joined
  <2>4. ParentOf(nodes, idx) = nodes[idx + 1]
    BY <2>1 DEF ParentOf
  <2>5. QED
    BY <1>2, <2>2, <2>3, <2>4
<1>8. QED
  BY <1>2, <1>5, <1>6, <1>7

--------------------------------
(* Proofs *)

LEMMA ClimbIs ==
  ASSUME NEW hash, NEW proof, NEW n \in Nat, Len(proof) = n
  PROVE  /\ Climb(hash, proof) = Climbed(hash, proof, n)[n]
         /\ Climbed(hash, proof, n)[0] = hash
         /\ \A k \in 1 .. n :
                Climbed(hash, proof, n)[k] = Joined(Climbed(hash, proof, n)[k - 1], proof[k])
<1> DEFINE cur == Climbed(hash, proof, n)
<1>1. cur = [k \in 0 .. n |-> IF k = 0 THEN hash ELSE Joined(cur[k - 1], proof[k])]
  BY ClimbedDefined
<1>2. Climb(hash, proof) = cur[n]
  BY DEF Climb, Climbed
<1> HIDE DEF cur
<1>3. cur[0] = hash /\ \A k \in 1 .. n : cur[k] = Joined(cur[k - 1], proof[k])
  BY <1>1
<1>4. QED
  BY <1>2, <1>3 DEF cur

LEMMA ProofFacts ==
  ASSUME NEW mt, IsSequence(mt), Len(mt) # 0, NEW i
  PROVE  /\ Len(mt) - 1 \in Nat /\ Len(Proof(mt, i)) = Len(mt) - 1
         /\ \A k \in 1 .. Len(mt) - 1 :
                Proof(mt, i)[k] = Sibling(mt[k], Path(i, Len(mt))[k])
<1> DEFINE n == Len(mt) - 1
           step(k) == Sibling(mt[k], Path(i, Len(mt))[k])
<1>1. n \in Nat
  BY SequenceFacts
<1>2. Proof(mt, i) = [k \in 1 .. n |-> step(k)]
  BY DEF Proof
<1> HIDE DEF n
<1>3. Proof(mt, i) \in [1 .. n -> {step(k) : k \in 1 .. n}]
  BY <1>2
<1>4. Len(Proof(mt, i)) = n
  BY <1>1, <1>3, FunctionIsSequence
<1>5. QED
  BY <1>1, <1>2, <1>4 DEF n

(* The proof of every leaf leads to the root, through any number of promoted
   nodes (Tree.Proof, verifyFrom). *)
THEOREM LeavesProved ==
  ASSUME NEW items, IsSequence(items), NEW i \in 0 .. Len(items) - 1
  PROVE  VerifyHash(Root(NewFromHashes(items)), items[i + 1], Proof(NewFromHashes(items), i))
<1> DEFINE n == Len(items)
           d == Depth(n)
           mt == NewFromHashes(items)
           w == Widths(n)
           p == Path(i, d)
           proof == Proof(mt, i)
           cur == Climbed(items[i + 1], proof, d - 1)
<1>1. Len(items) # 0
  BY SequenceFacts
<1>2. /\ n \in Nat \ {0} /\ d \in 1 .. n
      /\ IsSequence(mt) /\ Len(mt) = d
      /\ mt[1] = items
      /\ \A k \in 2 .. d : mt[k] = NextLevel(mt[k - 1])
      /\ \A k \in 1 .. d : IsSequence(mt[k]) /\ Len(mt[k]) = w[k]
  BY <1>1, TreeFacts
<1>3. /\ p[1] = i
      /\ \A k \in 2 .. d : p[k] = p[k - 1] \div 2
      /\ \A k \in 1 .. d : p[k] \in 0 .. w[k] - 1
  BY <1>2, PathFacts
<1>4. /\ d - 1 \in Nat /\ d \in Nat /\ Len(proof) = d - 1
      /\ \A k \in 1 .. d - 1 : proof[k] = Sibling(mt[k], p[k])
  BY <1>2, ProofFacts
<1>5. /\ Climb(items[i + 1], proof) = cur[d - 1]
      /\ cur[0] = items[i + 1]
      /\ \A k \in 1 .. d - 1 : cur[k] = Joined(cur[k - 1], proof[k])
  <2> DEFINE last == d - 1
  <2>1. last \in Nat /\ Len(proof) = last
    BY <1>4
  <2> HIDE DEF last, proof
  <2>2. /\ Climb(items[i + 1], proof) = Climbed(items[i + 1], proof, last)[last]
        /\ Climbed(items[i + 1], proof, last)[0] = items[i + 1]
        /\ \A k \in 1 .. last :
              Climbed(items[i + 1], proof, last)[k]
                = Joined(Climbed(items[i + 1], proof, last)[k - 1], proof[k])
    BY <2>1, ClimbIs
  <2>3. QED
    BY <2>2 DEF last
<1>6. w[d] = 1
  BY <1>2, DepthFacts
<1> HIDE DEF d, mt, w, p, proof, cur
<1> DEFINE P == {m \in Nat : m \in 0 .. d - 1 => cur[m] = mt[m + 1][p[m + 1] + 1]}
<1>7. 0 \in P
  BY <1>2, <1>3, <1>5
<1>8. ASSUME NEW m \in Nat, m \in P
      PROVE  m + 1 \in P
  <2> SUFFICES ASSUME m + 1 \in 0 .. d - 1
               PROVE  cur[m + 1] = mt[(m + 1) + 1][p[(m + 1) + 1] + 1]
    OBVIOUS
  <2>1. /\ m \in 0 .. d - 1 /\ m + 1 \in 1 .. d - 1 /\ m + 1 \in 1 .. d
        /\ (m + 1) + 1 \in 2 .. d /\ (m + 1) - 1 = m /\ ((m + 1) + 1) - 1 = m + 1
    BY <1>4
  <2>2. PICK nodes, idx : nodes = mt[m + 1] /\ idx = p[m + 1]
    OBVIOUS
  <2>3. IsSequence(nodes) /\ idx \in 0 .. Len(nodes) - 1
    BY <1>2, <1>3, <2>1, <2>2
  <2>4. cur[m + 1] = Joined(nodes[idx + 1], Sibling(nodes, idx))
    BY <1>4, <1>5, <1>8, <2>1, <2>2
  <2>5. mt[(m + 1) + 1] = NextLevel(nodes) /\ p[(m + 1) + 1] = idx \div 2
    BY <1>2, <1>3, <2>1, <2>2
  <2>6. QED
    BY <2>3, <2>4, <2>5, ParentIs
<1>9. d - 1 \in P
  <2> HIDE DEF P
  <2>1. QED
    BY <1>4, <1>7, <1>8, SetInduction
<1>10. p[d] = 0 /\ (d - 1) + 1 = d /\ d - 1 \in 0 .. d - 1
  BY <1>2, <1>3, <1>4, <1>6
<1>11. cur[d - 1] = mt[d][1]
  BY <1>9, <1>10
<1>12. QED
  BY <1>2, <1>5, <1>11 DEF VerifyHash, Root, mt, proof

(* A proof that leads from two hashes to one root leads from one hash. *)
THEOREM ProofBinds ==
  ASSUME NEW proof, Len(proof) \in Nat, NEW a, NEW b, Climb(a, proof) = Climb(b, proof)
  PROVE  a = b
<1> DEFINE n == Len(proof)
           left == Climbed(a, proof, n)
           right == Climbed(b, proof, n)
<1>1. /\ left[n] = right[n] /\ left[0] = a /\ right[0] = b
      /\ \A k \in 1 .. n :
            left[k] = Joined(left[k - 1], proof[k]) /\ right[k] = Joined(right[k - 1], proof[k])
  BY ClimbIs
<1> HIDE DEF left, right
<1> DEFINE P == {m \in Nat : m \in 0 .. n => (left[m] = right[m] => a = b)}
<1>2. 0 \in P
  BY <1>1
<1>3. ASSUME NEW m \in Nat, m \in P
      PROVE  m + 1 \in P
  <2> SUFFICES ASSUME m + 1 \in 0 .. n, left[m + 1] = right[m + 1]
               PROVE  a = b
    OBVIOUS
  <2>1. m \in 0 .. n /\ m + 1 \in 1 .. n /\ (m + 1) - 1 = m
    OBVIOUS
  <2>2. Joined(left[m], proof[m + 1]) = Joined(right[m], proof[m + 1])
    BY <1>1, <2>1
  <2>3. left[m] = right[m]
    BY <2>2 DEF Joined, HashInternal
  <2>4. QED
    BY <1>3, <2>1, <2>3
<1>4. n \in P
  <2> HIDE DEF P
  <2>1. QED
    BY <1>2, <1>3, SetInduction
<1>5. QED
  BY <1>1, <1>4

--------------------------------
(* Updates *)

(* Where an update writes, one node per level. *)
Overwritten(old, at, v) == [old EXCEPT ![at] = v]

LEMMA WrittenFacts ==
  ASSUME NEW nodes, IsSequence(nodes), NEW at \in 1 .. Len(nodes), NEW v
  PROVE  /\ IsSequence(Overwritten(nodes, at, v)) /\ Len(Overwritten(nodes, at, v)) = Len(nodes)
         /\ Overwritten(nodes, at, v)[at] = v
         /\ \A j \in 1 .. Len(nodes) : j # at => Overwritten(nodes, at, v)[j] = nodes[j]
<1>1. PICK S : nodes \in [1 .. Len(nodes) -> S]
  BY LenProperties DEF IsSequence
<1>2. Len(nodes) \in Nat
  BY SequenceFacts
<1>3. Overwritten(nodes, at, v) \in [1 .. Len(nodes) -> S \cup {v}]
  BY <1>1 DEF Overwritten
<1>4. IsSequence(Overwritten(nodes, at, v)) /\ Len(Overwritten(nodes, at, v)) = Len(nodes)
  BY <1>2, <1>3, FunctionIsSequence
<1>5. QED
  BY <1>1, <1>4 DEF Overwritten

(* Above a level with one node written, one node is written. *)
LEMMA NextOfWritten ==
  ASSUME NEW nodes, IsSequence(nodes), NEW idx \in 0 .. Len(nodes) - 1, NEW v
  PROVE  NextLevel(Overwritten(nodes, idx + 1, v))
           = Overwritten(NextLevel(nodes), idx \div 2 + 1, ParentOf(Overwritten(nodes, idx + 1, v), idx))
<1>1. PICK n \in Nat : n = Len(nodes) /\ idx < n
  BY SequenceFacts
<1>2. PICK new : new = Overwritten(nodes, idx + 1, v)
  OBVIOUS
<1>3. /\ IsSequence(new) /\ Len(new) = n
      /\ \A j \in 1 .. n : j # idx + 1 => new[j] = nodes[j]
  BY <1>1, <1>2, WrittenFacts
<1>4. PICK m \in Nat : m = (n + 1) \div 2
  BY <1>1
<1>5. PICK other \in Nat : other = idx \div 2 + 1 /\ (idx = 2 * other - 2 \/ idx = 2 * other - 1)
  <2>1. idx \div 2 + 1 \in Nat
    OBVIOUS
  <2>2. QED
    BY <2>1
<1>6. other \in 1 .. m
  BY <1>1, <1>4, <1>5
<1>7. /\ IsSequence(NextLevel(nodes)) /\ Len(NextLevel(nodes)) = m
      /\ IsSequence(NextLevel(new)) /\ Len(NextLevel(new)) = m
  BY <1>1, <1>3, <1>4, NextLevelFacts
<1>8. NextLevel(new)[other] = ParentOf(new, idx)
  BY <1>1, <1>3, <1>5, ParentIs
<1>9. ASSUME NEW j \in 1 .. m, j # other
      PROVE  NextLevel(new)[j] = NextLevel(nodes)[j]
  <2>1. /\ 2 * j - 1 \in 1 .. n /\ 2 * j - 1 # idx + 1 /\ 2 * j # idx + 1
        /\ 2 * j <= n => 2 * j \in 1 .. n
    BY <1>1, <1>4, <1>5, <1>9
  <2>2. NextLevel(new)[j] = IF 2 * j <= n THEN HashInternal(new[2 * j - 1], new[2 * j])
                            ELSE new[2 * j - 1]
    BY <1>3, <1>4, NextLevelFacts
  <2>3. NextLevel(nodes)[j] = IF 2 * j <= n THEN HashInternal(nodes[2 * j - 1], nodes[2 * j])
                              ELSE nodes[2 * j - 1]
    BY <1>1, <1>4, NextLevelFacts
  <2>4. new[2 * j - 1] = nodes[2 * j - 1] /\ (2 * j <= n => new[2 * j] = nodes[2 * j])
    BY <1>3, <2>1
  <2>5. QED
    BY <2>2, <2>3, <2>4
<1>10. PICK old, upper : old = NextLevel(nodes) /\ upper = Overwritten(old, other, ParentOf(new, idx))
  OBVIOUS
<1>11. /\ IsSequence(upper) /\ Len(upper) = m /\ upper[other] = ParentOf(new, idx)
       /\ \A j \in 1 .. m : j # other => upper[j] = old[j]
  BY <1>6, <1>7, <1>10, WrittenFacts
<1>12. NextLevel(new) = upper
  <2>1. PICK S, T : NextLevel(new) \in Seq(S) /\ upper \in Seq(T)
    BY <1>7, <1>11 DEF IsSequence
  <2>2. NextLevel(new) \in Seq(S \cup T) /\ upper \in Seq(S \cup T)
    BY <2>1, SeqMonotonic
  <2>3. \A j \in 1 .. m : NextLevel(new)[j] = upper[j]
    BY <1>8, <1>9, <1>10, <1>11
  <2>4. QED
    BY <2>2, <2>3, <1>7, <1>11, SeqEqual
<1>13. QED
  BY <1>2, <1>5, <1>10, <1>12

(* A tree updated in place is the tree built anew from its leaves, at every
   size and for every leaf (UpdateLeafHash, against NewFromHashes). *)
THEOREM UpdateIsRebuild ==
  ASSUME NEW items, IsSequence(items), NEW i \in 0 .. Len(items) - 1, NEW hash
  PROVE  UpdateLeafHash(NewFromHashes(items), i, hash)
           = NewFromHashes([items EXCEPT ![i + 1] = hash])
<1> DEFINE n == Len(items)
           d == Depth(n)
           mt == NewFromHashes(items)
           after == [items EXCEPT ![i + 1] = hash]
           new == NewFromHashes(after)
           w == Widths(n)
           p == Path(i, d)
<1>1. Len(items) # 0 /\ i + 1 \in 1 .. Len(items)
  BY SequenceFacts
<1>2. /\ n \in Nat \ {0} /\ d \in 1 .. n
      /\ IsSequence(mt) /\ Len(mt) = d
      /\ mt[1] = items
      /\ \A k \in 2 .. d : mt[k] = NextLevel(mt[k - 1])
      /\ \A k \in 1 .. d : IsSequence(mt[k]) /\ Len(mt[k]) = w[k]
  BY <1>1, TreeFacts
<1>3. /\ p[1] = i
      /\ \A k \in 2 .. d : p[k] = p[k - 1] \div 2
      /\ \A k \in 1 .. d : p[k] \in 0 .. w[k] - 1
  BY <1>2, PathFacts
<1>4. IsSequence(after) /\ Len(after) = n /\ after = Overwritten(items, i + 1, hash)
  <2>1. after = Overwritten(items, i + 1, hash)
    BY DEF Overwritten
  <2>2. QED
    BY <2>1, <1>1, WrittenFacts
<1>5. /\ IsSequence(new) /\ Len(new) = d
      /\ new[1] = after
      /\ \A k \in 2 .. d : new[k] = NextLevel(new[k - 1])
  <2> HIDE DEF after
  <2>1. QED
    BY <1>1, <1>4, TreeFacts
<1> DEFINE value(k, f) == IF k = 1 THEN hash ELSE ParentOf(f[k - 1], p[k - 1])
<1> HIDE DEF d, mt, after, new, w, p
<1>6. d \in Nat /\ DOMAIN mt = 1 .. d /\ DOMAIN new = 1 .. d
  BY <1>2, <1>5, SequenceFacts
<1> DEFINE P == {m \in Nat : m + 1 \in 1 .. d =>
                    new[m + 1] = Overwritten(mt[m + 1], p[m + 1] + 1, value(m + 1, new))}
<1>7. 0 \in P
  BY <1>2, <1>3, <1>4, <1>5
<1>8. ASSUME NEW m \in Nat, m \in P
      PROVE  m + 1 \in P
  <2> SUFFICES ASSUME (m + 1) + 1 \in 1 .. d
               PROVE  new[(m + 1) + 1]
                        = Overwritten(mt[(m + 1) + 1], p[(m + 1) + 1] + 1, value((m + 1) + 1, new))
    OBVIOUS
  <2>1. /\ m + 1 \in 1 .. d /\ (m + 1) + 1 \in 2 .. d /\ ((m + 1) + 1) - 1 = m + 1
        /\ (m + 1) + 1 # 1
    BY <1>6
  <2>2. PICK nodes, idx, v : nodes = mt[m + 1] /\ idx = p[m + 1] /\ v = value(m + 1, new)
    OBVIOUS
  <2>3. IsSequence(nodes) /\ idx \in 0 .. Len(nodes) - 1
    BY <1>2, <1>3, <2>1, <2>2
  <2>4. new[m + 1] = Overwritten(nodes, idx + 1, v)
    BY <1>8, <2>1, <2>2
  <2>5. /\ new[(m + 1) + 1] = NextLevel(new[m + 1])
        /\ mt[(m + 1) + 1] = NextLevel(nodes) /\ p[(m + 1) + 1] = idx \div 2
    BY <1>2, <1>3, <1>5, <2>1, <2>2
  <2>6. value((m + 1) + 1, new) = ParentOf(new[m + 1], idx)
    BY <2>1, <2>2
  <2>7. NextLevel(Overwritten(nodes, idx + 1, v))
          = Overwritten(NextLevel(nodes), idx \div 2 + 1, ParentOf(Overwritten(nodes, idx + 1, v), idx))
    BY <2>3, NextOfWritten
  <2> HIDE DEF value
  <2>8. QED
    BY <2>4, <2>5, <2>6, <2>7
<1>9. \A k \in 1 .. d : new[k] = Overwritten(mt[k], p[k] + 1, value(k, new))
  <2>1. \A k \in 1 .. d : k - 1 \in Nat /\ (k - 1) + 1 = k
    BY <1>6
  <2>2. Nat \subseteq P
    <3> HIDE DEF P
    <3>1. QED
      BY <1>7, <1>8, SetInduction
  <2>3. QED
    BY <2>1, <2>2
<1>10. PICK f : f = UpdateLeafHash(mt, i, hash)
  OBVIOUS
<1>11. f = [k \in 1 .. d |-> Overwritten(mt[k], p[k] + 1, value(k, f))]
  <2>1. f = CHOOSE g : g = [k \in 1 .. d |->
                [mt[k] EXCEPT ![p[k] + 1] =
                    IF k = 1 THEN hash ELSE ParentOf(g[k - 1], p[k - 1])]]
    BY <1>2, <1>10 DEF UpdateLeafHash, p
  <2>2. new = [k \in 1 .. d |-> new[k]]
    <3>1. PICK S : new \in [1 .. d -> S]
      BY <1>5, LenProperties DEF IsSequence
    <3>2. QED
      BY <3>1
  <2>3. new = [k \in 1 .. d |->
                [mt[k] EXCEPT ![p[k] + 1] =
                    IF k = 1 THEN hash ELSE ParentOf(new[k - 1], p[k - 1])]]
    BY <1>9, <2>2 DEF Overwritten
  <2>4. QED
    BY <2>1, <2>3 DEF Overwritten
<1> DEFINE Q == {m \in Nat : m + 1 \in 1 .. d => f[m + 1] = new[m + 1]}
<1>12. \A k \in 1 .. d : f[k] = Overwritten(mt[k], p[k] + 1, value(k, f))
  BY <1>11
<1>13. 0 \in Q
  BY <1>9, <1>12
<1>14. ASSUME NEW m \in Nat, m \in Q
       PROVE  m + 1 \in Q
  <2> SUFFICES ASSUME (m + 1) + 1 \in 1 .. d
               PROVE  f[(m + 1) + 1] = new[(m + 1) + 1]
    OBVIOUS
  <2>1. m + 1 \in 1 .. d /\ ((m + 1) + 1) - 1 = m + 1 /\ f[m + 1] = new[m + 1]
    BY <1>6, <1>14
  <2>2. value((m + 1) + 1, f) = value((m + 1) + 1, new)
    BY <2>1
  <2> HIDE DEF value
  <2>3. QED
    BY <2>2, <1>9, <1>12
<1>15. \A k \in 1 .. d : f[k] = new[k]
  <2>1. \A k \in 1 .. d : k - 1 \in Nat /\ (k - 1) + 1 = k
    BY <1>6
  <2>2. Nat \subseteq Q
    <3> HIDE DEF Q
    <3>1. QED
      BY <1>13, <1>14, SetInduction
  <2>3. QED
    BY <2>1, <2>2
<1>16. f = new
  <2>1. PICK S : new \in [1 .. d -> S]
    BY <1>5, LenProperties DEF IsSequence
  <2>2. DOMAIN f = 1 .. d /\ f = [k \in 1 .. d |-> f[k]]
    BY <1>11
  <2>3. QED
    BY <2>1, <2>2, <1>15
<1>17. QED
  BY <1>10, <1>16 DEF mt, new, after

--------------------------------
(* What the root names *)

(* n steps down the left edge of a node there is a leaf. *)
Leftmost(x, n) ==
  \E f : /\ f[0] = x
         /\ \A k \in 0 .. n - 1 : \E r : f[k] = HashInternal(f[k + 1], r)
         /\ \E v : f[n] = HashLeaf(v)

LEMMA LeafIsLeftmost ==
  ASSUME NEW v
  PROVE  Leftmost(HashLeaf(v), 0)
<1> DEFINE f == [k \in 0 .. 0 |-> HashLeaf(v)]
<1>1. f[0] = HashLeaf(v) /\ 0 .. 0 - 1 = {}
  OBVIOUS
<1> HIDE DEF f
<1>2. QED
  BY <1>1 DEF Leftmost

LEMMA LeftmostAbove ==
  ASSUME NEW n \in Nat, NEW x, NEW y, Leftmost(x, n)
  PROVE  Leftmost(HashInternal(x, y), n + 1)
<1>1. PICK f : /\ f[0] = x
               /\ \A k \in 0 .. n - 1 : \E r : f[k] = HashInternal(f[k + 1], r)
               /\ \E v : f[n] = HashLeaf(v)
  BY DEF Leftmost
<1> DEFINE g == [k \in 0 .. n + 1 |-> IF k = 0 THEN HashInternal(x, y) ELSE f[k - 1]]
<1>2. g[0] = HashInternal(x, y) /\ \A k \in 1 .. n + 1 : g[k] = f[k - 1]
  OBVIOUS
<1> HIDE DEF g
<1>3. ASSUME NEW k \in 0 .. (n + 1) - 1
      PROVE  \E r : g[k] = HashInternal(g[k + 1], r)
  <2>1. k + 1 \in 1 .. n + 1 /\ (k + 1) - 1 = k
    OBVIOUS
  <2>2. g[k + 1] = f[k]
    BY <1>2, <2>1
  <2>3. CASE k = 0
    BY <2>2, <2>3, <1>1, <1>2
  <2>4. CASE k # 0
    <3>1. k \in 1 .. n + 1 /\ k - 1 \in 0 .. n - 1 /\ (k - 1) + 1 = k
      BY <2>4
    <3>2. g[k] = f[k - 1]
      BY <1>2, <3>1
    <3>3. \E r : f[k - 1] = HashInternal(f[k], r)
      BY <1>1, <3>1
    <3>4. QED
      BY <2>2, <3>2, <3>3
  <2>5. QED
    BY <2>3, <2>4
<1>4. \E v : g[n + 1] = HashLeaf(v)
  <2>1. n + 1 \in 1 .. n + 1 /\ (n + 1) - 1 = n
    OBVIOUS
  <2>2. QED
    BY <1>1, <1>2, <2>1
<1>5. QED
  BY <1>2, <1>3, <1>4 DEF Leftmost

LEMMA LeftmostOnce ==
  ASSUME NEW n \in Nat, NEW m \in Nat, NEW x, Leftmost(x, n), Leftmost(x, m)
  PROVE  n = m
<1>1. PICK f : /\ f[0] = x
               /\ \A k \in 0 .. n - 1 : \E r : f[k] = HashInternal(f[k + 1], r)
               /\ \E v : f[n] = HashLeaf(v)
  BY DEF Leftmost
<1>2. PICK g : /\ g[0] = x
               /\ \A k \in 0 .. m - 1 : \E r : g[k] = HashInternal(g[k + 1], r)
               /\ \E v : g[m] = HashLeaf(v)
  BY DEF Leftmost
<1> DEFINE P == {k \in Nat : k \in 0 .. n /\ k \in 0 .. m => f[k] = g[k]}
<1>3. 0 \in P
  BY <1>1, <1>2
<1>4. ASSUME NEW k \in Nat, k \in P
      PROVE  k + 1 \in P
  <2> SUFFICES ASSUME k + 1 \in 0 .. n, k + 1 \in 0 .. m
               PROVE  f[k + 1] = g[k + 1]
    OBVIOUS
  <2>1. k \in 0 .. n - 1 /\ k \in 0 .. m - 1 /\ k \in 0 .. n /\ k \in 0 .. m
    OBVIOUS
  <2>2. PICK r, s : f[k] = HashInternal(f[k + 1], r) /\ g[k] = HashInternal(g[k + 1], s)
    BY <1>1, <1>2, <2>1
  <2>3. HashInternal(f[k + 1], r) = HashInternal(g[k + 1], s)
    BY <1>4, <2>1, <2>2
  <2>4. QED
    BY <2>3 DEF HashInternal
<1>5. \A k \in Nat : k \in P
  <2> HIDE DEF P
  <2>1. QED
    BY <1>3, <1>4, SetInduction
<1>6. \A v, l, r : HashLeaf(v) # HashInternal(l, r)
  BY DEF HashLeaf, HashInternal
<1>7. CASE n < m
  <2>1. n \in 0 .. m - 1 /\ n \in 0 .. n /\ n \in 0 .. m
    BY <1>7
  <2>2. f[n] = g[n]
    BY <1>5, <2>1
  <2>3. PICK v, r : f[n] = HashLeaf(v) /\ g[n] = HashInternal(g[n + 1], r)
    BY <1>1, <1>2, <2>1
  <2>4. QED
    BY <1>6, <2>2, <2>3
<1>8. CASE m < n
  <2>1. m \in 0 .. n - 1 /\ m \in 0 .. n /\ m \in 0 .. m
    BY <1>8
  <2>2. f[m] = g[m]
    BY <1>5, <2>1
  <2>3. PICK v, r : g[m] = HashLeaf(v) /\ f[m] = HashInternal(f[m + 1], r)
    BY <1>1, <1>2, <2>1
  <2>4. QED
    BY <1>6, <2>2, <2>3
<1>9. QED
  BY <1>7, <1>8

(* The nodes of a level k above the leaves: the first one and every one but
   the last have a leaf k steps down, the last one, which may have been
   promoted, has one at most as deep. *)
Shaped(nodes, k) ==
  \A j \in 1 .. Len(nodes) :
    /\ \E m \in 0 .. k : Leftmost(nodes[j], m)
    /\ j < Len(nodes) \/ j = 1 => Leftmost(nodes[j], k)

LEMMA NextShaped ==
  ASSUME NEW nodes, IsSequence(nodes), Len(nodes) > 1, NEW k \in Nat, Shaped(nodes, k)
  PROVE  Shaped(NextLevel(nodes), k + 1)
<1>1. PICK n \in Nat : n = Len(nodes) /\ n > 1
  BY SequenceFacts
<1>2. PICK h \in Nat : h = (n + 1) \div 2
  BY <1>1
<1>3. /\ Len(NextLevel(nodes)) = h
      /\ \A j \in 1 .. h :
            NextLevel(nodes)[j] = IF 2 * j <= n THEN HashInternal(nodes[2 * j - 1], nodes[2 * j])
                                  ELSE nodes[2 * j - 1]
  BY <1>1, <1>2, NextLevelFacts
<1>4. SUFFICES ASSUME NEW j \in 1 .. h
               PROVE  /\ \E m \in 0 .. k + 1 : Leftmost(NextLevel(nodes)[j], m)
                      /\ j < h \/ j = 1 => Leftmost(NextLevel(nodes)[j], k + 1)
  BY <1>3 DEF Shaped
<1>5. 2 * j - 1 \in 1 .. n /\ (j < h \/ j = 1 => 2 * j <= n)
  BY <1>1, <1>2
<1>6. CASE 2 * j <= n
  <2>1. 2 * j - 1 < n
    BY <1>1, <1>6
  <2>2. Leftmost(nodes[2 * j - 1], k)
    BY <1>1, <1>5, <2>1 DEF Shaped
  <2>3. NextLevel(nodes)[j] = HashInternal(nodes[2 * j - 1], nodes[2 * j])
    BY <1>3, <1>6
  <2>4. Leftmost(NextLevel(nodes)[j], k + 1)
    BY <2>2, <2>3, LeftmostAbove
  <2>5. QED
    BY <2>4
<1>7. CASE ~(2 * j <= n)
  <2>1. NextLevel(nodes)[j] = nodes[2 * j - 1]
    BY <1>3, <1>7
  <2>2. PICK m \in 0 .. k : Leftmost(nodes[2 * j - 1], m)
    BY <1>1, <1>5 DEF Shaped
  <2>3. m \in 0 .. k + 1
    OBVIOUS
  <2>4. QED
    BY <1>5, <1>7, <2>1, <2>2, <2>3
<1>8. QED
  BY <1>6, <1>7

(* An odd level and an even one do not come to the same level above. *)
LEMMA OddIsNotEven ==
  ASSUME NEW a, IsSequence(a), NEW b, IsSequence(b), NEW k \in Nat, Shaped(a, k), Shaped(b, k),
         NEW h \in Nat \ {0}, Len(a) = 2 * h - 1, Len(b) = 2 * h
  PROVE  NextLevel(a) # NextLevel(b)
<1> SUFFICES ASSUME NextLevel(a) = NextLevel(b) PROVE FALSE
  OBVIOUS
<1>1. /\ (2 * h - 1 + 1) \div 2 = h /\ (2 * h + 1) \div 2 = h /\ h \in 1 .. h
      /\ ~(2 * h <= 2 * h - 1) /\ 2 * h - 1 \in 1 .. 2 * h - 1 /\ 2 * h - 1 \in 1 .. 2 * h
      /\ 2 * h - 1 < 2 * h
  OBVIOUS
<1>2. NextLevel(a)[h] = a[2 * h - 1]
  BY <1>1, NextLevelFacts
<1>3. NextLevel(b)[h] = HashInternal(b[2 * h - 1], b[2 * h])
  <2>1. PICK n \in Nat : n = 2 * h /\ n = Len(b) /\ h \in 1 .. (n + 1) \div 2 /\ 2 * h <= n
    BY <1>1
  <2>2. QED
    BY <2>1, NextLevelFacts
<1>4. PICK m \in 0 .. k : Leftmost(a[2 * h - 1], m)
  BY <1>1 DEF Shaped
<1>5. Leftmost(b[2 * h - 1], k)
  BY <1>1 DEF Shaped
<1>6. Leftmost(HashInternal(b[2 * h - 1], b[2 * h]), k + 1)
  BY <1>5, LeftmostAbove
<1>7. m = k + 1
  BY <1>2, <1>3, <1>4, <1>6, LeftmostOnce
<1>8. QED
  BY <1>7

LEMMA SameSequence ==
  ASSUME NEW a, IsSequence(a), NEW b, IsSequence(b), Len(a) = Len(b),
         \A i \in 1 .. Len(a) : a[i] = b[i]
  PROVE  a = b
<1>1. PICK S, T : a \in Seq(S) /\ b \in Seq(T)
  BY DEF IsSequence
<1>2. a \in Seq(S \cup T) /\ b \in Seq(S \cup T)
  BY <1>1, SeqMonotonic
<1>3. QED
  BY <1>2, SeqEqual

(* A level names the one below it. *)
LEMMA LevelBinds ==
  ASSUME NEW a, IsSequence(a), NEW b, IsSequence(b), NEW k \in Nat, Shaped(a, k), Shaped(b, k),
         NextLevel(a) = NextLevel(b)
  PROVE  a = b
<1>1. PICK n \in Nat, m \in Nat : n = Len(a) /\ m = Len(b)
  BY SequenceFacts
<1>2. PICK h \in Nat : h = (n + 1) \div 2
  BY <1>1
<1>3. Len(NextLevel(a)) = (n + 1) \div 2 /\ Len(NextLevel(b)) = (m + 1) \div 2
  BY <1>1, NextLevelFacts
<1>4. /\ n \in {2 * h - 1, 2 * h} /\ m \in {2 * h - 1, 2 * h}
      /\ n # m => h \in Nat \ {0}
  BY <1>1, <1>2, <1>3
<1>5. n = m
  BY <1>1, <1>4, OddIsNotEven
<1>6. ASSUME NEW j \in 1 .. h
      PROVE  a[2 * j - 1] = b[2 * j - 1] /\ (2 * j <= n => a[2 * j] = b[2 * j])
  <2>1. NextLevel(a)[j] = IF 2 * j <= n THEN HashInternal(a[2 * j - 1], a[2 * j]) ELSE a[2 * j - 1]
    BY <1>1, <1>2, NextLevelFacts
  <2>2. NextLevel(b)[j] = IF 2 * j <= n THEN HashInternal(b[2 * j - 1], b[2 * j]) ELSE b[2 * j - 1]
    BY <1>1, <1>2, <1>5, NextLevelFacts
  <2>3. QED
    BY <2>1, <2>2 DEF HashInternal
<1>7. ASSUME NEW i \in 1 .. n
      PROVE  a[i] = b[i]
  <2>1. PICK j \in Nat : j = (i + 1) \div 2
    OBVIOUS
  <2>2. j \in 1 .. h /\ i \in {2 * j - 1, 2 * j}
    BY <1>2, <2>1
  <2>3. CASE i = 2 * j - 1
    BY <1>6, <2>2, <2>3
  <2>4. CASE i = 2 * j
    <3>1. 2 * j <= n
      BY <2>4
    <3>2. QED
      BY <1>6, <2>2, <2>4, <3>1
  <2>5. QED
    BY <2>2, <2>3, <2>4
<1>8. QED
  BY <1>1, <1>5, <1>7, SameSequence

LEMMA TreeShaped ==
  ASSUME NEW items, IsSequence(items), Len(items) # 0,
         \A j \in 1 .. Len(items) : \E v : items[j] = HashLeaf(v)
  PROVE  \A k \in 1 .. Depth(Len(items)) : Shaped(NewFromHashes(items)[k], k - 1)
<1> DEFINE n == Len(items)
           d == Depth(n)
           mt == NewFromHashes(items)
           w == Widths(n)
<1>1. /\ n \in Nat \ {0} /\ d \in 1 .. n
      /\ mt[1] = items
      /\ \A k \in 2 .. d : mt[k] = NextLevel(mt[k - 1])
      /\ \A k \in 1 .. d : IsSequence(mt[k]) /\ Len(mt[k]) = w[k]
  BY TreeFacts
<1>2. \A k \in 1 .. d - 1 : w[k] > 1
  BY <1>1, DepthFacts
<1>3. Shaped(items, 0)
  <2> SUFFICES ASSUME NEW j \in 1 .. Len(items) PROVE Leftmost(items[j], 0)
    BY DEF Shaped
  <2>1. QED
    BY LeafIsLeftmost
<1> HIDE DEF d, mt, w
<1> DEFINE P == {m \in Nat : m \in 0 .. d - 1 => Shaped(mt[m + 1], m)}
<1>4. 0 \in P
  BY <1>1, <1>3
<1>5. ASSUME NEW m \in Nat, m \in P
      PROVE  m + 1 \in P
  <2> SUFFICES ASSUME m + 1 \in 0 .. d - 1
               PROVE  Shaped(mt[(m + 1) + 1], m + 1)
    OBVIOUS
  <2>1. /\ m \in 0 .. d - 1 /\ m + 1 \in 1 .. d - 1 /\ m + 1 \in 1 .. d
        /\ (m + 1) + 1 \in 2 .. d /\ ((m + 1) + 1) - 1 = m + 1
    BY <1>1
  <2>2. mt[(m + 1) + 1] = NextLevel(mt[m + 1])
    BY <1>1, <2>1
  <2>3. Shaped(mt[m + 1], m) /\ IsSequence(mt[m + 1]) /\ Len(mt[m + 1]) > 1
    BY <1>1, <1>2, <1>5, <2>1
  <2>4. QED
    BY <2>2, <2>3, NextShaped
<1>6. \A m \in Nat : m \in P
  <2> HIDE DEF P
  <2>1. QED
    BY <1>4, <1>5, SetInduction
<1>7. ASSUME NEW k \in 1 .. d
      PROVE  Shaped(mt[k], k - 1)
  <2>1. k - 1 \in Nat /\ k - 1 \in 0 .. d - 1 /\ (k - 1) + 1 = k
    BY <1>1
  <2>2. QED
    BY <1>6, <2>1
<1>8. QED
  BY <1>7 DEF d, mt

(* The hashes of leaves. *)
LeafHashes(data) == [i \in 1 .. Len(data) |-> HashLeaf(data[i])]

LEMMA LeafHashesFacts ==
  ASSUME NEW data, IsSequence(data)
  PROVE  /\ IsSequence(LeafHashes(data)) /\ Len(LeafHashes(data)) = Len(data)
         /\ \A i \in 1 .. Len(data) : LeafHashes(data)[i] = HashLeaf(data[i])
         /\ New(data) = NewFromHashes(LeafHashes(data))
<1>1. PICK n \in Nat : n = Len(data)
  BY SequenceFacts
<1>2. PICK S : S = {HashLeaf(data[i]) : i \in 1 .. n}
  OBVIOUS
<1>3. LeafHashes(data) \in [1 .. n -> S]
  BY <1>1, <1>2 DEF LeafHashes
<1>4. IsSequence(LeafHashes(data)) /\ Len(LeafHashes(data)) = n
  BY <1>3, FunctionIsSequence
<1>5. QED
  BY <1>1, <1>4 DEF LeafHashes, New

LEMMA LeafTree ==
  ASSUME NEW data, IsSequence(data), Len(data) # 0
  PROVE  \E mt, d : /\ mt = New(data) /\ d \in Nat \ {0} /\ Len(mt) = d
                    /\ mt[1] = LeafHashes(data)
                    /\ \A k \in 2 .. d : mt[k] = NextLevel(mt[k - 1])
                    /\ \A k \in 1 .. d : IsSequence(mt[k]) /\ Shaped(mt[k], k - 1)
                    /\ Len(mt[d]) = 1
<1>1. PICK x : /\ x = LeafHashes(data) /\ IsSequence(x) /\ Len(x) = Len(data)
               /\ \A i \in 1 .. Len(data) : x[i] = HashLeaf(data[i])
               /\ New(data) = NewFromHashes(x)
  BY LeafHashesFacts
<1>2. PICK mt, d : mt = NewFromHashes(x) /\ d = Depth(Len(x))
  OBVIOUS
<1>3. Len(x) # 0 /\ \A j \in 1 .. Len(x) : \E v : x[j] = HashLeaf(v)
  BY <1>1
<1>4. Len(x) \in Nat \ {0}
  BY <1>1, <1>3, SequenceFacts
<1>5. /\ d \in 1 .. Len(x) /\ Len(mt) = d /\ mt[1] = x
      /\ \A k \in 2 .. d : mt[k] = NextLevel(mt[k - 1])
      /\ \A k \in 1 .. d : IsSequence(mt[k]) /\ Len(mt[k]) = Widths(Len(x))[k]
  <2>1. IsSequence(x) /\ Len(x) # 0
    BY <1>1, <1>3
  <2>2. /\ Depth(Len(x)) \in 1 .. Len(x) /\ Len(NewFromHashes(x)) = Depth(Len(x))
        /\ NewFromHashes(x)[1] = x
        /\ \A k \in 2 .. Depth(Len(x)) : NewFromHashes(x)[k] = NextLevel(NewFromHashes(x)[k - 1])
        /\ \A k \in 1 .. Depth(Len(x)) :
              IsSequence(NewFromHashes(x)[k]) /\ Len(NewFromHashes(x)[k]) = Widths(Len(x))[k]
    BY <2>1, TreeFacts
  <2>3. QED
    BY <1>2, <2>2
<1>6. \A k \in 1 .. d : Shaped(mt[k], k - 1)
  BY <1>1, <1>2, <1>3, TreeShaped
<1>7. Widths(Len(x))[d] = 1
  BY <1>2, <1>4, DepthFacts
<1>8. d \in Nat \ {0} /\ d \in 1 .. d
  BY <1>4, <1>5
<1>9. Len(mt[d]) = 1
  BY <1>5, <1>7, <1>8
<1>10. QED
  BY <1>1, <1>2, <1>5, <1>6, <1>8, <1>9

(* The root names the leaves, their number included: two data sets with one
   root are the same (nextLevel: unpaired nodes are promoted, never paired
   with themselves; HashLeaf and HashInternal keep leaves and nodes apart). *)
THEOREM RootNames ==
  ASSUME NEW a, IsSequence(a), Len(a) # 0, NEW b, IsSequence(b), Len(b) # 0,
         Root(New(a)) = Root(New(b))
  PROVE  a = b
<1> DEFINE x == LeafHashes(a)
           y == LeafHashes(b)
<1>1. /\ IsSequence(x) /\ Len(x) = Len(a) /\ \A i \in 1 .. Len(a) : x[i] = HashLeaf(a[i])
      /\ IsSequence(y) /\ Len(y) = Len(b) /\ \A i \in 1 .. Len(b) : y[i] = HashLeaf(b[i])
  BY LeafHashesFacts
<1> HIDE DEF x, y
<1>2. PICK mx, dx : /\ mx = New(a) /\ dx \in Nat \ {0} /\ Len(mx) = dx /\ mx[1] = x
                    /\ \A k \in 2 .. dx : mx[k] = NextLevel(mx[k - 1])
                    /\ \A k \in 1 .. dx : IsSequence(mx[k]) /\ Shaped(mx[k], k - 1)
                    /\ Len(mx[dx]) = 1
  BY LeafTree DEF x
<1>3. PICK my, dy : /\ my = New(b) /\ dy \in Nat \ {0} /\ Len(my) = dy /\ my[1] = y
                    /\ \A k \in 2 .. dy : my[k] = NextLevel(my[k - 1])
                    /\ \A k \in 1 .. dy : IsSequence(my[k]) /\ Shaped(my[k], k - 1)
                    /\ Len(my[dy]) = 1
  BY LeafTree DEF y
<1>4. mx[dx][1] = my[dy][1]
  BY <1>2, <1>3 DEF Root
<1>5. dx = dy
  <2>1. dx \in 1 .. dx /\ dy \in 1 .. dy /\ 1 \in 1 .. 1
    BY <1>2, <1>3
  <2>2. Leftmost(mx[dx][1], dx - 1) /\ Leftmost(my[dy][1], dy - 1)
    BY <1>2, <1>3, <2>1 DEF Shaped
  <2>3. dx - 1 \in Nat /\ dy - 1 \in Nat
    BY <1>2, <1>3
  <2>4. dx - 1 = dy - 1
    BY <1>4, <2>2, <2>3, LeftmostOnce
  <2>5. QED
    BY <1>2, <1>3, <2>4
<1>6. mx[dx] = my[dx]
  <2>1. IsSequence(mx[dx]) /\ IsSequence(my[dx]) /\ Len(mx[dx]) = 1 /\ Len(my[dx]) = 1
    BY <1>2, <1>3, <1>5
  <2>2. \A i \in 1 .. 1 : mx[dx][i] = my[dx][i]
    BY <1>4, <1>5
  <2>3. QED
    BY <2>1, <2>2, SameSequence
<1> DEFINE P == {m \in Nat : m \in 0 .. dx - 1 => mx[dx - m] = my[dx - m]}
<1>7. 0 \in P
  BY <1>2, <1>6
<1>8. ASSUME NEW m \in Nat, m \in P
      PROVE  m + 1 \in P
  <2> SUFFICES ASSUME m + 1 \in 0 .. dx - 1
               PROVE  mx[dx - (m + 1)] = my[dx - (m + 1)]
    OBVIOUS
  <2>1. PICK k \in Nat : k = dx - (m + 1)
    BY <1>2
  <2>2. /\ m \in 0 .. dx - 1 /\ k \in 1 .. dx /\ k - 1 \in Nat
        /\ k + 1 \in 2 .. dx /\ (k + 1) - 1 = k /\ dx - m = k + 1
    BY <1>2, <2>1
  <2>3. NextLevel(mx[k]) = NextLevel(my[k])
    BY <1>2, <1>3, <1>5, <1>8, <2>2
  <2>4. /\ IsSequence(mx[k]) /\ Shaped(mx[k], k - 1)
        /\ IsSequence(my[k]) /\ Shaped(my[k], k - 1)
    BY <1>2, <1>3, <1>5, <2>2
  <2>5. QED
    BY <2>1, <2>2, <2>3, <2>4, LevelBinds
<1>9. \A m \in Nat : m \in P
  <2> HIDE DEF P
  <2>1. QED
    BY <1>7, <1>8, SetInduction
<1>10. x = y
  <2>1. dx - 1 \in Nat /\ dx - 1 \in 0 .. dx - 1 /\ dx - (dx - 1) = 1
    BY <1>2
  <2>2. QED
    BY <1>2, <1>3, <1>9, <2>1
<1>11. Len(a) = Len(b) /\ \A i \in 1 .. Len(a) : HashLeaf(a[i]) = HashLeaf(b[i])
  BY <1>1, <1>10
<1>12. \A i \in 1 .. Len(a) : a[i] = b[i]
  BY <1>11 DEF HashLeaf
<1>13. QED
  BY <1>11, <1>12, SameSequence

--------------------------------
(* Chains *)

TxAt(ch, l) == ch[l[1]].txs[l[2]]

TxFields == {"id", "kind", "core", "w", "hc", "hw", "htx", "version", "rdt"}

(* A block has the tree of its transactions. *)
IsBlock(block) ==
  /\ DOMAIN block = {"txs", "tree"} /\ IsSequence(block.txs)
  /\ block.tree = NewFromHashes(Leaves(block.txs))

IsTx(tx) == DOMAIN tx = TxFields /\ tx.version \in Nat

(* verifyEMT's recomputation of the hashes agrees. *)
Hashed(tx) ==
  /\ HashLeaf(tx.core) = tx.hc /\ HashLeaf(tx.w) = tx.hw
  /\ HashTx(tx.hc, tx.hw) = tx.htx

IsChain(ch) ==
  /\ IsSequence(ch)
  /\ \A b \in 1 .. Len(ch) : IsBlock(ch[b])
  /\ \A l \in Locations(ch) : IsTx(TxAt(ch, l))

LEMMA Appended ==
  ASSUME NEW s, IsSequence(s), NEW e
  PROVE  /\ IsSequence(Append(s, e))
         /\ Len(Append(s, e)) = Len(s) + 1
         /\ Append(s, e)[Len(s) + 1] = e
         /\ \A j \in 1 .. Len(s) : Append(s, e)[j] = s[j]
<1>1. PICK S : s \in Seq(S)
  BY DEF IsSequence
<1>2. s \in Seq(S \cup {e}) /\ Len(s) \in Nat
  BY <1>1, SeqMonotonic, LenProperties
<1>3. QED
  BY <1>2 DEF IsSequence

LEMMA LocationsFinite ==
  ASSUME NEW ch, Len(ch) \in Nat
  PROVE  IsFiniteSet(Locations(ch))
<1>1. IsFiniteSet(1 .. Len(ch)) /\ IsFiniteSet(1 .. BlockSize)
  BY FS_Interval, BoundAssumption
<1>2. IsFiniteSet((1 .. Len(ch)) \X (1 .. BlockSize))
  BY <1>1, FS_Product
<1>3. QED
  BY <1>2, FS_Subset DEF Locations

LEMMA LocationFacts ==
  ASSUME NEW ch, IsChain(ch), NEW l \in Locations(ch)
  PROVE  /\ l = <<l[1], l[2]>>
         /\ l[1] \in 1 .. Len(ch) /\ l[2] \in 1 .. Len(ch[l[1]].txs)
         /\ l[2] \in 1 .. BlockSize
         /\ IsBlock(ch[l[1]]) /\ IsSequence(ch[l[1]].txs) /\ IsTx(TxAt(ch, l))
<1>1. /\ l \in (1 .. Len(ch)) \X (1 .. BlockSize)
      /\ l[2] <= Len(ch[l[1]].txs)
  BY DEF Locations
<1>2. l = <<l[1], l[2]>> /\ l[1] \in 1 .. Len(ch) /\ l[2] \in 1 .. BlockSize
  BY <1>1
<1>3. IsBlock(ch[l[1]]) /\ IsSequence(ch[l[1]].txs) /\ IsTx(TxAt(ch, l))
  BY <1>2 DEF IsChain, IsBlock
<1>4. Len(ch[l[1]].txs) \in Nat
  BY <1>3, SequenceFacts
<1>5. QED
  BY <1>1, <1>2, <1>3, <1>4, BoundAssumption

(* Pruning a transaction changes it alone, and not what it is. *)
LEMMA PrunedInPlace ==
  ASSUME NEW ch, IsChain(ch), NEW l \in Locations(ch), NEW r
  PROVE  /\ IsChain(Apply(ch, l, r))
         /\ Locations(Apply(ch, l, r)) = Locations(ch)
         /\ TxAt(Apply(ch, l, r), l) = Pruned(TxAt(ch, l), r)
         /\ \A m \in Locations(ch) : m # l => TxAt(Apply(ch, l, r), m) = TxAt(ch, m)
<1> DEFINE b == l[1]
           i == l[2]
           new == Apply(ch, l, r)
           txs == [ch[b].txs EXCEPT ![i] = Pruned(ch[b].txs[i], r)]
<1>1. /\ l = <<b, i>> /\ b \in 1 .. Len(ch) /\ i \in 1 .. Len(ch[b].txs)
      /\ IsBlock(ch[b]) /\ IsSequence(ch[b].txs) /\ IsTx(TxAt(ch, l))
  BY LocationFacts
<1>2. IsSequence(ch) /\ \A c \in 1 .. Len(ch) : IsBlock(ch[c])
  BY DEF IsChain
<1>3. new = [ch EXCEPT ![b] = PrunedBlock(ch[b], i, r)]
  BY DEF Apply
<1>4. /\ IsSequence(new) /\ Len(new) = Len(ch)
      /\ new[b] = PrunedBlock(ch[b], i, r)
      /\ \A c \in 1 .. Len(ch) : c # b => new[c] = ch[c]
  <2>1. PICK S : ch \in [1 .. Len(ch) -> S]
    BY <1>2, LenProperties DEF IsSequence
  <2>2. Len(ch) \in Nat
    BY <1>2, SequenceFacts
  <2>3. new \in [1 .. Len(ch) -> S \cup {PrunedBlock(ch[b], i, r)}]
    BY <1>1, <1>3, <2>1
  <2>4. IsSequence(new) /\ Len(new) = Len(ch)
    BY <2>2, <2>3, FunctionIsSequence
  <2>5. QED
    BY <1>1, <1>3, <2>1, <2>4
<1>5. /\ new[b].txs = txs /\ DOMAIN new[b] = {"txs", "tree"}
      /\ new[b].tree = NewFromHashes(Leaves(txs))
  BY <1>1, <1>4 DEF PrunedBlock, Rebuilt, IsBlock
<1>6. /\ IsSequence(txs) /\ Len(txs) = Len(ch[b].txs)
      /\ txs[i] = Pruned(ch[b].txs[i], r)
      /\ \A j \in 1 .. Len(ch[b].txs) : j # i => txs[j] = ch[b].txs[j]
  <2>1. PICK S : ch[b].txs \in [1 .. Len(ch[b].txs) -> S]
    BY <1>1, LenProperties DEF IsSequence
  <2>2. Len(ch[b].txs) \in Nat
    BY <1>1, SequenceFacts
  <2>3. txs \in [1 .. Len(ch[b].txs) -> S \cup {Pruned(ch[b].txs[i], r)}]
    BY <1>1, <2>1
  <2>4. IsSequence(txs) /\ Len(txs) = Len(ch[b].txs)
    BY <2>2, <2>3, FunctionIsSequence
  <2>5. QED
    BY <1>1, <2>1, <2>4
<1>7. \A c \in 1 .. Len(ch) : IsBlock(new[c]) /\ Len(new[c].txs) = Len(ch[c].txs)
  BY <1>2, <1>4, <1>5, <1>6 DEF IsBlock
<1>8. Locations(new) = Locations(ch)
  BY <1>4, <1>7 DEF Locations
<1>9. TxAt(new, l) = Pruned(TxAt(ch, l), r)
  BY <1>5, <1>6 DEF TxAt
<1>10. ASSUME NEW m \in Locations(ch), m # l
       PROVE  TxAt(new, m) = TxAt(ch, m)
  <2>1. m = <<m[1], m[2]>> /\ m[1] \in 1 .. Len(ch) /\ m[2] \in 1 .. Len(ch[m[1]].txs)
    BY LocationFacts
  <2>2. CASE m[1] # b
    BY <2>1, <2>2, <1>4 DEF TxAt
  <2>3. CASE m[1] = b
    <3>1. m[2] # i
      BY <2>1, <2>3, <1>1, <1>10
    <3>2. QED
      BY <3>1, <2>1, <2>3, <1>5, <1>6 DEF TxAt
  <2>4. QED
    BY <2>2, <2>3
<1>11. IsTx(Pruned(TxAt(ch, l), r))
  BY <1>1 DEF Pruned, IsTx, TxFields
<1>12. \A m \in Locations(new) : IsTx(TxAt(new, m))
  BY <1>8, <1>9, <1>10, <1>11, LocationFacts
<1>13. IsChain(new)
  BY <1>4, <1>7, <1>12 DEF IsChain
<1>14. QED
  BY <1>8, <1>9, <1>10, <1>13

(* A block of one transaction at the end of the chain moves nothing. *)
LEMMA BlockAppended ==
  ASSUME NEW ch, IsChain(ch), NEW tx, IsTx(tx)
  PROVE  LET new == Append(ch, NewBlock(<<tx>>))
             last == <<Len(ch) + 1, 1>>
         IN  /\ IsChain(new)
             /\ Locations(new) = Locations(ch) \cup {last}
             /\ last \notin Locations(ch)
             /\ TxAt(new, last) = tx
             /\ \A m \in Locations(ch) : TxAt(new, m) = TxAt(ch, m)
<1> DEFINE block == NewBlock(<<tx>>)
           new == Append(ch, block)
           last == <<Len(ch) + 1, 1>>
<1>1. IsSequence(ch) /\ Len(ch) \in Nat /\ \A b \in 1 .. Len(ch) : IsBlock(ch[b])
  BY SequenceFacts DEF IsChain
<1>2. /\ IsSequence(new) /\ Len(new) = Len(ch) + 1
      /\ new[Len(ch) + 1] = block
      /\ \A c \in 1 .. Len(ch) : new[c] = ch[c]
  BY <1>1, Appended
<1>3. <<tx>> \in Seq({tx}) /\ Len(<<tx>>) = 1 /\ <<tx>>[1] = tx
  OBVIOUS
<1>4. /\ block.txs = <<tx>> /\ DOMAIN block = {"txs", "tree"}
      /\ block.tree = NewFromHashes(Leaves(<<tx>>))
  BY DEF NewBlock
<1>5. IsBlock(block)
  BY <1>3, <1>4 DEF IsBlock, IsSequence
<1>6. \A c \in 1 .. Len(ch) + 1 : c \in 1 .. Len(ch) \/ c = Len(ch) + 1
  BY <1>1
<1>7. \A c \in 1 .. Len(new) : IsBlock(new[c])
  BY <1>1, <1>2, <1>5, <1>6
<1>8. last \notin Locations(ch)
  BY <1>1 DEF Locations
<1>9. Locations(new) = Locations(ch) \cup {last}
  <2>1. ASSUME NEW b \in 1 .. Len(ch) + 1, NEW i \in 1 .. BlockSize
        PROVE  <<b, i>> \in Locations(new) <=> <<b, i>> \in Locations(ch) \cup {last}
    <3>1. CASE b \in 1 .. Len(ch)
      <4>1. b # Len(ch) + 1
        BY <3>1, <1>1
      <4>2. QED
        BY <4>1, <3>1, <1>2 DEF Locations
    <3>2. CASE b = Len(ch) + 1
      <4>1. <<b, i>> \notin Locations(ch)
        BY <3>2, <1>1 DEF Locations
      <4>2. <<b, i>> \in Locations(new) <=> i <= 1
        BY <3>2, <1>2, <1>3, <1>4 DEF Locations
      <4>3. i <= 1 <=> i = 1
        BY BoundAssumption
      <4>4. QED
        BY <4>1, <4>2, <4>3, <3>2
    <3>3. QED
      BY <3>1, <3>2, <1>6
  <2>2. Locations(new) \subseteq (1 .. Len(ch) + 1) \X (1 .. BlockSize)
    BY <1>2 DEF Locations
  <2>3. Locations(ch) \cup {last} \subseteq (1 .. Len(ch) + 1) \X (1 .. BlockSize)
    BY <1>1, BoundAssumption DEF Locations
  <2>4. QED
    BY <2>1, <2>2, <2>3
<1>10. TxAt(new, last) = tx
  BY <1>2, <1>3, <1>4 DEF TxAt
<1>11. \A m \in Locations(ch) : TxAt(new, m) = TxAt(ch, m)
  BY <1>2, LocationFacts DEF TxAt
<1>12. \A m \in Locations(new) : IsTx(TxAt(new, m))
  BY <1>9, <1>10, <1>11 DEF IsChain
<1>13. IsChain(new)
  BY <1>2, <1>7, <1>12 DEF IsChain
<1>14. QED
  BY <1>8, <1>9, <1>10, <1>11, <1>13

--------------------------------
(* The first chain *)

LEMMA CountFacts ==
  /\ Len(Order) \in Nat \ {0} /\ DOMAIN Order = 1 .. Len(Order)
  /\ \A k \in 1 .. Len(Order) : Order[k] \in Dataset
  /\ Count \in Nat
  /\ Count * BlockSize >= Len(Order)
  /\ \A b \in 1 .. Count : (b - 1) * BlockSize + 1 <= Len(Order)
<1>1. /\ Len(Order) \in Nat \ {0} /\ DOMAIN Order = 1 .. Len(Order)
      /\ \A k \in 1 .. Len(Order) : Order[k] \in Dataset
  BY OrderAssumption
<1>2. PICK n \in Nat \ {0}, B \in Nat \ {0} : n = Len(Order) /\ B = BlockSize
  BY <1>1, BoundAssumption
<1>3. PICK other \in Nat : other = (n + B - 1) \div B /\ other * B <= n + B - 1 /\ n + B - 1 < other * B + B
  <2>1. PICK a \in Nat : a = n + B - 1
    BY <1>2
  <2>2. a \div B \in Nat /\ (a \div B) * B <= a /\ a < (a \div B) * B + B
    BY <1>2
  <2>3. QED
    BY <2>1, <2>2
<1>4. ASSUME NEW b \in 1 .. other
      PROVE  (b - 1) * B + 1 <= n
  <2>1. b * B <= other * B /\ (b - 1) * B = b * B - B
    BY <1>2, <1>3
  <2>2. PICK x \in Nat, y \in Nat : x = b * B /\ y = other * B
    BY <1>2, <1>3
  <2>3. QED
    BY <2>1, <2>2, <1>2, <1>3
<1>5. other * B >= n
  <2>1. PICK y \in Nat : y = other * B
    BY <1>2, <1>3
  <2>2. QED
    BY <2>1, <1>2, <1>3
<1>6. QED
  BY <1>1, <1>2, <1>3, <1>4, <1>5 DEF Count

LEMMA SliceFacts ==
  ASSUME NEW b \in 1 .. Count
  PROVE  /\ Len(Slice(b)) \in 1 .. BlockSize
         /\ \A j \in 1 .. Len(Slice(b)) :
                /\ (b - 1) * BlockSize + j \in 1 .. Len(Order)
                /\ Slice(b)[j] = Order[(b - 1) * BlockSize + j]
         /\ \/ Len(Slice(b)) = BlockSize
            \/ Len(Slice(b)) = Len(Order) - (b - 1) * BlockSize
<1>1. /\ Len(Order) \in Nat \ {0}
      /\ \A k \in 1 .. Len(Order) : Order[k] \in Dataset
      /\ Count \in Nat /\ (b - 1) * BlockSize + 1 <= Len(Order)
  BY CountFacts
<1>2. PICK n \in Nat, B \in Nat \ {0}, low \in Nat :
        /\ n = Len(Order) /\ B = BlockSize
        /\ low = (b - 1) * BlockSize /\ low + 1 <= n /\ b * BlockSize = low + B
  BY <1>1, BoundAssumption
<1>3. PICK high \in Nat :
        /\ high = (IF low + B < n THEN low + B ELSE n)
        /\ Slice(b) = SubSeq(Order, low + 1, high)
  <2>1. (IF b * BlockSize < Len(Order) THEN b * BlockSize ELSE Len(Order))
          = IF low + B < n THEN low + B ELSE n
    BY <1>2
  <2>2. Slice(b) = SubSeq(Order, (b - 1) * BlockSize + 1,
                          IF b * BlockSize < Len(Order) THEN b * BlockSize ELSE Len(Order))
    BY DEF Slice
  <2>3. (IF low + B < n THEN low + B ELSE n) \in Nat
    BY <1>2
  <2>4. Slice(b) = SubSeq(Order, low + 1, IF low + B < n THEN low + B ELSE n)
    BY <2>1, <2>2, <1>2, Zenon
  <2>5. QED
    BY <2>3, <2>4
<1>4. /\ low + 1 \in Int /\ high \in Int /\ low + 1 <= high /\ high <= n
      /\ high - low \in 1 .. B
      /\ high - low = B \/ high = n
  BY <1>2, <1>3
<1>5. \A i \in low + 1 .. high : Order[i] \in Dataset
  BY <1>1, <1>2, <1>4
<1>6. /\ Len(SubSeq(Order, low + 1, high)) = high - (low + 1) + 1
      /\ \A j \in 1 .. high - (low + 1) + 1 :
            SubSeq(Order, low + 1, high)[j] = Order[low + 1 + j - 1]
  BY <1>4, <1>5, SubSeqProperties
<1>7. high - (low + 1) + 1 = high - low /\ \A j \in 1 .. high - low : low + 1 + j - 1 = low + j
  BY <1>2, <1>3
<1>8. Len(Slice(b)) = high - low /\ \A j \in 1 .. high - low : Slice(b)[j] = Order[low + j]
  BY <1>3, <1>6, <1>7
<1>9. \A j \in 1 .. high - low : low + j \in 1 .. n
  BY <1>2, <1>4
<1>10. QED
  BY <1>2, <1>4, <1>8, <1>9

(* Every transaction of the order has a place in a slice. *)
LEMMA EverythingPlaced ==
  ASSUME NEW k \in 1 .. Len(Order)
  PROVE  \E b \in 1 .. Count : \E j \in 1 .. Len(Slice(b)) : Slice(b)[j] = Order[k]
<1>1. /\ Len(Order) \in Nat \ {0} /\ Count \in Nat /\ Count * BlockSize >= Len(Order)
  BY CountFacts
<1>2. PICK n \in Nat \ {0}, B \in Nat \ {0}, c \in Nat :
        n = Len(Order) /\ B = BlockSize /\ c = Count /\ c * B >= n
  BY <1>1, BoundAssumption
<1>3. PICK a \in Nat : a = k - 1 /\ a < n
  BY <1>2
<1>4. PICK other \in Nat : other = a \div B /\ other * B <= a /\ a < other * B + B
  <2>1. a \div B \in Nat /\ (a \div B) * B <= a /\ a < (a \div B) * B + B
    BY <1>2, <1>3
  <2>2. QED
    BY <2>1
<1>5. other < c
  <2>1. PICK x \in Nat, y \in Nat : x = other * B /\ y = c * B
    BY <1>2, <1>4
  <2>2. other * B < c * B
    BY <2>1, <1>2, <1>3, <1>4
  <2>3. QED
    BY <2>2, <1>2, <1>4
<1>6. PICK low \in Nat : low = other * B
  BY <1>2, <1>4
<1>7. PICK b \in 1 .. Count : b - 1 = other
  <2>1. other + 1 \in 1 .. Count /\ (other + 1) - 1 = other
    BY <1>5, <1>2, <1>4
  <2>2. QED
    BY <2>1
<1>8. PICK j \in 1 .. B : j = k - low /\ low + j = k /\ j <= n - low
  BY <1>2, <1>3, <1>4, <1>6
<1>9. j \in 1 .. Len(Slice(b)) /\ (b - 1) * BlockSize = low
  <2>1. (b - 1) * BlockSize = low
    BY <1>2, <1>6, <1>7
  <2>2. /\ Len(Slice(b)) \in 1 .. BlockSize
        /\ \/ Len(Slice(b)) = BlockSize
           \/ Len(Slice(b)) = Len(Order) - (b - 1) * BlockSize
    BY <1>7, SliceFacts
  <2>3. QED
    BY <2>1, <2>2, <1>2, <1>8
<1>10. QED
  BY <1>8, <1>9, SliceFacts

(* Nothing in it is redacted. *)
Unredacted(tx) ==
  IsTx(tx) /\ Hashed(tx) /\ tx.version = 0 /\ tx.w = None /\ tx.kind \in {"genesis", "normal"}

LEMMA TxUnredacted ==
  ASSUME NEW id, NEW kind \in {"genesis", "normal"}
  PROVE  Unredacted(Tx(id, kind, id, None)) /\ Tx(id, kind, id, None).id = id
  BY DEF Unredacted, IsTx, TxFields, Tx, Hashed

LEMMA OriginalBlockFacts ==
  ASSUME NEW b \in 1 .. Count
  PROVE  /\ IsBlock(OriginalBlock(b))
         /\ Len(OriginalBlock(b).txs) = Len(Slice(b))
         /\ \A j \in 1 .. Len(Slice(b)) :
                /\ OriginalBlock(b).txs[j].id = Slice(b)[j]
                /\ Unredacted(OriginalBlock(b).txs[j])
<1> DEFINE txs == [j \in 1 .. Len(Slice(b)) |-> Normal(Slice(b)[j])]
<1>1. Len(Slice(b)) \in Nat
  BY SliceFacts, BoundAssumption
<1>2. txs \in [1 .. Len(Slice(b)) -> {Normal(Slice(b)[j]) : j \in 1 .. Len(Slice(b))}]
  OBVIOUS
<1>3. IsSequence(txs) /\ Len(txs) = Len(Slice(b))
  BY <1>1, <1>2, FunctionIsSequence
<1>4. /\ OriginalBlock(b).txs = txs /\ DOMAIN OriginalBlock(b) = {"txs", "tree"}
      /\ OriginalBlock(b).tree = NewFromHashes(Leaves(txs))
  BY DEF OriginalBlock, NewBlock
<1>5. \A j \in 1 .. Len(Slice(b)) :
        txs[j].id = Slice(b)[j] /\ Unredacted(txs[j])
  BY TxUnredacted DEF Normal
<1> HIDE DEF txs
<1>6. QED
  BY <1>3, <1>4, <1>5 DEF IsBlock

LEMMA GenesisBlockFacts ==
  /\ IsBlock(GenesisBlock) /\ Len(GenesisBlock.txs) = 1
  /\ Unredacted(GenesisBlock.txs[1])
<1>1. PICK tx : tx = Tx(Genesis, "genesis", Genesis, None)
  OBVIOUS
<1>2. <<tx>> \in Seq({tx}) /\ Len(<<tx>>) = 1 /\ <<tx>>[1] = tx
  OBVIOUS
<1>3. /\ GenesisBlock.txs = <<tx>> /\ DOMAIN GenesisBlock = {"txs", "tree"}
      /\ GenesisBlock.tree = NewFromHashes(Leaves(<<tx>>))
  BY <1>1 DEF GenesisBlock, NewBlock
<1>4. Unredacted(tx)
  BY <1>1, TxUnredacted
<1>5. QED
  BY <1>2, <1>3, <1>4 DEF IsBlock, IsSequence

LEMMA InitialShape ==
  /\ IsSequence(InitialBlocks) /\ Len(InitialBlocks) = Count + 1
  /\ InitialBlocks[1] = GenesisBlock
  /\ \A b \in 1 .. Count : InitialBlocks[b + 1] = OriginalBlock(b)
<1> DEFINE rest == [b \in 1 .. Count |-> OriginalBlock(b)]
           S == {GenesisBlock} \cup {OriginalBlock(b) : b \in 1 .. Count}
<1>1. Count \in Nat
  BY CountFacts
<1>2. rest \in Seq(S) /\ Len(rest) = Count
  <2>1. rest \in [1 .. Count -> S]
    OBVIOUS
  <2>2. QED
    BY <1>1, <2>1
<1>3. <<GenesisBlock>> \in Seq(S) /\ Len(<<GenesisBlock>>) = 1
  OBVIOUS
<1>4. \A b \in 1 .. Count : rest[b] = OriginalBlock(b)
  OBVIOUS
<1>5. InitialBlocks = <<GenesisBlock>> \o rest
  BY DEF InitialBlocks
<1> HIDE DEF rest, S
<1>6. /\ InitialBlocks \in Seq(S) /\ Len(InitialBlocks) = 1 + Count
      /\ \A i \in 1 .. 1 + Count :
            InitialBlocks[i] = IF i <= 1 THEN <<GenesisBlock>>[i] ELSE rest[i - 1]
  BY <1>2, <1>3, <1>5, ConcatProperties
<1>7. 1 \in 1 .. 1 + Count /\ <<GenesisBlock>>[1] = GenesisBlock
  BY <1>1
<1>8. \A b \in 1 .. Count : b + 1 \in 1 .. 1 + Count /\ ~(b + 1 <= 1) /\ (b + 1) - 1 = b
  BY <1>1
<1>9. \A b \in 1 .. Count : InitialBlocks[b + 1] = OriginalBlock(b)
  <2> SUFFICES ASSUME NEW b \in 1 .. Count
               PROVE  InitialBlocks[b + 1] = OriginalBlock(b)
    OBVIOUS
  <2>1. InitialBlocks[b + 1] = rest[(b + 1) - 1]
    BY <1>6, <1>8
  <2>2. QED
    BY <2>1, <1>4, <1>8
<1>10. QED
  BY <1>1, <1>6, <1>7, <1>9 DEF IsSequence

LEMMA InitialChain ==
  /\ IsChain(InitialBlocks)
  /\ \A l \in Locations(InitialBlocks) : Unredacted(TxAt(InitialBlocks, l))
  /\ \A t \in Dataset : \E l \in Locations(InitialBlocks) : TxAt(InitialBlocks, l).id = t
<1> DEFINE ch == InitialBlocks
<1>1. Count \in Nat /\ Len(ch) = Count + 1
  BY CountFacts, InitialShape
<1>2. \A c \in 1 .. Len(ch) : c = 1 \/ \E b \in 1 .. Count : c = b + 1
  <2> SUFFICES ASSUME NEW c \in 1 .. Len(ch), c # 1
               PROVE  \E b \in 1 .. Count : c = b + 1
    OBVIOUS
  <2>1. c - 1 \in 1 .. Count /\ c = (c - 1) + 1
    BY <1>1
  <2>2. QED
    BY <2>1
<1>3. \A c \in 1 .. Len(ch) :
        IsBlock(ch[c]) /\ \A j \in 1 .. Len(ch[c].txs) : Unredacted(ch[c].txs[j])
  <2> SUFFICES ASSUME NEW c \in 1 .. Len(ch)
               PROVE  IsBlock(ch[c]) /\ \A j \in 1 .. Len(ch[c].txs) : Unredacted(ch[c].txs[j])
    OBVIOUS
  <2>1. CASE c = 1
    <3>1. ch[c] = GenesisBlock
      BY <2>1, InitialShape
    <3>2. \A j \in 1 .. 1 : j = 1
      OBVIOUS
    <3>3. QED
      BY <3>1, <3>2, GenesisBlockFacts
  <2>2. CASE \E b \in 1 .. Count : c = b + 1
    BY <2>2, InitialShape, OriginalBlockFacts
  <2>3. QED
    BY <2>1, <2>2, <1>2
<1>4. ASSUME NEW l \in Locations(ch)
      PROVE  Unredacted(TxAt(ch, l))
  <2>1. l[1] \in 1 .. Len(ch) /\ l[2] \in 1 .. BlockSize /\ l[2] <= Len(ch[l[1]].txs)
    BY DEF Locations
  <2>2. IsSequence(ch[l[1]].txs)
    BY <2>1, <1>3 DEF IsBlock
  <2>3. Len(ch[l[1]].txs) \in Nat
    BY <2>2, SequenceFacts
  <2>4. l[2] \in 1 .. Len(ch[l[1]].txs)
    BY <2>1, <2>3, BoundAssumption
  <2>5. QED
    BY <2>1, <2>4, <1>3 DEF TxAt
<1>5. IsChain(ch)
  BY <1>3, <1>4, InitialShape DEF IsChain, Unredacted
<1>6. ASSUME NEW t \in Dataset
      PROVE  \E l \in Locations(ch) : TxAt(ch, l).id = t
  <2>1. PICK k \in 1 .. Len(Order) : Order[k] = t
    BY OrderAssumption, CountFacts DEF ToSet
  <2>2. PICK b \in 1 .. Count : \E j \in 1 .. Len(Slice(b)) : Slice(b)[j] = t
    BY <2>1, EverythingPlaced
  <2>3. PICK j \in 1 .. Len(Slice(b)) : Slice(b)[j] = t
    BY <2>2
  <2>4. ch[b + 1] = OriginalBlock(b) /\ b + 1 \in 1 .. Len(ch)
    BY <1>1, InitialShape
  <2>5. j \in 1 .. BlockSize /\ j <= Len(ch[b + 1].txs) /\ ch[b + 1].txs[j].id = t
    BY <2>3, <2>4, SliceFacts, OriginalBlockFacts, BoundAssumption
  <2>6. <<b + 1, j>> \in Locations(ch) /\ TxAt(ch, <<b + 1, j>>).id = t
    BY <2>4, <2>5 DEF Locations, TxAt
  <2>7. QED
    BY <2>6
<1>7. QED
  BY <1>4, <1>5, <1>6

(* An identifier of a chain has a last place, which LocationOf finds. *)
LEMMA LocationOfFound ==
  ASSUME NEW ch, IsChain(ch), NEW id, \E l \in Locations(ch) : TxAt(ch, l).id = id
  PROVE  /\ LocationOf(ch, id) \in Locations(ch)
         /\ TxAt(ch, LocationOf(ch, id)).id = id
<1> DEFINE places == {l \in Locations(ch) : TxAt(ch, l).id = id}
           tails == {l[1] .. Len(ch) : l \in places}
<1>1. Len(ch) \in Nat
  BY SequenceFacts DEF IsChain
<1>2. \A l \in places : l[1] \in 1 .. Len(ch)
  BY DEF Locations
<1>3. tails \subseteq FiniteSubsetsOf(Nat) /\ tails # {}
  <2>1. ASSUME NEW l \in places
        PROVE  l[1] .. Len(ch) \in FiniteSubsetsOf(Nat)
    <3>1. l[1] \in Int /\ Len(ch) \in Int /\ l[1] .. Len(ch) \subseteq Nat
      BY <1>1, <1>2
    <3>2. IsFiniteSet(l[1] .. Len(ch))
      BY <3>1, FS_Interval
    <3>3. QED
      BY <3>1, <3>2 DEF FiniteSubsetsOf
  <2>2. QED
    BY <2>1
<1>4. PICK s \in tails : \A t \in tails : ~(<<t, s>> \in StrictSubsetOrdering(Nat))
  BY <1>3, WFMin, FS_StrictSubsetOrderingWellFounded
<1>5. \A t \in tails : ~(t \subseteq s /\ t # s)
  BY <1>3, <1>4 DEF StrictSubsetOrdering, FiniteSubsetsOf
<1>6. PICK l \in places : s = l[1] .. Len(ch)
  BY <1>4
<1>7. \A m \in places : m[1] <= l[1]
  <2> SUFFICES ASSUME NEW m \in places, m[1] > l[1] PROVE FALSE
    BY <1>2, <1>6
  <2>1. m[1] .. Len(ch) \subseteq l[1] .. Len(ch) /\ l[1] \in l[1] .. Len(ch)
        /\ l[1] \notin m[1] .. Len(ch)
    BY <1>1, <1>2
  <2>2. QED
    BY <2>1, <1>5, <1>6
<1>8. \E k \in Locations(ch) :
        /\ ch[k[1]].txs[k[2]].id = id
        /\ \A m \in Locations(ch) : ch[m[1]].txs[m[2]].id = id => m[1] <= k[1]
  BY <1>7 DEF TxAt
<1>9. QED
  BY <1>8 DEF LocationOf, TxAt

--------------------------------
(* The invariant *)

(* Who prunes knows a transaction of the dataset. *)
WorkersTyped ==
  /\ worker = [w \in Redactors |-> worker[w]]
  /\ \A w \in Redactors :
        /\ DOMAIN worker[w] = {"pc", "rdt"}
        /\ worker[w].pc # "idle" =>
              worker[w].rdt.target \in Dataset /\ worker[w].rdt.request \in Requests

(* Every transaction of the dataset is where txLoc says. *)
Found ==
  \A t \in Dataset :
    t \in DOMAIN txLoc /\ txLoc[t] \in Locations(blocks) /\ TxAt(blocks, txLoc[t]).id = t

LedgerInv ==
  /\ IsChain(blocks)
  /\ Found
  /\ WorkersTyped
  /\ \A a \in granted : a.request \in Requests

(* The two terms of HistoryComplete. *)
Recorded(ch, t) ==
  {l \in Locations(ch) : TxAt(ch, l).kind = "redaction" /\ TxAt(ch, l).rdt.target = t}

Between(ws, t) == {w \in Redactors : ws[w].pc = "append" /\ ws[w].rdt.target = t}

Complete(ch, loc, ws, t) ==
  TxAt(ch, loc[t]).version = Cardinality(Recorded(ch, t)) + Cardinality(Between(ws, t))

LEMMA HistoryIs ==
  /\ HistoryComplete <=> \A t \in Dataset : Complete(blocks, txLoc, worker, t)
  /\ HistoryComplete' <=> \A t \in Dataset : Complete(blocks', txLoc', worker', t)
  BY DEF HistoryComplete, Complete, Recorded, Between, Scan, Lookup, At, TxAt

LEMMA CountsFinite ==
  ASSUME NEW ch, IsChain(ch), NEW ws, NEW t
  PROVE  /\ IsFiniteSet(Recorded(ch, t)) /\ Cardinality(Recorded(ch, t)) \in Nat
         /\ IsFiniteSet(Between(ws, t)) /\ Cardinality(Between(ws, t)) \in Nat
<1>1. IsFiniteSet(Locations(ch))
  BY LocationsFinite, SequenceFacts DEF IsChain
<1>2. IsFiniteSet(Recorded(ch, t))
  BY <1>1, FS_Subset DEF Recorded
<1>3. IsFiniteSet(Between(ws, t))
  BY RedactorAssumption, FS_Subset DEF Between
<1>4. QED
  BY <1>2, <1>3, FS_CardinalityType

LEMMA InitLedger ==
  ASSUME Init
  PROVE  LedgerInv /\ HistoryComplete
<1>1. /\ blocks = InitialBlocks
      /\ txLoc = [id \in Ids(InitialBlocks) |-> LocationOf(InitialBlocks, id)]
      /\ granted = {} /\ worker = [w \in Redactors |-> Idle]
  BY DEF Init
<1>2. \A t \in Dataset : t \in Ids(InitialBlocks)
  BY InitialChain DEF Ids, TxAt
<1>3. Found
  BY <1>1, <1>2, InitialChain, LocationOfFound DEF Found
<1>4. WorkersTyped
  BY <1>1 DEF WorkersTyped, Idle
<1>5. LedgerInv
  BY <1>1, <1>3, <1>4, InitialChain DEF LedgerInv
<1>6. ASSUME NEW t \in Dataset
      PROVE  Complete(blocks, txLoc, worker, t)
  <2>1. Recorded(blocks, t) = {}
    BY <1>1, InitialChain DEF Recorded, Unredacted
  <2>2. Between(worker, t) = {}
    BY <1>1 DEF Between, Idle
  <2>3. TxAt(blocks, txLoc[t]).version = 0
    BY <1>1, <1>3, InitialChain DEF Found, Unredacted
  <2>4. QED
    BY <2>1, <2>2, <2>3, FS_EmptySet DEF Complete
<1>7. QED
  BY <1>5, <1>6, HistoryIs

--------------------------------
(* The steps *)

(* A step that leaves the ledger alone and lets nobody prune or append. *)
LEMMA LedgerAside ==
  ASSUME LedgerInv, HistoryComplete, UNCHANGED <<blocks, txLoc>>, WorkersTyped',
         \A w \in Redactors :
            /\ worker'[w].pc = "append" <=> worker[w].pc = "append"
            /\ worker[w].pc = "append" => worker'[w].rdt = worker[w].rdt,
         \A a \in granted' : a.request \in Requests
  PROVE  LedgerInv' /\ HistoryComplete'
<1>1. LedgerInv'
  BY DEF LedgerInv, Found
<1>2. ASSUME NEW t \in Dataset
      PROVE  Complete(blocks', txLoc', worker', t)
  <2>1. Between(worker', t) = Between(worker, t)
    BY DEF Between
  <2>2. QED
    BY <2>1, HistoryIs DEF Complete
<1>3. QED
  BY <1>1, <1>2, HistoryIs

LEMMA AuthorizeKeeps ==
  ASSUME LedgerInv, HistoryComplete, NEW r \in Requests, Authorize(r)
  PROVE  LedgerInv' /\ HistoryComplete'
<1>1. UNCHANGED <<blocks, txLoc, worker>>
  BY DEF Authorize
<1>2. \A a \in granted' : a.request \in Requests
  BY DEF Authorize, LedgerInv
<1>3. QED
  BY <1>1, <1>2, LedgerAside DEF LedgerInv, WorkersTyped

LEMMA StartRedactKeeps ==
  ASSUME LedgerInv, HistoryComplete, NEW w \in Redactors, NEW a \in granted, StartRedact(w, a)
  PROVE  LedgerInv' /\ HistoryComplete'
<1> DEFINE rdt == RedactionTx(a, Lookup(Target[a.request]).hw)
<1>1. /\ UNCHANGED <<blocks, txLoc>> /\ worker[w].pc = "idle" /\ granted' \subseteq granted
      /\ worker' = [worker EXCEPT ![w] = [pc |-> "apply", rdt |-> rdt]]
  BY DEF StartRedact
<1>2. rdt.target \in Dataset /\ rdt.request \in Requests
  BY RequestAssumption DEF RedactionTx, LedgerInv
<1> HIDE DEF rdt
<1>3. /\ worker' = [v \in Redactors |-> worker'[v]]
      /\ worker'[w] = [pc |-> "apply", rdt |-> rdt]
      /\ \A v \in Redactors : v # w => worker'[v] = worker[v]
  BY <1>1 DEF LedgerInv, WorkersTyped
<1>4. WorkersTyped'
  BY <1>2, <1>3 DEF LedgerInv, WorkersTyped
<1>5. QED
  BY <1>1, <1>3, <1>4, LedgerAside DEF LedgerInv

(* Pruning is a new version and a redaction transaction to be appended. *)
LEMMA ApplyKeeps ==
  ASSUME LedgerInv, HistoryComplete, NEW w \in Redactors, ApplyRedaction(w)
  PROVE  LedgerInv' /\ HistoryComplete'
<1> DEFINE t0 == worker[w].rdt.target
           r == worker[w].rdt.request
           l == txLoc[t0]
<1>1. /\ worker[w].pc = "apply" /\ blocks' = Apply(blocks, l, r)
      /\ worker' = [worker EXCEPT ![w].pc = "append"]
      /\ txLoc' = txLoc /\ granted' = granted
  BY DEF ApplyRedaction
<1>2. t0 \in Dataset /\ IsChain(blocks) /\ Found
  BY <1>1 DEF LedgerInv, WorkersTyped
<1>3. l \in Locations(blocks) /\ TxAt(blocks, l).id = t0
  BY <1>2 DEF Found
<1>4. /\ IsChain(blocks') /\ Locations(blocks') = Locations(blocks)
      /\ TxAt(blocks', l) = Pruned(TxAt(blocks, l), r)
      /\ \A m \in Locations(blocks) : m # l => TxAt(blocks', m) = TxAt(blocks, m)
  BY <1>1, <1>2, <1>3, PrunedInPlace
<1>5. IsTx(TxAt(blocks, l))
  BY <1>2, <1>3, LocationFacts
<1>6. /\ TxAt(blocks', l).id = t0
      /\ TxAt(blocks', l).kind = TxAt(blocks, l).kind
      /\ TxAt(blocks', l).rdt = TxAt(blocks, l).rdt
      /\ TxAt(blocks', l).version = TxAt(blocks, l).version + 1
  BY <1>3, <1>4, <1>5 DEF Pruned, IsTx, TxFields
<1>7. /\ worker' = [v \in Redactors |-> worker'[v]]
      /\ DOMAIN worker'[w] = {"pc", "rdt"}
      /\ worker'[w].pc = "append" /\ worker'[w].rdt = worker[w].rdt
      /\ \A v \in Redactors : v # w => worker'[v] = worker[v]
  BY <1>1 DEF LedgerInv, WorkersTyped
<1>8. Found'
  BY <1>1, <1>2, <1>4, <1>6 DEF Found
<1>9. WorkersTyped'
  BY <1>1, <1>7 DEF LedgerInv, WorkersTyped
<1>10. LedgerInv'
  BY <1>1, <1>4, <1>8, <1>9 DEF LedgerInv
<1>11. ASSUME NEW t \in Dataset
       PROVE  Complete(blocks', txLoc', worker', t)
  <2>1. Recorded(blocks', t) = Recorded(blocks, t)
    BY <1>4, <1>6 DEF Recorded
  <2>2. Complete(blocks, txLoc, worker, t)
    BY HistoryIs
  <2>3. CASE t = t0
    <3>1. Between(worker', t) = Between(worker, t) \cup {w} /\ w \notin Between(worker, t)
      BY <2>3, <1>1, <1>7 DEF Between
    <3>2. Cardinality(Between(worker', t)) = Cardinality(Between(worker, t)) + 1
      BY <3>1, <1>2, CountsFinite, FS_AddElement
    <3>3. /\ Cardinality(Recorded(blocks, t)) \in Nat
          /\ Cardinality(Between(worker, t)) \in Nat
      BY <1>2, CountsFinite
    <3>4. QED
      BY <2>1, <2>2, <2>3, <3>2, <3>3, <1>1, <1>6 DEF Complete
  <2>4. CASE t # t0
    <3>1. Between(worker', t) = Between(worker, t)
      BY <2>4, <1>1, <1>7 DEF Between
    <3>2. txLoc[t] \in Locations(blocks) /\ txLoc[t] # l
      BY <2>4, <1>2, <1>3 DEF Found
    <3>3. QED
      BY <2>1, <2>2, <3>1, <3>2, <1>1, <1>4 DEF Complete
  <2>5. QED
    BY <2>3, <2>4
<1>12. QED
  BY <1>10, <1>11, HistoryIs

(* The transaction to be appended is in the chain. *)
LEMMA AppendKeeps ==
  ASSUME LedgerInv, HistoryComplete, NEW w \in Redactors, AppendRedactionTx(w)
  PROVE  LedgerInv' /\ HistoryComplete'
<1> DEFINE rdt == worker[w].rdt
           id == rdt.request
           tx == Tx(id, "redaction", rdt, rdt)
           last == <<Len(blocks) + 1, 1>>
<1>1. /\ worker[w].pc = "append" /\ blocks' = Append(blocks, NewBlock(<<tx>>))
      /\ txLoc' = Located(txLoc, id, last)
      /\ worker' = [worker EXCEPT ![w] = Idle]
      /\ granted' = granted
  BY DEF AppendRedactionTx
<1>2. rdt.target \in Dataset /\ id \in Requests /\ IsChain(blocks) /\ Found
  BY <1>1 DEF LedgerInv, WorkersTyped
<1>3. IsTx(tx) /\ tx.kind = "redaction" /\ tx.rdt = rdt
  BY DEF IsTx, TxFields, Tx
<1>4. /\ IsChain(blocks') /\ Locations(blocks') = Locations(blocks) \cup {last}
      /\ last \notin Locations(blocks) /\ TxAt(blocks', last) = tx
      /\ \A m \in Locations(blocks) : TxAt(blocks', m) = TxAt(blocks, m)
  <2> DEFINE new == Append(blocks, NewBlock(<<tx>>))
  <2> HIDE DEF tx
  <2>1. IsChain(blocks) /\ IsTx(tx)
    BY <1>2, <1>3
  <2>2. /\ IsChain(new) /\ Locations(new) = Locations(blocks) \cup {last}
        /\ last \notin Locations(blocks) /\ TxAt(new, last) = tx
        /\ \A m \in Locations(blocks) : TxAt(new, m) = TxAt(blocks, m)
    BY <2>1, BlockAppended, Zenon
  <2>3. blocks' = new
    BY <1>1, Zenon
  <2> HIDE DEF new, last
  <2>4. QED
    BY <2>2, <2>3, Zenon
<1>5. \A t \in Dataset : t \in DOMAIN txLoc' /\ txLoc'[t] = txLoc[t]
  BY <1>1, <1>2, RequestAssumption DEF Located, Found
<1>6. /\ worker' = [v \in Redactors |-> worker'[v]]
      /\ worker'[w] = Idle
      /\ \A v \in Redactors : v # w => worker'[v] = worker[v]
  BY <1>1 DEF LedgerInv, WorkersTyped
<1> HIDE DEF tx, last
<1>7. Found'
  BY <1>2, <1>4, <1>5 DEF Found
<1>8. WorkersTyped'
  BY <1>6 DEF LedgerInv, WorkersTyped, Idle
<1>9. LedgerInv'
  BY <1>1, <1>4, <1>7, <1>8 DEF LedgerInv
<1>10. ASSUME NEW t \in Dataset
       PROVE  Complete(blocks', txLoc', worker', t)
  <2>1. Complete(blocks, txLoc, worker, t)
    BY HistoryIs
  <2>2. TxAt(blocks', txLoc'[t]) = TxAt(blocks, txLoc[t])
    BY <1>2, <1>4, <1>5 DEF Found
  <2>3. CASE t = rdt.target
    <3>1. /\ Recorded(blocks', t) = Recorded(blocks, t) \cup {last}
          /\ last \notin Recorded(blocks, t)
      BY <2>3, <1>3, <1>4 DEF Recorded
    <3>2. /\ Between(worker', t) = Between(worker, t) \ {w}
          /\ w \in Between(worker, t)
      BY <2>3, <1>1, <1>6 DEF Between, Idle
    <3>3. /\ IsFiniteSet(Recorded(blocks, t)) /\ Cardinality(Recorded(blocks, t)) \in Nat
          /\ IsFiniteSet(Between(worker, t)) /\ Cardinality(Between(worker, t)) \in Nat
      BY <1>2, CountsFinite
    <3>4. Cardinality(Recorded(blocks', t)) = Cardinality(Recorded(blocks, t)) + 1
      BY <3>1, <3>3, FS_AddElement
    <3>5. Cardinality(Between(worker', t)) = Cardinality(Between(worker, t)) - 1
      BY <3>2, <3>3, FS_RemoveElement
    <3>6. QED
      BY <2>1, <2>2, <3>3, <3>4, <3>5 DEF Complete
  <2>4. CASE t # rdt.target
    <3>1. Recorded(blocks', t) = Recorded(blocks, t)
      BY <2>4, <1>3, <1>4 DEF Recorded
    <3>2. Between(worker', t) = Between(worker, t)
      BY <2>4, <1>1, <1>6 DEF Between, Idle
    <3>3. QED
      BY <2>1, <2>2, <3>1, <3>2 DEF Complete
  <2>5. QED
    BY <2>3, <2>4
<1>11. QED
  BY <1>9, <1>10, HistoryIs

LEMMA OthersKeep ==
  ASSUME LedgerInv, HistoryComplete, UNCHANGED <<blocks, txLoc, worker, granted>>
  PROVE  LedgerInv' /\ HistoryComplete'
  BY LedgerAside DEF LedgerInv, WorkersTyped

LEMMA StepKeeps ==
  ASSUME LedgerInv, HistoryComplete, [Next]_vars
  PROVE  LedgerInv' /\ HistoryComplete'
<1>1. CASE \E r \in Requests : Authorize(r)
  BY <1>1, AuthorizeKeeps
<1>2. CASE \E w \in Redactors : ApplyRedaction(w)
  BY <1>2, ApplyKeeps
<1>3. CASE \E w \in Redactors : AppendRedactionTx(w)
  BY <1>3, AppendKeeps
<1>4. CASE \E w \in Redactors, a \in granted : StartRedact(w, a)
  BY <1>4, StartRedactKeeps
<1>5. CASE \E a \in Auditors : VerifyTarget(a) \/ VerifyRecord(a)
  BY <1>5, OthersKeep DEF VerifyTarget, VerifyRecord
<1>6. CASE \E a \in Auditors, t \in Dataset : StartAudit(a, t)
  BY <1>6, OthersKeep DEF StartAudit
<1>7. CASE UNCHANGED vars
  BY <1>7, OthersKeep DEF vars
<1>8. QED
  BY <1>1, <1>2, <1>3, <1>4, <1>5, <1>6, <1>7 DEF Next

(* A scan finds the whole history: a transaction's version is the number of
   redaction transactions about it that the chain holds or that a redaction
   is about to append, however redactions interleave and however often one
   authorization is replayed (applyRedaction, appendRedactionTx,
   scanForRedactions). *)
THEOREM HistoriesComplete == Spec => []HistoryComplete
<1>1. Init => LedgerInv /\ HistoryComplete
  BY InitLedger
<1>2. LedgerInv /\ HistoryComplete /\ [Next]_vars => (LedgerInv /\ HistoryComplete)'
  BY StepKeeps
<1>3. QED
  BY <1>1, <1>2, PTL DEF Spec

--------------------------------
(* Audits *)

(* What a redaction will append or has appended. *)
Genuine(rdt) ==
  rdt.request \in Requests /\ rdt.target = Target[rdt.request] /\ VerifySigma(rdt.evidence)

(* The redaction transaction of a request is where txLoc says. *)
Resolved(ch, loc, r) ==
  /\ r \in DOMAIN loc /\ loc[r] \in Locations(ch)
  /\ TxAt(ch, loc[r]).id = r /\ TxAt(ch, loc[r]).kind = "redaction"
  /\ TxAt(ch, loc[r]).rdt.target = Target[r]

(* It is about to be appended. *)
Pending(ws, r) == \E w \in Redactors : ws[w].pc = "append" /\ ws[w].rdt.request = r

(* What an audit of a transaction relies on. *)
Referenced(ch, loc, ws, tx) ==
  /\ tx.version > 0 <=> tx.w # None
  /\ tx.w # None =>
        /\ tx.w \in Requests /\ Target[tx.w] = tx.id
        /\ Resolved(ch, loc, tx.w) \/ Pending(ws, tx.w)

Recording(ch, loc, tx) ==
  tx.kind = "redaction" =>
    tx.w = None /\ tx.id = tx.rdt.request /\ Genuine(tx.rdt) /\ Resolved(ch, loc, tx.id)

ChainSound(ch, loc, ws) ==
  \A l \in Locations(ch) :
    /\ Hashed(TxAt(ch, l)) /\ Referenced(ch, loc, ws, TxAt(ch, l))
    /\ Recording(ch, loc, TxAt(ch, l))

WorkersGenuine ==
  /\ \A a \in granted : a.request \in Requests /\ VerifySigma(a.evidence)
  /\ \A w \in Redactors : worker[w].pc # "idle" => Genuine(worker[w].rdt)

Audited(ch, au) ==
  /\ DOMAIN au = {"pc", "target", "found", "verified", "midway"}
  /\ au.pc \in {"idle", "target", "records", "done"}
  /\ au.pc \in {"target", "records"} =>
        \A l \in au.found : l \in Locations(ch) /\ TxAt(ch, l).kind = "redaction"
  /\ au.pc = "target" => au.target \in Dataset
  /\ au.pc = "records" => au.found # {}
  /\ au.pc = "done" /\ ~au.verified => au.midway

AuditorsSound ==
  /\ auditor = [a \in Auditors |-> auditor[a]]
  /\ \A a \in Auditors : Audited(blocks, auditor[a])

SoundInv == ChainSound(blocks, txLoc, worker) /\ WorkersGenuine /\ AuditorsSound

(* The leaves of a block prove themselves. *)
LEMMA LeavesOf ==
  ASSUME NEW txs, IsSequence(txs), NEW i \in 1 .. Len(txs)
  PROVE  LET mt == NewFromHashes(Leaves(txs))
         IN  /\ VerifyHash(Root(mt), txs[i].hc, Proof(mt, 2 * (i - 1)))
             /\ VerifyHash(Root(mt), txs[i].hw, Proof(mt, 2 * (i - 1) + 1))
<1>1. PICK n \in Nat : n = Len(txs) /\ i <= n /\ i >= 1
  BY SequenceFacts
<1>2. PICK items : items = Leaves(txs)
  OBVIOUS
<1>3. items = [k \in 1 .. 2 * n |-> IF k % 2 = 1 THEN txs[(k + 1) \div 2].hc ELSE txs[k \div 2].hw]
  BY <1>1, <1>2 DEF Leaves
<1>4. IsSequence(items) /\ Len(items) = 2 * n
  <2>1. items \in [1 .. 2 * n -> {items[k] : k \in 1 .. 2 * n}]
    BY <1>3
  <2>2. 2 * n \in Nat
    BY <1>1
  <2>3. QED
    BY <2>1, <2>2, FunctionIsSequence
<1>5. PICK core \in Nat : core = 2 * (i - 1)
  BY <1>1
<1>6. /\ core + 1 \in 1 .. 2 * n /\ (core + 1) % 2 = 1 /\ ((core + 1) + 1) \div 2 = i
      /\ (core + 1) + 1 \in 1 .. 2 * n /\ ((core + 1) + 1) % 2 = 0
      /\ core \in 0 .. 2 * n - 1 /\ core + 1 \in 0 .. 2 * n - 1
  BY <1>1, <1>5
<1>7. items[core + 1] = txs[i].hc /\ items[(core + 1) + 1] = txs[i].hw
  BY <1>3, <1>6
<1>8. /\ VerifyHash(Root(NewFromHashes(items)), items[core + 1], Proof(NewFromHashes(items), core))
      /\ VerifyHash(Root(NewFromHashes(items)), items[(core + 1) + 1],
                    Proof(NewFromHashes(items), core + 1))
  BY <1>4, <1>6, LeavesProved
<1>9. QED
  BY <1>2, <1>5, <1>7, <1>8

(* The earliest of some places of a chain. *)
LEMMA EarliestFound ==
  ASSUME NEW places, places # {}, \A l \in places : l[1] \in Nat
  PROVE  (CHOOSE m \in places : \A n \in places : m[1] <= n[1]) \in places
<1> SUFFICES ASSUME ~\E m \in places : \A n \in places : m[1] <= n[1]
             PROVE  FALSE
  OBVIOUS
<1>0. \A m \in places : \E n \in places : n[1] < m[1]
  OBVIOUS
<1> DEFINE P == {k \in Nat : \A l \in places : l[1] > k}
<1>1. 0 \in P
  <2> SUFFICES ASSUME NEW l \in places PROVE l[1] > 0
    OBVIOUS
  <2>1. PICK n \in places : n[1] < l[1]
    BY <1>0
  <2>2. n[1] \in Nat /\ l[1] \in Nat
    OBVIOUS
  <2>3. QED
    BY <2>1, <2>2
<1>2. ASSUME NEW k \in Nat, k \in P
      PROVE  k + 1 \in P
  <2> SUFFICES ASSUME NEW l \in places PROVE l[1] > k + 1
    OBVIOUS
  <2>1. PICK n \in places : n[1] < l[1]
    BY <1>0
  <2>2. n[1] \in Nat /\ l[1] \in Nat /\ n[1] > k
    BY <1>2
  <2>3. QED
    BY <2>1, <2>2
<1>3. Nat \subseteq P
  <2> HIDE DEF P
  <2>1. QED
    BY <1>1, <1>2, SetInduction
<1>4. PICK l \in places : l[1] \in Nat
  OBVIOUS
<1>5. l[1] \in P
  BY <1>3, <1>4
<1>6. QED
  BY <1>4, <1>5

(* An audited identifier passes once its reference does. *)
LEMMA EMTVerified ==
  ASSUME IsChain(blocks), NEW id, id \in DOMAIN txLoc, txLoc[id] \in Locations(blocks),
         Hashed(TxAt(blocks, txLoc[id])), ReferenceHolds(TxAt(blocks, txLoc[id]))
  PROVE  VerifyEMT(id)
<1>1. PICK b, i : b = txLoc[id][1] /\ i = txLoc[id][2]
  OBVIOUS
<1>2. /\ b \in 1 .. Len(blocks) /\ i \in 1 .. Len(blocks[b].txs)
      /\ IsBlock(blocks[b]) /\ IsSequence(blocks[b].txs)
  BY <1>1, LocationFacts
<1>3. /\ VerifyHash(Root(blocks[b].tree), blocks[b].txs[i].hc, Proof(blocks[b].tree, 2 * (i - 1)))
      /\ VerifyHash(Root(blocks[b].tree), blocks[b].txs[i].hw, Proof(blocks[b].tree, 2 * (i - 1) + 1))
  BY <1>2, LeavesOf DEF IsBlock
<1>4. QED
  BY <1>1, <1>3 DEF VerifyEMT, At, TxAt, Hashed

LEMMA TargetVerified ==
  ASSUME LedgerInv, SoundInv, NEW t \in Dataset, ~Midway(t)
  PROVE  VerifyEMT(t)
<1> DEFINE tx == TxAt(blocks, txLoc[t])
<1>1. /\ IsChain(blocks) /\ t \in DOMAIN txLoc /\ txLoc[t] \in Locations(blocks)
      /\ tx.id = t
  BY DEF LedgerInv, Found
<1>2. Hashed(tx) /\ Referenced(blocks, txLoc, worker, tx)
  BY <1>1 DEF SoundInv, ChainSound
<1>3. ASSUME tx.w # None
      PROVE  Resolved(blocks, txLoc, tx.w)
  <2>1. tx.w \in Requests /\ Target[tx.w] = t /\ (Resolved(blocks, txLoc, tx.w) \/ Pending(worker, tx.w))
    BY <1>1, <1>2, <1>3 DEF Referenced
  <2>2. ASSUME NEW w \in Redactors, worker[w].pc = "append", worker[w].rdt.request = tx.w
        PROVE  FALSE
    <3>1. Genuine(worker[w].rdt)
      BY <2>2 DEF SoundInv, WorkersGenuine
    <3>2. worker[w].rdt.target = t
      BY <2>1, <2>2, <3>1 DEF Genuine
    <3>3. QED
      BY <2>2, <3>2 DEF Midway
  <2>3. QED
    BY <2>1, <2>2 DEF Pending
<1>4. ReferenceHolds(tx)
  BY <1>1, <1>2, <1>3 DEF ReferenceHolds, Referenced, Resolved, Lookup, At, TxAt
<1> HIDE DEF tx
<1>5. QED
  BY <1>1, <1>2, <1>4, EMTVerified DEF tx

LEMMA RecordVerified ==
  ASSUME LedgerInv, SoundInv, NEW l \in Locations(blocks), TxAt(blocks, l).kind = "redaction"
  PROVE  VerifyEMT(At(l).id) /\ VerifySigma(At(l).rdt.evidence)
<1> DEFINE tx == TxAt(blocks, l)
           id == tx.id
           own == TxAt(blocks, txLoc[id])
<1>1. Genuine(tx.rdt) /\ Resolved(blocks, txLoc, id)
  BY DEF SoundInv, ChainSound, Recording
<1>2. id \in DOMAIN txLoc /\ txLoc[id] \in Locations(blocks) /\ own.kind = "redaction"
  BY <1>1 DEF Resolved
<1>3. Hashed(own) /\ Referenced(blocks, txLoc, worker, own) /\ Recording(blocks, txLoc, own)
  BY <1>2 DEF SoundInv, ChainSound
<1>4. own.w = None /\ ~(own.version > 0)
  BY <1>2, <1>3 DEF Recording, Referenced
<1>5. ReferenceHolds(own)
  BY <1>4 DEF ReferenceHolds
<1>6. At(l).id = id /\ At(l).rdt = tx.rdt
  BY DEF At, TxAt
<1> HIDE DEF id, own, tx
<1>7. VerifyEMT(id)
  BY <1>2, <1>3, <1>5, EMTVerified DEF LedgerInv, own
<1>8. QED
  BY <1>1, <1>6, <1>7 DEF Genuine

LEMMA InitSound ==
  ASSUME Init
  PROVE  SoundInv
<1>1. /\ blocks = InitialBlocks /\ granted = {}
      /\ worker = [w \in Redactors |-> Idle] /\ auditor = [a \in Auditors |-> Resting]
  BY DEF Init
<1>2. ChainSound(blocks, txLoc, worker)
  BY <1>1, InitialChain DEF ChainSound, Unredacted, Referenced, Recording
<1>3. WorkersGenuine
  BY <1>1 DEF WorkersGenuine, Idle
<1>4. AuditorsSound
  <2>1. Audited(blocks, Resting)
    BY DEF Audited, Resting
  <2>2. QED
    BY <1>1, <2>1 DEF AuditorsSound
<1>5. QED
  BY <1>2, <1>3, <1>4 DEF SoundInv

(* A step that leaves the ledger alone and lets nobody prune or append. *)
LEMMA ChainAside ==
  ASSUME SoundInv, UNCHANGED <<blocks, txLoc>>,
         \A w \in Redactors :
            /\ worker'[w].pc = "append" <=> worker[w].pc = "append"
            /\ worker[w].pc = "append" => worker'[w].rdt = worker[w].rdt
  PROVE  ChainSound(blocks, txLoc, worker)'
<1>1. \A r : Pending(worker, r) => Pending(worker', r)
  BY DEF Pending
<1>2. QED
  BY <1>1 DEF SoundInv, ChainSound, Referenced

LEMMA AuthorizeSound ==
  ASSUME SoundInv, NEW r \in Requests, Authorize(r)
  PROVE  SoundInv'
<1>1. /\ UNCHANGED <<blocks, txLoc, worker, auditor>>
      /\ \A a \in granted' : a.request \in Requests /\ VerifySigma(a.evidence)
  BY DEF Authorize, SoundInv, WorkersGenuine, Sigmas, VerifySigma
<1>2. ChainSound(blocks, txLoc, worker)'
  BY <1>1, ChainAside
<1>3. WorkersGenuine' /\ AuditorsSound'
  BY <1>1 DEF SoundInv, WorkersGenuine, AuditorsSound
<1>4. QED
  BY <1>2, <1>3 DEF SoundInv

LEMMA StartRedactSound ==
  ASSUME LedgerInv, SoundInv, NEW w \in Redactors, NEW a \in granted, StartRedact(w, a)
  PROVE  SoundInv'
<1> DEFINE rdt == RedactionTx(a, Lookup(Target[a.request]).hw)
<1>1. /\ UNCHANGED <<blocks, txLoc, auditor>> /\ worker[w].pc = "idle" /\ granted' \subseteq granted
      /\ worker' = [worker EXCEPT ![w] = [pc |-> "apply", rdt |-> rdt]]
  BY DEF StartRedact
<1>2. Genuine(rdt)
  BY DEF Genuine, RedactionTx, SoundInv, WorkersGenuine
<1> HIDE DEF rdt
<1>3. /\ worker'[w] = [pc |-> "apply", rdt |-> rdt]
      /\ \A v \in Redactors : v # w => worker'[v] = worker[v]
  BY <1>1 DEF LedgerInv, WorkersTyped
<1>4. ChainSound(blocks, txLoc, worker)'
  BY <1>1, <1>3, ChainAside
<1>5. WorkersGenuine'
  BY <1>1, <1>2, <1>3 DEF SoundInv, WorkersGenuine
<1>6. AuditorsSound'
  BY <1>1 DEF SoundInv, AuditorsSound
<1>7. QED
  BY <1>4, <1>5, <1>6 DEF SoundInv

(* A pruned transaction refers to the redaction that is about to append. *)
LEMMA ApplySound ==
  ASSUME LedgerInv, SoundInv, NEW w \in Redactors, ApplyRedaction(w)
  PROVE  SoundInv'
<1> DEFINE t0 == worker[w].rdt.target
           r == worker[w].rdt.request
           l == txLoc[t0]
<1>1. /\ worker[w].pc = "apply" /\ blocks' = Apply(blocks, l, r)
      /\ worker' = [worker EXCEPT ![w].pc = "append"]
      /\ txLoc' = txLoc /\ granted' = granted /\ auditor' = auditor
  BY DEF ApplyRedaction
<1>2. /\ IsChain(blocks) /\ Found /\ Genuine(worker[w].rdt)
      /\ r \in Requests /\ Target[r] = t0 /\ t0 \in Dataset /\ r # None
  BY <1>1, RequestAssumption DEF LedgerInv, WorkersTyped, SoundInv, WorkersGenuine, Genuine
<1>3. l \in Locations(blocks) /\ TxAt(blocks, l).id = t0
  BY <1>2 DEF Found
<1>4. /\ Locations(blocks') = Locations(blocks)
      /\ TxAt(blocks', l) = Pruned(TxAt(blocks, l), r)
      /\ \A m \in Locations(blocks) : m # l => TxAt(blocks', m) = TxAt(blocks, m)
  BY <1>1, <1>2, <1>3, PrunedInPlace
<1>5. /\ IsTx(TxAt(blocks, l)) /\ Hashed(TxAt(blocks, l))
      /\ Recording(blocks, txLoc, TxAt(blocks, l))
  BY <1>2, <1>3, LocationFacts DEF SoundInv, ChainSound
<1>6. TxAt(blocks, l).kind # "redaction"
  BY <1>2, <1>3, <1>5, RequestAssumption DEF Recording, Genuine
<1>7. /\ TxAt(blocks', l).id = t0
      /\ TxAt(blocks', l).kind = TxAt(blocks, l).kind
      /\ TxAt(blocks', l).rdt = TxAt(blocks, l).rdt
      /\ TxAt(blocks', l).w = r /\ TxAt(blocks', l).version > 0
      /\ Hashed(TxAt(blocks', l))
  <2>1. PICK tx, new : tx = TxAt(blocks, l) /\ new = TxAt(blocks', l)
    OBVIOUS
  <2>2. DOMAIN tx = TxFields /\ tx.version \in Nat /\ tx.id = t0 /\ HashLeaf(tx.core) = tx.hc
    BY <1>3, <1>5, <2>1 DEF IsTx, Hashed
  <2>3. new = Pruned(tx, r)
    BY <1>4, <2>1
  <2>4. new.id = tx.id /\ new.kind = tx.kind /\ new.rdt = tx.rdt /\ new.core = tx.core /\ new.hc = tx.hc
    BY <2>2, <2>3 DEF Pruned, TxFields
  <2>5. new.w = r /\ new.hw = HashLeaf(r) /\ new.version = tx.version + 1
    BY <2>2, <2>3 DEF Pruned, TxFields
  <2>6. new.htx = HashTx(tx.hc, HashLeaf(r))
    BY <2>2, <2>3 DEF Pruned, TxFields
  <2>7. Hashed(new)
    BY <2>2, <2>4, <2>5, <2>6, Zenon DEF Hashed
  <2>8. new.version > 0
    BY <2>2, <2>5
  <2>9. QED
    BY <2>1, <2>2, <2>4, <2>5, <2>7, <2>8, Zenon
<1>8. /\ worker'[w].pc = "append" /\ worker'[w].rdt = worker[w].rdt
      /\ \A v \in Redactors : v # w => worker'[v] = worker[v]
  BY <1>1 DEF LedgerInv, WorkersTyped
<1>9. \A m \in Locations(blocks) :
        /\ TxAt(blocks', m).id = TxAt(blocks, m).id
        /\ TxAt(blocks', m).kind = TxAt(blocks, m).kind
        /\ TxAt(blocks', m).rdt = TxAt(blocks, m).rdt
  BY <1>3, <1>4, <1>7
<1>10. \A other : Resolved(blocks, txLoc, other) => Resolved(blocks', txLoc', other)
  BY <1>1, <1>4, <1>9 DEF Resolved
<1>11. (\A other : Pending(worker, other) => Pending(worker', other)) /\ Pending(worker', r)
  BY <1>8 DEF Pending
<1>12. ASSUME NEW m \in Locations(blocks)
       PROVE  /\ Hashed(TxAt(blocks', m))
              /\ Referenced(blocks', txLoc', worker', TxAt(blocks', m))
              /\ Recording(blocks', txLoc', TxAt(blocks', m))
  <2>1. CASE m = l
    <3>1. Referenced(blocks', txLoc', worker', TxAt(blocks', l))
      BY <1>2, <1>7, <1>11 DEF Referenced
    <3>2. Recording(blocks', txLoc', TxAt(blocks', l))
      BY <1>6, <1>7 DEF Recording
    <3>3. QED
      BY <2>1, <3>1, <3>2, <1>7
  <2>2. CASE m # l
    <3>1. TxAt(blocks', m) = TxAt(blocks, m)
      BY <2>2, <1>4
    <3>2. /\ Hashed(TxAt(blocks, m)) /\ Referenced(blocks, txLoc, worker, TxAt(blocks, m))
          /\ Recording(blocks, txLoc, TxAt(blocks, m))
      BY DEF SoundInv, ChainSound
    <3>3. QED
      BY <3>1, <3>2, <1>10, <1>11 DEF Referenced, Recording
  <2>3. QED
    BY <2>1, <2>2
<1>13. ChainSound(blocks, txLoc, worker)'
  BY <1>4, <1>12 DEF ChainSound
<1>14. WorkersGenuine'
  BY <1>1, <1>2, <1>8 DEF SoundInv, WorkersGenuine
<1>15. AuditorsSound'
  BY <1>1, <1>4, <1>9 DEF SoundInv, AuditorsSound, Audited
<1>16. QED
  BY <1>13, <1>14, <1>15 DEF SoundInv

(* The reference of every transaction it pruned now leads to the new block. *)
LEMMA AppendSound ==
  ASSUME LedgerInv, SoundInv, NEW w \in Redactors, AppendRedactionTx(w)
  PROVE  SoundInv'
<1> DEFINE rdt == worker[w].rdt
           id == rdt.request
           tx == Tx(id, "redaction", rdt, rdt)
           last == <<Len(blocks) + 1, 1>>
<1>1. /\ worker[w].pc = "append" /\ blocks' = Append(blocks, NewBlock(<<tx>>))
      /\ txLoc' = Located(txLoc, id, last)
      /\ worker' = [worker EXCEPT ![w] = Idle]
      /\ granted' = granted /\ auditor' = auditor
  BY DEF AppendRedactionTx
<1>2. IsChain(blocks) /\ Genuine(rdt)
  BY <1>1 DEF LedgerInv, SoundInv, WorkersGenuine
<1>3. /\ IsTx(tx) /\ Hashed(tx) /\ tx.kind = "redaction" /\ tx.rdt = rdt /\ tx.id = id
      /\ tx.w = None /\ ~(tx.version > 0)
  BY DEF IsTx, TxFields, Tx, Hashed
<1>4. /\ Locations(blocks') = Locations(blocks) \cup {last}
      /\ TxAt(blocks', last) = tx
      /\ \A m \in Locations(blocks) : TxAt(blocks', m) = TxAt(blocks, m)
  <2> HIDE DEF tx
  <2>1. QED
    BY <1>1, <1>2, <1>3, BlockAppended
<1>5. /\ worker'[w] = Idle
      /\ \A v \in Redactors : v # w => worker'[v] = worker[v]
  BY <1>1 DEF LedgerInv, WorkersTyped
<1>6. /\ id \in DOMAIN txLoc' /\ txLoc'[id] = last
      /\ \A other \in DOMAIN txLoc : other # id => other \in DOMAIN txLoc' /\ txLoc'[other] = txLoc[other]
  BY <1>1 DEF Located
<1> HIDE DEF last, tx
<1>7. Resolved(blocks', txLoc', id)
  BY <1>2, <1>3, <1>4, <1>6 DEF Resolved, Genuine
<1>8. \A other : Resolved(blocks, txLoc, other) => Resolved(blocks', txLoc', other)
  <2> SUFFICES ASSUME NEW other, Resolved(blocks, txLoc, other), other # id
               PROVE  Resolved(blocks', txLoc', other)
    BY <1>7
  <2>1. QED
    BY <1>4, <1>6 DEF Resolved
<1>9. \A other : Pending(worker, other) => Pending(worker', other) \/ Resolved(blocks', txLoc', other)
  BY <1>5, <1>7 DEF Pending
<1>10. ASSUME NEW m \in Locations(blocks')
       PROVE  /\ Hashed(TxAt(blocks', m))
              /\ Referenced(blocks', txLoc', worker', TxAt(blocks', m))
              /\ Recording(blocks', txLoc', TxAt(blocks', m))
  <2>1. CASE m = last
    BY <2>1, <1>2, <1>3, <1>4, <1>7 DEF Referenced, Recording
  <2>2. CASE m \in Locations(blocks)
    <3>1. /\ Hashed(TxAt(blocks, m)) /\ Referenced(blocks, txLoc, worker, TxAt(blocks, m))
          /\ Recording(blocks, txLoc, TxAt(blocks, m))
      BY <2>2 DEF SoundInv, ChainSound
    <3>2. TxAt(blocks', m) = TxAt(blocks, m)
      BY <2>2, <1>4
    <3>3. QED
      BY <3>1, <3>2, <1>8, <1>9 DEF Referenced, Recording
  <2>3. QED
    BY <2>1, <2>2, <1>4
<1>11. ChainSound(blocks, txLoc, worker)'
  BY <1>10 DEF ChainSound
<1>12. WorkersGenuine'
  BY <1>1, <1>5 DEF SoundInv, WorkersGenuine, Idle
<1>13. AuditorsSound'
  BY <1>1, <1>4 DEF SoundInv, AuditorsSound, Audited
<1>14. QED
  BY <1>11, <1>12, <1>13 DEF SoundInv

(* A step of an audit changes that audit alone. *)
LEMMA AuditStep ==
  ASSUME SoundInv, UNCHANGED <<blocks, txLoc, worker, granted>>, NEW a \in Auditors,
         NEW new, Audited(blocks, new), auditor' = [auditor EXCEPT ![a] = new]
  PROVE  SoundInv'
<1>1. ChainSound(blocks, txLoc, worker)' /\ WorkersGenuine'
  BY DEF SoundInv, ChainSound, WorkersGenuine
<1>2. AuditorsSound'
  BY DEF SoundInv, AuditorsSound
<1>3. QED
  BY <1>1, <1>2 DEF SoundInv

LEMMA StartAuditSound ==
  ASSUME SoundInv, NEW a \in Auditors, NEW t \in Dataset, StartAudit(a, t)
  PROVE  SoundInv'
<1> DEFINE new == [Resting EXCEPT !.pc = "target", !.target = t, !.found = Scan(t)]
<1>1. /\ UNCHANGED <<blocks, txLoc, worker, granted>>
      /\ auditor' = [auditor EXCEPT ![a] = new]
  BY DEF StartAudit
<1>2. Audited(blocks, new)
  BY DEF Audited, Resting, Scan, At, TxAt
<1> HIDE DEF new
<1>3. QED
  BY <1>1, <1>2, AuditStep

LEMMA VerifyTargetSound ==
  ASSUME LedgerInv, SoundInv, NEW a \in Auditors, VerifyTarget(a)
  PROVE  SoundInv'
<1> DEFINE t == auditor[a].target
           next == IF VerifyEMT(t) /\ auditor[a].found # {} THEN "records" ELSE "done"
           new == [auditor[a] EXCEPT !.verified = VerifyEMT(t), !.midway = Midway(t), !.pc = next]
<1>1. /\ UNCHANGED <<blocks, txLoc, worker, granted>> /\ auditor[a].pc = "target"
      /\ auditor = [b \in Auditors |-> auditor[b]] /\ Audited(blocks, auditor[a])
      /\ t \in Dataset
  <2>1. UNCHANGED <<blocks, txLoc, worker, granted>> /\ auditor[a].pc = "target"
    BY Zenon DEF VerifyTarget
  <2>2. auditor = [b \in Auditors |-> auditor[b]] /\ Audited(blocks, auditor[a])
    BY DEF SoundInv, AuditorsSound
  <2>3. QED
    BY <2>1, <2>2 DEF Audited
<1>2. auditor' = [auditor EXCEPT ![a] = new]
  <2>1. auditor' = [auditor EXCEPT ![a].verified = VerifyEMT(t), ![a].midway = Midway(t), ![a].pc = next]
    BY Zenon DEF VerifyTarget
  <2> HIDE DEF t, next
  <2>2. QED
    BY <1>1, <2>1
<1>3. VerifyEMT(t) \/ Midway(t)
  BY <1>1, TargetVerified
<1>4. /\ new.pc = next /\ new.found = auditor[a].found
      /\ new.verified = VerifyEMT(t) /\ new.midway = Midway(t)
      /\ DOMAIN new = {"pc", "target", "found", "verified", "midway"}
  BY <1>1 DEF Audited
<1> HIDE DEF new
<1>5. Audited(blocks, new)
  BY <1>1, <1>3, <1>4 DEF Audited
<1>6. QED
  BY <1>1, <1>2, <1>5, AuditStep

LEMMA VerifyRecordSound ==
  ASSUME LedgerInv, SoundInv, NEW a \in Auditors, VerifyRecord(a)
  PROVE  SoundInv'
<1> DEFINE l == CHOOSE m \in auditor[a].found : \A n \in auditor[a].found : m[1] <= n[1]
           good == VerifyEMT(At(l).id) /\ VerifySigma(At(l).rdt.evidence)
           rest == auditor[a].found \ {l}
           next == IF good /\ rest # {} THEN "records" ELSE "done"
           new == [auditor[a] EXCEPT !.verified = good, !.found = rest, !.pc = next]
<1>1. /\ UNCHANGED <<blocks, txLoc, worker, granted>> /\ auditor[a].pc = "records"
      /\ auditor = [b \in Auditors |-> auditor[b]] /\ Audited(blocks, auditor[a])
      /\ auditor[a].found # {}
      /\ \A m \in auditor[a].found : m \in Locations(blocks) /\ TxAt(blocks, m).kind = "redaction"
  <2>1. UNCHANGED <<blocks, txLoc, worker, granted>> /\ auditor[a].pc = "records"
    BY Zenon DEF VerifyRecord
  <2>2. auditor = [b \in Auditors |-> auditor[b]] /\ Audited(blocks, auditor[a])
    BY DEF SoundInv, AuditorsSound
  <2>3. QED
    BY <2>1, <2>2 DEF Audited
<1>2. auditor' = [auditor EXCEPT ![a] = new]
  <2>1. auditor' = [auditor EXCEPT ![a].verified = good, ![a].found = rest, ![a].pc = next]
    BY Zenon DEF VerifyRecord
  <2> HIDE DEF good, rest, next
  <2>2. QED
    BY <1>1, <2>1
<1>3. l \in auditor[a].found
  <2>1. \A m \in auditor[a].found : m[1] \in Nat
    BY <1>1, LocationFacts DEF LedgerInv
  <2>2. QED
    BY <1>1, <2>1, EarliestFound
<1>4. l \in Locations(blocks) /\ TxAt(blocks, l).kind = "redaction"
  BY <1>1, <1>3
<1> HIDE DEF l
<1>5. good
  BY <1>4, RecordVerified
<1>6. /\ new.pc = next /\ new.found = rest /\ new.verified = good
      /\ DOMAIN new = {"pc", "target", "found", "verified", "midway"}
  BY <1>1 DEF Audited
<1> HIDE DEF new, good
<1>7. Audited(blocks, new)
  BY <1>1, <1>5, <1>6 DEF Audited
<1>8. QED
  BY <1>1, <1>2, <1>7, AuditStep

LEMMA StepSound ==
  ASSUME LedgerInv, SoundInv, [Next]_vars
  PROVE  SoundInv'
<1>1. CASE \E r \in Requests : Authorize(r)
  BY <1>1, AuthorizeSound
<1>2. CASE \E w \in Redactors : ApplyRedaction(w)
  BY <1>2, ApplySound
<1>3. CASE \E w \in Redactors : AppendRedactionTx(w)
  BY <1>3, AppendSound
<1>4. CASE \E w \in Redactors, a \in granted : StartRedact(w, a)
  BY <1>4, StartRedactSound
<1>5. CASE \E a \in Auditors : VerifyTarget(a)
  BY <1>5, VerifyTargetSound
<1>6. CASE \E a \in Auditors : VerifyRecord(a)
  BY <1>6, VerifyRecordSound
<1>7. CASE \E a \in Auditors, t \in Dataset : StartAudit(a, t)
  BY <1>7, StartAuditSound
<1>8. CASE UNCHANGED vars
  BY <1>8 DEF vars, SoundInv, ChainSound, WorkersGenuine, AuditorsSound
<1>9. QED
  BY <1>1, <1>2, <1>3, <1>4, <1>5, <1>6, <1>7, <1>8 DEF Next

(* No audit rejects an honest ledger, whatever redactions run beside it and
   however often a request was redacted, except one that reads its target
   between a redaction's two locks (Redact; verifyEMT,
   verifyRedactionRecords). *)
THEOREM HonestAuditsPass == Spec => []AuditRejectsOnlyMidway
<1>1. Init => LedgerInv /\ HistoryComplete /\ SoundInv
  BY InitLedger, InitSound
<1>2. LedgerInv /\ HistoryComplete /\ SoundInv /\ [Next]_vars
        => (LedgerInv /\ HistoryComplete /\ SoundInv)'
  BY StepKeeps, StepSound
<1>3. SoundInv => AuditRejectsOnlyMidway
  BY DEF SoundInv, AuditorsSound, Audited, AuditRejectsOnlyMidway
<1>4. QED
  BY <1>1, <1>2, <1>3, PTL DEF Spec

--------------------------------
(* Types *)

TxTyped(tx) ==
  tx.kind \in {"genesis", "normal", "redaction"} /\ (tx.kind = "redaction" => tx.rdt \in Records)

(* An identifier leads to a transaction of its own, and what is granted,
   what is redacted and what is recorded are requests and their evidence. *)
LedgerTyped ==
  /\ \A l \in Locations(blocks) : TxTyped(TxAt(blocks, l))
  /\ \A id \in DOMAIN txLoc : txLoc[id] \in Locations(blocks) /\ TxAt(blocks, txLoc[id]).id = id
  /\ rounds \in [Requests -> Evidence]
  /\ \A a \in granted : a.version \in Nat /\ a.evidence \in Sigmas
  /\ \A w \in Redactors : /\ worker[w].pc \in {"idle", "apply", "append"}
                          /\ worker[w].pc # "idle" => worker[w].rdt \in Records
  /\ grants \in 0 .. MaxGrants /\ audits \in 0 .. MaxAudits

LEMMA InitTyped ==
  ASSUME Init
  PROVE  LedgerTyped
<1>1. /\ blocks = InitialBlocks
      /\ txLoc = [id \in Ids(InitialBlocks) |-> LocationOf(InitialBlocks, id)]
      /\ rounds = [r \in Requests |-> {}] /\ granted = {} /\ grants = 0 /\ audits = 0
      /\ worker = [w \in Redactors |-> Idle] /\ auditor = [a \in Auditors |-> Resting]
  BY DEF Init
<1>2. \A l \in Locations(blocks) : TxTyped(TxAt(blocks, l))
  BY <1>1, InitialChain DEF Unredacted, TxTyped
<1>3. ASSUME NEW id \in DOMAIN txLoc
      PROVE  txLoc[id] \in Locations(blocks) /\ TxAt(blocks, txLoc[id]).id = id
  <2>1. \E l \in Locations(InitialBlocks) : TxAt(InitialBlocks, l).id = id
    BY <1>1 DEF Ids, TxAt
  <2>2. txLoc[id] = LocationOf(InitialBlocks, id)
    BY <1>1
  <2>3. QED
    BY <1>1, <2>1, <2>2, InitialChain, LocationOfFound
<1>4. rounds \in [Requests -> Evidence]
  BY <1>1 DEF Evidence
<1>5. \A w \in Redactors : worker[w].pc = "idle"
  BY <1>1 DEF Idle
<1>6. QED
  BY <1>1, <1>2, <1>3, <1>4, <1>5, BoundAssumption DEF LedgerTyped

LEMMA AuthorizeTyped ==
  ASSUME LedgerInv, LedgerTyped, NEW r \in Requests, Authorize(r)
  PROVE  LedgerTyped'
<1>1. PICK sigma \in Sigmas :
        /\ rounds' = [rounds EXCEPT ![r] = sigma]
        /\ granted' = granted \cup
             {[request |-> r, version |-> Lookup(Target[r]).version, evidence |-> sigma]}
  BY DEF Authorize
<1>2. /\ grants < MaxGrants /\ grants' = grants + 1
      /\ UNCHANGED <<blocks, txLoc, audits, worker, auditor>>
  BY DEF Authorize
<1>3. Lookup(Target[r]).version \in Nat
  <2>1. Target[r] \in Dataset
    BY RequestAssumption
  <2>2. txLoc[Target[r]] \in Locations(blocks) /\ IsChain(blocks)
    BY <2>1 DEF LedgerInv, Found
  <2>3. QED
    BY <2>2, LocationFacts DEF Lookup, At, TxAt, IsTx
<1>4. rounds' \in [Requests -> Evidence]
  <2>1. sigma \in Evidence
    BY DEF Sigmas, Evidence
  <2>2. QED
    BY <1>1, <2>1 DEF LedgerTyped
<1>5. \A a \in granted' : a.version \in Nat /\ a.evidence \in Sigmas
  BY <1>1, <1>3 DEF LedgerTyped
<1>6. grants' \in 0 .. MaxGrants
  BY <1>2, BoundAssumption DEF LedgerTyped
<1>7. QED
  BY <1>2, <1>4, <1>5, <1>6 DEF LedgerTyped

(* What was found at the target is the hash of a reference. *)
LEMMA StartRedactTyped ==
  ASSUME LedgerInv, SoundInv, LedgerTyped, NEW w \in Redactors, NEW a \in granted, StartRedact(w, a)
  PROVE  LedgerTyped'
<1> DEFINE old == Lookup(Target[a.request]).hw
           rdt == RedactionTx(a, old)
<1>1. /\ granted' \subseteq granted
      /\ worker' = [worker EXCEPT ![w] = [pc |-> "apply", rdt |-> rdt]]
      /\ UNCHANGED <<blocks, txLoc, rounds, grants, audits, auditor>>
  BY DEF StartRedact
<1>2. /\ a.request \in Requests /\ Target[a.request] \in Dataset
      /\ a.version \in Nat /\ a.evidence \in Evidence
  BY RequestAssumption DEF LedgerInv, LedgerTyped, Sigmas, Evidence
<1>3. old \in {HashLeaf(x) : x \in Requests \cup {None}}
  <2>1. PICK l \in Locations(blocks) : l = txLoc[Target[a.request]]
    BY <1>2 DEF LedgerInv, Found
  <2>2. PICK tx : tx = TxAt(blocks, l)
    OBVIOUS
  <2>3. HashLeaf(tx.w) = tx.hw /\ tx.w \in Requests \cup {None}
    BY <2>2 DEF SoundInv, ChainSound, Hashed, Referenced
  <2>4. old = tx.hw
    BY <2>1, <2>2 DEF Lookup, At, TxAt
  <2>5. QED
    BY <2>3, <2>4
<1> HIDE DEF old
<1>4. rdt \in Records
  <2>1. a.version + 1 \in Nat
    BY <1>2
  <2>2. QED
    BY <1>2, <1>3, <2>1 DEF RedactionTx, Records
<1> HIDE DEF rdt
<1>5. /\ worker'[w] = [pc |-> "apply", rdt |-> rdt]
      /\ \A v \in Redactors : v # w => worker'[v] = worker[v]
  BY <1>1 DEF LedgerInv, WorkersTyped
<1>6. \A v \in Redactors : /\ worker'[v].pc \in {"idle", "apply", "append"}
                           /\ worker'[v].pc # "idle" => worker'[v].rdt \in Records
  BY <1>4, <1>5 DEF LedgerTyped
<1>7. QED
  BY <1>1, <1>6 DEF LedgerTyped

LEMMA ApplyTyped ==
  ASSUME LedgerInv, LedgerTyped, NEW w \in Redactors, ApplyRedaction(w)
  PROVE  LedgerTyped'
<1> DEFINE r == worker[w].rdt.request
           l == txLoc[worker[w].rdt.target]
<1>1. /\ worker[w].pc = "apply" /\ blocks' = Apply(blocks, l, r)
      /\ worker' = [worker EXCEPT ![w].pc = "append"]
      /\ UNCHANGED <<txLoc, rounds, granted, grants, audits, auditor>>
  BY DEF ApplyRedaction
<1>2. IsChain(blocks) /\ l \in Locations(blocks)
  BY <1>1 DEF LedgerInv, WorkersTyped, Found
<1>3. /\ Locations(blocks') = Locations(blocks)
      /\ TxAt(blocks', l) = Pruned(TxAt(blocks, l), r)
      /\ \A m \in Locations(blocks) : m # l => TxAt(blocks', m) = TxAt(blocks, m)
  BY <1>1, <1>2, PrunedInPlace
<1>4. IsTx(TxAt(blocks, l))
  BY <1>2, LocationFacts
<1>5. /\ TxAt(blocks', l).id = TxAt(blocks, l).id
      /\ TxAt(blocks', l).kind = TxAt(blocks, l).kind
      /\ TxAt(blocks', l).rdt = TxAt(blocks, l).rdt
  BY <1>3, <1>4 DEF Pruned, IsTx, TxFields
<1> HIDE DEF l
<1>6. \A m \in Locations(blocks) :
        TxTyped(TxAt(blocks', m)) /\ TxAt(blocks', m).id = TxAt(blocks, m).id
  BY <1>3, <1>5 DEF LedgerTyped, TxTyped
<1>7. \A v \in Redactors :
        /\ worker'[v].rdt = worker[v].rdt
        /\ \/ worker'[v].pc = worker[v].pc
           \/ worker'[v].pc = "append" /\ worker[v].pc = "apply"
  BY <1>1 DEF LedgerInv, WorkersTyped
<1>8. \A v \in Redactors : /\ worker'[v].pc \in {"idle", "apply", "append"}
                           /\ worker'[v].pc # "idle" => worker'[v].rdt \in Records
  BY <1>7 DEF LedgerTyped
<1>9. QED
  BY <1>1, <1>3, <1>6, <1>8 DEF LedgerTyped

LEMMA AppendTyped ==
  ASSUME LedgerInv, LedgerTyped, NEW w \in Redactors, AppendRedactionTx(w)
  PROVE  LedgerTyped'
<1> DEFINE rdt == worker[w].rdt
           id == rdt.request
           tx == Tx(id, "redaction", rdt, rdt)
           last == <<Len(blocks) + 1, 1>>
           new == Append(blocks, NewBlock(<<tx>>))
<1>1. /\ worker[w].pc = "append" /\ blocks' = new /\ txLoc' = Located(txLoc, id, last)
      /\ worker' = [worker EXCEPT ![w] = Idle]
      /\ UNCHANGED <<rounds, granted, grants, audits, auditor>>
  BY DEF AppendRedactionTx
<1>2. IsTx(tx) /\ tx.kind = "redaction" /\ tx.rdt = rdt /\ tx.id = id
  BY DEF IsTx, TxFields, Tx
<1>3. rdt \in Records
  BY <1>1 DEF LedgerTyped
<1> HIDE DEF tx, rdt
<1>4. /\ Locations(new) = Locations(blocks) \cup {last} /\ TxAt(new, last) = tx
      /\ \A m \in Locations(blocks) : TxAt(new, m) = TxAt(blocks, m)
  <2>1. IsChain(blocks)
    BY DEF LedgerInv
  <2>2. QED
    BY <1>2, <2>1, BlockAppended, Zenon
<1> HIDE DEF new, last
<1>5. \A m \in Locations(blocks') : TxTyped(TxAt(blocks', m))
  BY <1>1, <1>2, <1>3, <1>4 DEF LedgerTyped, TxTyped
<1>6. \A k \in DOMAIN txLoc' : txLoc'[k] \in Locations(blocks') /\ TxAt(blocks', txLoc'[k]).id = k
  <2>1. /\ DOMAIN txLoc' = DOMAIN txLoc \cup {id}
        /\ \A k \in DOMAIN txLoc' : txLoc'[k] = IF k = id THEN last ELSE txLoc[k]
    BY <1>1 DEF Located
  <2>2. QED
    BY <1>1, <1>2, <1>4, <2>1 DEF LedgerTyped
<1>7. /\ worker'[w].pc = "idle"
      /\ \A v \in Redactors : v # w => worker'[v] = worker[v]
  BY <1>1 DEF LedgerInv, WorkersTyped, Idle
<1>8. \A v \in Redactors : /\ worker'[v].pc \in {"idle", "apply", "append"}
                           /\ worker'[v].pc # "idle" => worker'[v].rdt \in Records
  BY <1>7 DEF LedgerTyped
<1>9. QED
  BY <1>1, <1>5, <1>6, <1>8 DEF LedgerTyped

LEMMA StepTyped ==
  ASSUME LedgerInv, SoundInv, LedgerTyped, [Next]_vars
  PROVE  LedgerTyped'
<1>1. CASE \E r \in Requests : Authorize(r)
  BY <1>1, AuthorizeTyped
<1>2. CASE \E w \in Redactors : ApplyRedaction(w)
  BY <1>2, ApplyTyped
<1>3. CASE \E w \in Redactors : AppendRedactionTx(w)
  BY <1>3, AppendTyped
<1>4. CASE \E w \in Redactors, a \in granted : StartRedact(w, a)
  BY <1>4, StartRedactTyped
<1>5. CASE \E a \in Auditors : VerifyTarget(a) \/ VerifyRecord(a)
  BY <1>5, Zenon DEF VerifyTarget, VerifyRecord, LedgerTyped
<1>6. CASE \E a \in Auditors, t \in Dataset : StartAudit(a, t)
  <2>1. /\ UNCHANGED <<blocks, txLoc, rounds, granted, grants, worker>>
        /\ audits' = audits + 1 /\ audits < MaxAudits
    BY <1>6 DEF StartAudit
  <2>2. audits' \in 0 .. MaxAudits
    BY <2>1, BoundAssumption DEF LedgerTyped
  <2>3. QED
    BY <2>1, <2>2 DEF LedgerTyped
<1>7. CASE UNCHANGED vars
  BY <1>7 DEF vars, LedgerTyped
<1>8. QED
  BY <1>1, <1>2, <1>3, <1>4, <1>5, <1>6, <1>7 DEF Next

LEMMA LedgerTypeOK ==
  ASSUME LedgerInv, SoundInv, LedgerTyped
  PROVE  TypeOK
<1>1. ASSUME NEW l \in Locations(blocks)
      PROVE  At(l).w \in Requests \cup {None} /\ At(l) = TxAt(blocks, l)
  <2>1. At(l) = TxAt(blocks, l)
    BY DEF At, TxAt
  <2>2. QED
    BY <2>1 DEF SoundInv, ChainSound, Referenced
<1>2. \A id \in DOMAIN txLoc : Lookup(id) = TxAt(blocks, txLoc[id])
  BY DEF Lookup, At, TxAt
<1>3. \A a \in Auditors : auditor[a].pc \in {"idle", "target", "records", "done"}
  BY DEF SoundInv, AuditorsSound, Audited
<1>4. QED
  BY <1>1, <1>2, <1>3 DEF LedgerInv, LedgerTyped, TxTyped, TypeOK

--------------------------------
(* Sequences of sequences *)

OneEach(s) == \A p, o \in 1 .. Len(s) : s[p] = s[o] => p = o

IsTable(rows) == IsSequence(rows) /\ \A i \in 1 .. Len(rows) : IsSequence(rows[i])

(* s holds what the first m rows hold, and nothing else. *)
Gathers(s, rows, m) ==
  /\ IsSequence(s)
  /\ \A p \in 1 .. Len(s) : \E i \in 1 .. m : \E j \in 1 .. Len(rows[i]) : s[p] = rows[i][j]
  /\ \A i \in 1 .. m : \A j \in 1 .. Len(rows[i]) : \E p \in 1 .. Len(s) : s[p] = rows[i][j]

(* No two rows, and no two places of one, hold the same. *)
Apart(rows) ==
  \A i, k \in 1 .. Len(rows) :
    \A j \in 1 .. Len(rows[i]), l \in 1 .. Len(rows[k]) :
        rows[i][j] = rows[k][l] => i = k /\ j = l

LEMMA JointFacts ==
  ASSUME NEW s, IsSequence(s), NEW t, IsSequence(t)
  PROVE  /\ IsSequence(s \o t) /\ Len(s \o t) = Len(s) + Len(t)
         /\ \A p \in 1 .. Len(s) : (s \o t)[p] = s[p]
         /\ \A p \in 1 .. Len(t) : (s \o t)[Len(s) + p] = t[p]
         /\ \A p \in 1 .. Len(s \o t) :
                p \in 1 .. Len(s) \/ \E o \in 1 .. Len(t) : p = Len(s) + o
<1>1. PICK S, T : s \in Seq(S) /\ t \in Seq(T)
  BY DEF IsSequence
<1>2. s \in Seq(S \cup T) /\ t \in Seq(S \cup T)
  BY <1>1, SeqMonotonic
<1>3. PICK n \in Nat, m \in Nat : n = Len(s) /\ m = Len(t)
  BY SequenceFacts
<1>4. s \o t \in Seq(S \cup T) /\ Len(s \o t) = n + m
  BY <1>2, <1>3
<1>5. \A p \in 1 .. n : (s \o t)[p] = s[p]
  BY <1>2, <1>3
<1>6. \A p \in 1 .. m : (s \o t)[n + p] = t[p]
  BY <1>2, <1>3
<1>7. ASSUME NEW p \in 1 .. n + m, p \notin 1 .. n
      PROVE  \E o \in 1 .. m : p = n + o
  <2>1. p - n \in 1 .. m /\ p = n + (p - n)
    BY <1>7
  <2>2. QED
    BY <2>1
<1>8. QED
  BY <1>3, <1>4, <1>5, <1>6, <1>7 DEF IsSequence

(* The function that FlattenSeq chooses. *)
Flattened(rows, n) ==
  CHOOSE f : f = [i \in 1 .. n |-> IF i = 1 THEN rows[i] ELSE f[i - 1] \o rows[i]]

Joint(a, b) == a \o b

LEMMA FlattenedDefined ==
  ASSUME NEW rows, NEW n \in Nat
  PROVE  Flattened(rows, n)
           = [i \in 1 .. n |-> IF i = 1 THEN rows[i] ELSE Flattened(rows, n)[i - 1] \o rows[i]]
<1> DEFINE P == {m \in Nat : \E f :
                    f = [i \in 1 .. m |-> IF i = 1 THEN rows[i] ELSE Joint(f[i - 1], rows[i])]}
<1>1. 0 \in P
  <2>1. PICK f : f = [i \in 1 .. 0 |-> rows[i]]
    OBVIOUS
  <2>2. f = [i \in 1 .. 0 |-> IF i = 1 THEN rows[i] ELSE Joint(f[i - 1], rows[i])]
    BY <2>1
  <2>3. QED
    BY <2>2, Zenon
<1>2. ASSUME NEW m \in Nat, m \in P
      PROVE  m + 1 \in P
  <2>1. PICK f : f = [i \in 1 .. m |-> IF i = 1 THEN rows[i] ELSE Joint(f[i - 1], rows[i])]
    BY <1>2, Zenon
  <2>2. PICK g : g = [i \in 1 .. m + 1 |->
                        IF i = 1 THEN rows[i]
                        ELSE IF i <= m THEN f[i] ELSE Joint(f[m], rows[m + 1])]
    OBVIOUS
  <2>3. ASSUME NEW i \in 1 .. m + 1
        PROVE  g[i] = IF i = 1 THEN rows[i] ELSE Joint(g[i - 1], rows[i])
    <3>1. CASE i = 1
      BY <3>1, <2>2
    <3>2. CASE i # 1
      <4>1. i - 1 \in 1 .. m /\ i - 1 \in 1 .. m + 1 /\ (i <= m \/ (i - 1 = m /\ i = m + 1))
        BY <3>2
      <4>2. g[i - 1] = f[i - 1]
        <5>1. CASE i - 1 = 1
          BY <5>1, <4>1, <2>1, <2>2
        <5>2. CASE i - 1 # 1
          BY <5>2, <4>1, <2>2
        <5>3. QED
          BY <5>1, <5>2
      <4>3. CASE i <= m
        <5>1. g[i] = f[i] /\ i \in 1 .. m
          BY <4>3, <3>2, <2>2
        <5>2. f[i] = Joint(f[i - 1], rows[i])
          BY <5>1, <3>2, <2>1
        <5>3. QED
          BY <5>1, <5>2, <4>2, <3>2
      <4>4. CASE ~(i <= m)
        BY <4>1, <4>2, <4>4, <3>2, <2>2
      <4>5. QED
        BY <4>3, <4>4
    <3>3. QED
      BY <3>1, <3>2
  <2>4. g = [i \in 1 .. m + 1 |-> IF i = 1 THEN rows[i] ELSE Joint(g[i - 1], rows[i])]
    BY <2>2, <2>3
  <2>5. m + 1 \in Nat
    OBVIOUS
  <2>6. QED
    BY <2>4, <2>5, Zenon
<1>3. n \in P
  <2> HIDE DEF P
  <2>1. QED
    BY <1>1, <1>2, SetInduction
<1>4. \E f : f = [i \in 1 .. n |-> IF i = 1 THEN rows[i] ELSE Joint(f[i - 1], rows[i])]
  BY <1>3, Zenon
<1>5. \E f : f = [i \in 1 .. n |-> IF i = 1 THEN rows[i] ELSE f[i - 1] \o rows[i]]
  BY <1>4, Zenon DEF Joint
<1>6. QED
  BY <1>5, Zenon DEF Flattened

LEMMA GathersMore ==
  ASSUME NEW rows, NEW m \in Nat, NEW s, Gathers(s, rows, m), IsSequence(rows[m + 1])
  PROVE  Gathers(s \o rows[m + 1], rows, m + 1)
<1> DEFINE row == rows[m + 1]
           all == s \o row
<1>1. IsSequence(s) /\ IsSequence(row)
  BY DEF Gathers
<1> HIDE DEF row
<1>2. /\ IsSequence(all) /\ Len(all) = Len(s) + Len(row)
      /\ \A p \in 1 .. Len(s) : all[p] = s[p]
      /\ \A p \in 1 .. Len(row) : all[Len(s) + p] = row[p]
      /\ \A p \in 1 .. Len(all) :
            p \in 1 .. Len(s) \/ \E o \in 1 .. Len(row) : p = Len(s) + o
  BY <1>1, JointFacts
<1>3. PICK n \in Nat, l \in Nat : n = Len(s) /\ l = Len(row)
  BY <1>1, SequenceFacts
<1> HIDE DEF all
<1>4. /\ \A p \in 1 .. n : p \in 1 .. n + l
      /\ \A p \in 1 .. l : n + p \in 1 .. n + l
      /\ m + 1 \in 1 .. m + 1 /\ \A i \in 1 .. m : i \in 1 .. m + 1
      /\ \A i \in 1 .. m + 1 : i \in 1 .. m \/ i = m + 1
  OBVIOUS
<1>5. ASSUME NEW p \in 1 .. Len(all)
      PROVE  \E i \in 1 .. m + 1 : \E j \in 1 .. Len(rows[i]) : all[p] = rows[i][j]
  <2>1. CASE p \in 1 .. Len(s)
    <3>1. PICK i \in 1 .. m : \E j \in 1 .. Len(rows[i]) : s[p] = rows[i][j]
      BY <2>1 DEF Gathers
    <3>2. QED
      BY <3>1, <2>1, <1>2, <1>4
  <2>2. CASE \E o \in 1 .. Len(row) : p = Len(s) + o
    BY <2>2, <1>2, <1>4 DEF row
  <2>3. QED
    BY <2>1, <2>2, <1>2
<1>6. ASSUME NEW i \in 1 .. m + 1, NEW j \in 1 .. Len(rows[i])
      PROVE  \E p \in 1 .. Len(all) : all[p] = rows[i][j]
  <2>1. CASE i \in 1 .. m
    <3>1. PICK p \in 1 .. Len(s) : s[p] = rows[i][j]
      BY <2>1 DEF Gathers
    <3>2. p \in 1 .. Len(all) /\ all[p] = rows[i][j]
      BY <3>1, <1>2, <1>3, <1>4
    <3>3. QED
      BY <3>2
  <2>2. CASE i = m + 1
    <3>1. j \in 1 .. Len(row) /\ row[j] = rows[i][j]
      BY <2>2 DEF row
    <3>2. Len(s) + j \in 1 .. Len(all) /\ all[Len(s) + j] = rows[i][j]
      BY <3>1, <1>2, <1>3, <1>4
    <3>3. QED
      BY <3>2
  <2>3. QED
    BY <2>1, <2>2, <1>4
<1>7. QED
  BY <1>2, <1>5, <1>6 DEF Gathers, all, row

LEMMA OneEachMore ==
  ASSUME NEW rows, NEW m \in Nat, m + 1 \in 1 .. Len(rows), Apart(rows), NEW s, OneEach(s),
         Gathers(s, rows, m), IsSequence(rows[m + 1]), Len(rows) \in Nat
  PROVE  OneEach(s \o rows[m + 1])
<1> DEFINE row == rows[m + 1]
           all == s \o row
<1>1. IsSequence(s) /\ IsSequence(row)
  BY DEF Gathers
<1>2. \A j, l \in 1 .. Len(row) : row[j] = row[l] => j = l
  BY DEF Apart
<1>3. \A p \in 1 .. Len(s), l \in 1 .. Len(row) : s[p] # row[l]
  <2> SUFFICES ASSUME NEW p \in 1 .. Len(s), NEW l \in 1 .. Len(row), s[p] = row[l]
               PROVE  FALSE
    OBVIOUS
  <2>1. PICK i \in 1 .. m : \E j \in 1 .. Len(rows[i]) : s[p] = rows[i][j]
    BY DEF Gathers
  <2>2. i \in 1 .. Len(rows) /\ i # m + 1
    OBVIOUS
  <2>3. QED
    BY <2>1, <2>2 DEF Apart
<1> HIDE DEF row
<1>4. /\ \A p \in 1 .. Len(s) : all[p] = s[p]
      /\ \A p \in 1 .. Len(row) : all[Len(s) + p] = row[p]
      /\ \A p \in 1 .. Len(all) :
            p \in 1 .. Len(s) \/ \E o \in 1 .. Len(row) : p = Len(s) + o
  BY <1>1, JointFacts
<1> HIDE DEF all
<1>5. SUFFICES ASSUME NEW p \in 1 .. Len(all), NEW o \in 1 .. Len(all), all[p] = all[o]
               PROVE  p = o
  BY DEF OneEach, all, row
<1>6. CASE p \in 1 .. Len(s) /\ o \in 1 .. Len(s)
  BY <1>4, <1>5, <1>6 DEF OneEach
<1>7. CASE p \in 1 .. Len(s) /\ \E l \in 1 .. Len(row) : o = Len(s) + l
  BY <1>3, <1>4, <1>5, <1>7
<1>8. CASE o \in 1 .. Len(s) /\ \E l \in 1 .. Len(row) : p = Len(s) + l
  BY <1>3, <1>4, <1>5, <1>8
<1>9. CASE /\ \E l \in 1 .. Len(row) : o = Len(s) + l
           /\ \E l \in 1 .. Len(row) : p = Len(s) + l
  <2>1. PICK j \in 1 .. Len(row), l \in 1 .. Len(row) : p = Len(s) + j /\ o = Len(s) + l
    BY <1>9
  <2>2. row[j] = row[l]
    BY <1>4, <1>5, <2>1
  <2>3. QED
    BY <1>2, <2>1, <2>2
<1>10. QED
  BY <1>4, <1>6, <1>7, <1>8, <1>9

(* FlattenSeq holds what the rows hold, and each of it once when they do. *)
LEMMA FlattenFacts ==
  ASSUME NEW rows, IsTable(rows)
  PROVE  /\ Gathers(FlattenSeq(rows), rows, Len(rows))
         /\ Apart(rows) => OneEach(FlattenSeq(rows))
<1>1. PICK n \in Nat : n = Len(rows)
  BY SequenceFacts DEF IsTable
<1>2. CASE n = 0
  <2>1. FlattenSeq(rows) = rows /\ Len(rows) = 0
    BY <1>1, <1>2 DEF FlattenSeq
  <2>2. QED
    BY <2>1 DEF Gathers, OneEach, IsTable
<1>3. CASE n # 0
  <2> DEFINE f == Flattened(rows, n)
  <2>1. FlattenSeq(rows) = f[n]
    BY <1>1, <1>3 DEF FlattenSeq, Flattened
  <2>2. \A i \in 1 .. n : f[i] = IF i = 1 THEN rows[i] ELSE f[i - 1] \o rows[i]
    <3>1. f = [i \in 1 .. n |-> IF i = 1 THEN rows[i] ELSE f[i - 1] \o rows[i]]
      BY FlattenedDefined
    <3> HIDE DEF f
    <3>2. QED
      BY <3>1, Zenon
  <2> HIDE DEF f
  <2> DEFINE P == {m \in Nat : m + 1 \in 1 .. n =>
                      /\ Gathers(f[m + 1], rows, m + 1)
                      /\ Apart(rows) => OneEach(f[m + 1])}
  <2>3. 0 \in P
    <3>1. 1 \in 1 .. n /\ 0 + 1 = 1
      BY <1>3
    <3>2. f[1] = rows[1] /\ IsSequence(rows[1])
      BY <1>1, <2>2, <3>1 DEF IsTable
    <3>3. Gathers(rows[1], rows, 1)
      BY <3>2 DEF Gathers
    <3>4. Apart(rows) => OneEach(rows[1])
      BY <1>1, <3>1 DEF Apart, OneEach
    <3>5. QED
      BY <3>1, <3>2, <3>3, <3>4
  <2>4. ASSUME NEW m \in Nat, m \in P
        PROVE  m + 1 \in P
    <3> SUFFICES ASSUME (m + 1) + 1 \in 1 .. n
                 PROVE  /\ Gathers(f[(m + 1) + 1], rows, (m + 1) + 1)
                        /\ Apart(rows) => OneEach(f[(m + 1) + 1])
      OBVIOUS
    <3>1. PICK k \in Nat : k = m + 1
      OBVIOUS
    <3>2. k \in 1 .. n /\ k + 1 \in 1 .. n /\ k + 1 # 1 /\ (k + 1) - 1 = k
      BY <3>1
    <3>3. Gathers(f[k], rows, k) /\ (Apart(rows) => OneEach(f[k]))
      BY <2>4, <3>1, <3>2
    <3>4. f[k + 1] = f[k] \o rows[k + 1] /\ IsSequence(rows[k + 1])
      BY <1>1, <2>2, <3>2 DEF IsTable
    <3>5. QED
      BY <1>1, <3>1, <3>2, <3>3, <3>4, GathersMore, OneEachMore
  <2>5. n - 1 \in P
    <3> HIDE DEF P
    <3>1. n - 1 \in Nat
      BY <1>3
    <3>2. QED
      BY <2>3, <2>4, <3>1, SetInduction
  <2>6. (n - 1) + 1 = n /\ n \in 1 .. n
    BY <1>3
  <2>7. QED
    BY <1>1, <2>1, <2>5, <2>6
<1>4. QED
  BY <1>2, <1>3

(* s lists S: it holds each member once, and nothing else. *)
Lists(s, S) ==
  /\ IsSequence(s) /\ OneEach(s)
  /\ \A p \in 1 .. Len(s) : s[p] \in S
  /\ \A x \in S : \E p \in 1 .. Len(s) : s[p] = x

LEMMA FlattenLists ==
  ASSUME NEW rows, IsSequence(rows), NEW kinds,
         \A i \in 1 .. Len(rows) : Lists(rows[i], kinds[i]),
         \A i, k \in 1 .. Len(rows) : i # k => kinds[i] \cap kinds[k] = {}
  PROVE  Lists(FlattenSeq(rows), UNION {kinds[i] : i \in 1 .. Len(rows)})
<1> DEFINE all == FlattenSeq(rows)
           kind == UNION {kinds[i] : i \in 1 .. Len(rows)}
<1>1. IsTable(rows)
  BY DEF IsTable, Lists
<1>2. Apart(rows)
  <2> SUFFICES ASSUME NEW i \in 1 .. Len(rows), NEW k \in 1 .. Len(rows),
                      NEW j \in 1 .. Len(rows[i]), NEW l \in 1 .. Len(rows[k]),
                      rows[i][j] = rows[k][l]
               PROVE  i = k /\ j = l
    BY DEF Apart
  <2>1. rows[i][j] \in kinds[i] /\ rows[k][l] \in kinds[k]
    BY DEF Lists
  <2>2. i = k
    BY <2>1
  <2>3. OneEach(rows[i])
    BY DEF Lists
  <2>4. QED
    BY <2>2, <2>3 DEF OneEach
<1>3. Gathers(all, rows, Len(rows)) /\ OneEach(all)
  BY <1>1, <1>2, FlattenFacts
<1> HIDE DEF all
<1>4. ASSUME NEW p \in 1 .. Len(all)
      PROVE  all[p] \in kind
  <2>1. PICK i \in 1 .. Len(rows) : \E j \in 1 .. Len(rows[i]) : all[p] = rows[i][j]
    BY <1>3 DEF Gathers
  <2>2. all[p] \in kinds[i]
    BY <2>1 DEF Lists
  <2>3. QED
    BY <2>2
<1>5. ASSUME NEW x \in kind
      PROVE  \E p \in 1 .. Len(all) : all[p] = x
  <2>1. PICK i \in 1 .. Len(rows) : x \in kinds[i]
    OBVIOUS
  <2>2. PICK j \in 1 .. Len(rows[i]) : rows[i][j] = x
    BY <2>1 DEF Lists
  <2>3. QED
    BY <1>3, <2>2 DEF Gathers
<1> HIDE DEF kind
<1>6. QED
  BY <1>3, <1>4, <1>5 DEF Lists, Gathers, all, kind

(* A list mapped by an injection. *)
LEMMA ListsOf ==
  ASSUME NEW v, NEW V, Lists(v, V), NEW f, \A x, y \in V : f[x] = f[y] => x = y
  PROVE  Lists([n \in DOMAIN v |-> f[v[n]]], {f[x] : x \in V})
<1> DEFINE s == [n \in DOMAIN v |-> f[v[n]]]
<1>1. PICK n \in Nat : Len(v) = n /\ DOMAIN v = 1 .. n
  BY SequenceFacts DEF Lists
<1>2. s \in [1 .. n -> {f[x] : x \in V}] /\ \A i \in 1 .. n : s[i] = f[v[i]]
  BY <1>1 DEF Lists
<1> HIDE DEF s
<1>3. IsSequence(s) /\ Len(s) = n
  BY <1>2, FunctionIsSequence
<1>4. OneEach(s)
  <2>1. \A i \in 1 .. n : v[i] \in V
    BY <1>1 DEF Lists
  <2>2. \A i, k \in 1 .. n : v[i] = v[k] => i = k
    BY <1>1 DEF Lists, OneEach
  <2>3. \A i, k \in 1 .. n : s[i] = s[k] => i = k
    BY <1>2, <2>1, <2>2
  <2>4. QED
    BY <1>3, <2>3 DEF OneEach
<1>5. \A i \in 1 .. Len(s) : s[i] \in {f[x] : x \in V}
  BY <1>2, <1>3
<1>6. ASSUME NEW w \in {f[x] : x \in V}
      PROVE  \E p \in 1 .. Len(s) : s[p] = w
  <2>1. PICK x \in V : w = f[x]
    OBVIOUS
  <2>2. PICK p \in 1 .. n : v[p] = x
    BY <1>1 DEF Lists
  <2>3. QED
    BY <1>2, <1>3, <2>1, <2>2
<1>7. Lists(s, {f[x] : x \in V})
  BY <1>3, <1>4, <1>5, <1>6, Zenon DEF Lists
<1>8. QED
  BY <1>7 DEF s

LEMMA ListsItself ==
  ASSUME NEW v, IsSequence(v), IsInjective(v)
  PROVE  Lists(v, ToSet(v))
<1>1. DOMAIN v = 1 .. Len(v)
  BY SequenceFacts
<1>2. QED
  BY <1>1 DEF Lists, OneEach, IsInjective, ToSet

LEMMA ListedSet ==
  ASSUME NEW s, NEW S, Lists(s, S)
  PROVE  ToSet(s) = S /\ Len(s) \in Nat /\ DOMAIN s = 1 .. Len(s)
<1>1. Len(s) \in Nat /\ DOMAIN s = 1 .. Len(s)
  BY SequenceFacts DEF Lists
<1>2. ToSet(s) = {s[i] : i \in 1 .. Len(s)}
  BY <1>1 DEF ToSet
<1>3. QED
  BY <1>1, <1>2 DEF Lists

LEMMA ListsMore ==
  ASSUME NEW s, NEW S, Lists(s, S), NEW x, x \notin S
  PROVE  Lists(Append(s, x), S \cup {x})
<1>1. PICK T : s \in Seq(T)
  BY DEF Lists, IsSequence
<1>2. s \in Seq(T \cup {x}) /\ x \in T \cup {x}
  BY <1>1, SeqMonotonic
<1>3. PICK n \in Nat : n = Len(s)
  BY <1>1
<1>4. PICK t : t = Append(s, x)
  OBVIOUS
<1>5. /\ t \in Seq(T \cup {x}) /\ Len(t) = n + 1
      /\ \A p \in 1 .. n : t[p] = s[p]
      /\ t[n + 1] = x
  BY <1>2, <1>3, <1>4, AppendProperties
<1>6. \A p \in 1 .. n : s[p] \in S
  BY <1>3 DEF Lists
<1>7. \A p, o \in 1 .. n : s[p] = s[o] => p = o
  BY <1>3 DEF Lists, OneEach
<1>8. \A y \in S : \E p \in 1 .. n : s[p] = y
  BY <1>3 DEF Lists
<1>9. \A p \in 1 .. n + 1 : p \in 1 .. n \/ p = n + 1
  BY <1>3
<1>10. \A p \in 1 .. n : t[p] # x
  BY <1>5, <1>6
<1>11. \A p, o \in 1 .. n + 1 : t[p] = t[o] => p = o
  <2> SUFFICES ASSUME NEW p \in 1 .. n + 1, NEW o \in 1 .. n + 1, t[p] = t[o]
               PROVE  p = o
    OBVIOUS
  <2>1. CASE p \in 1 .. n /\ o \in 1 .. n
    BY <2>1, <1>5, <1>7
  <2>2. CASE p = n + 1 \/ o = n + 1
    BY <2>2, <1>5, <1>9, <1>10
  <2>3. QED
    BY <2>1, <2>2, <1>9
<1>12. \A p \in 1 .. n + 1 : t[p] \in S \cup {x}
  BY <1>5, <1>6, <1>9
<1>13. \A y \in S \cup {x} : \E p \in 1 .. n + 1 : t[p] = y
  <2>1. ASSUME NEW y \in S
        PROVE  \E p \in 1 .. n + 1 : t[p] = y
    <3>1. PICK p \in 1 .. n : s[p] = y
      BY <1>8
    <3>2. p \in 1 .. n + 1 /\ t[p] = y
      BY <3>1, <1>5
    <3>3. QED
      BY <3>2
  <2>2. n + 1 \in 1 .. n + 1 /\ t[n + 1] = x
    BY <1>5
  <2>3. QED
    BY <2>1, <2>2
<1>14. IsSequence(t)
  BY <1>5 DEF IsSequence
<1>15. QED
  BY <1>4, <1>5, <1>11, <1>12, <1>13, <1>14 DEF Lists, OneEach

--------------------------------
(* The sweeps of experiments 2 and 3 *)

Arms == INSTANCE ArmSweeps

LEMMA ArmsFlattenLists ==
  ASSUME NEW rows, IsSequence(rows), NEW kinds,
         \A i \in 1 .. Len(rows) : Lists(rows[i], kinds[i]),
         \A i, k \in 1 .. Len(rows) : i # k => kinds[i] \cap kinds[k] = {}
  PROVE  Lists(Arms!FlattenSeq(rows), UNION {kinds[i] : i \in 1 .. Len(rows)})
<1>1. Arms!FlattenSeq(rows) = FlattenSeq(rows)
  BY Zenon DEF Arms!FlattenSeq, FlattenSeq
<1>2. QED
  BY <1>1, FlattenLists

LEMMA ArmsListsItself ==
  ASSUME NEW v, IsSequence(v), Arms!IsInjective(v)
  PROVE  Lists(v, Arms!ToSet(v))
<1>1. IsInjective(v) /\ Arms!ToSet(v) = ToSet(v)
  BY Zenon DEF Arms!IsInjective, IsInjective, Arms!ToSet, ToSet
<1>2. QED
  BY <1>1, ListsItself

LEMMA ArmsListedSet ==
  ASSUME NEW s, NEW S, Lists(s, S)
  PROVE  Arms!ToSet(s) = S /\ Len(s) \in Nat /\ DOMAIN s = 1 .. Len(s)
<1>1. Arms!ToSet(s) = ToSet(s)
  BY Zenon DEF Arms!ToSet, ToSet
<1>2. QED
  BY <1>1, ListedSet

--------------------------------
(* The recursive functions of the sweeps *)

(* f takes a step of G for every number up to n. *)
Iterates(f, x, G, n) == \A k \in 0 .. n : f[k] = IF k = 0 THEN x ELSE G[k][f[k - 1]]

LEMMA Iterated ==
  ASSUME NEW S, NEW n \in Nat, NEW x \in S, NEW G \in [1 .. n -> [S -> S]]
  PROVE  \E f \in [0 .. n -> S] : Iterates(f, x, G, n)
<1> DEFINE P == {m \in Nat : m <= n =>
                   \E f \in [0 .. m -> S] :
                     \A k \in 0 .. m : f[k] = IF k = 0 THEN x ELSE G[k][f[k - 1]]}
<1>1. 0 \in P
  <2>1. PICK f \in [0 .. 0 -> S] : f[0] = x
    <3>1. [k \in 0 .. 0 |-> x] \in [0 .. 0 -> S] /\ [k \in 0 .. 0 |-> x][0] = x
      OBVIOUS
    <3>2. QED
      BY <3>1
  <2>2. \A k \in 0 .. 0 : f[k] = IF k = 0 THEN x ELSE G[k][f[k - 1]]
    BY <2>1
  <2>3. QED
    BY <2>2
<1>2. ASSUME NEW m \in Nat, m \in P
      PROVE  m + 1 \in P
  <2> SUFFICES ASSUME m + 1 <= n
               PROVE  \E f \in [0 .. m + 1 -> S] :
                        \A k \in 0 .. m + 1 : f[k] = IF k = 0 THEN x ELSE G[k][f[k - 1]]
    OBVIOUS
  <2>1. PICK f \in [0 .. m -> S] :
            \A k \in 0 .. m : f[k] = IF k = 0 THEN x ELSE G[k][f[k - 1]]
    BY <1>2
  <2> DEFINE g == [k \in 0 .. m + 1 |-> IF k <= m THEN f[k] ELSE G[m + 1][f[m]]]
  <2>2. f[m] \in S /\ G[m + 1] \in [S -> S]
    OBVIOUS
  <2>3. g \in [0 .. m + 1 -> S]
    BY <2>2
  <2>4. ASSUME NEW k \in 0 .. m + 1
        PROVE  g[k] = IF k = 0 THEN x ELSE G[k][g[k - 1]]
    <3>1. CASE k <= m
      <4>1. g[k] = f[k] /\ k \in 0 .. m
        BY <3>1
      <4>2. k # 0 => g[k - 1] = f[k - 1]
        BY <3>1
      <4>3. QED
        BY <2>1, <4>1, <4>2
    <3>2. CASE ~(k <= m)
      <4>1. k = m + 1 /\ k - 1 = m /\ k # 0
        BY <3>2
      <4>2. QED
        BY <4>1
    <3>3. QED
      BY <3>1, <3>2
  <2> HIDE DEF g
  <2>5. QED
    BY <2>3, <2>4
<1>3. n \in P
  <2> HIDE DEF P
  <2>1. QED
    BY <1>1, <1>2, SetInduction
<1>4. QED
  BY <1>3 DEF Iterates

--------------------------------
(* What redactions do to the versions *)

Authorizations == [tx : Arms!Txs, version : Nat]

Versions == [Arms!Txs -> Nat]

LEMMA RedactedTyped ==
  ASSUME NEW vs \in Versions, NEW auth \in Authorizations
  PROVE  /\ Arms!Redacted(vs, auth) \in Versions
         /\ \A tx \in Arms!Txs : Arms!Redacted(vs, auth)[tx] =
              IF tx = auth.tx /\ vs[tx] = auth.version THEN vs[tx] + 1 ELSE vs[tx]
  BY DEF Arms!Redacted, Versions, Authorizations

RedactedUpTo(vs, auths, n) ==
  CHOOSE after : after = [k \in 0 .. n |-> IF k = 0 THEN vs
                                           ELSE Arms!Redacted(after[k - 1], auths[k])]

LEMMA RedactedDefined ==
  ASSUME NEW vs \in Versions, NEW n \in Nat, NEW auths \in [1 .. n -> Authorizations]
  PROVE  LET after == RedactedUpTo(vs, auths, n)
         IN  /\ after \in [0 .. n -> Versions]
             /\ \A k \in 0 .. n : after[k] = IF k = 0 THEN vs
                                             ELSE Arms!Redacted(after[k - 1], auths[k])
<1> DEFINE G == [k \in 1 .. n |-> [v \in Versions |-> Arms!Redacted(v, auths[k])]]
           Is(f) == f = [k \in 0 .. n |-> IF k = 0 THEN vs ELSE Arms!Redacted(f[k - 1], auths[k])]
<1>1. G \in [1 .. n -> [Versions -> Versions]]
  BY RedactedTyped
<1>2. \A k \in 1 .. n : \A v \in Versions : G[k][v] = Arms!Redacted(v, auths[k])
  OBVIOUS
<1> HIDE DEF G
<1>3. PICK f \in [0 .. n -> Versions] : Iterates(f, vs, G, n)
  <2>1. n \in Nat /\ vs \in Versions
    OBVIOUS
  <2>2. QED
    BY <1>1, <2>1, Iterated, Zenon
<1>4. \A g : g \in [0 .. n -> Versions] =>
        \A k \in 0 .. n : k # 0 => k \in 1 .. n /\ g[k - 1] \in Versions
  OBVIOUS
<1>5. Is(f)
  BY <1>2, <1>3, <1>4 DEF Iterates
<1>6. Is(RedactedUpTo(vs, auths, n))
  <2>1. \E g : Is(g)
    BY <1>5
  <2>2. QED
    BY <2>1, Zenon DEF RedactedUpTo
<1>7. PICK after : after = RedactedUpTo(vs, auths, n)
  OBVIOUS
<1>8. \A k \in 0 .. n : after[k] = IF k = 0 THEN vs ELSE Arms!Redacted(after[k - 1], auths[k])
  <2>1. Is(after)
    BY <1>6, <1>7
  <2>2. QED
    BY <2>1, Zenon
<1>9. after \in [0 .. n -> Versions]
  <2> DEFINE P == {k \in Nat : k <= n => after[k] \in Versions}
  <2>1. 0 \in P
    BY <1>8
  <2>2. ASSUME NEW k \in Nat, k \in P
        PROVE  k + 1 \in P
    <3> SUFFICES ASSUME k + 1 <= n PROVE after[k + 1] \in Versions
      OBVIOUS
    <3>1. after[k + 1] = Arms!Redacted(after[k], auths[k + 1])
      <4>1. k + 1 \in 0 .. n /\ k + 1 # 0 /\ (k + 1) - 1 = k
        OBVIOUS
      <4>2. QED
        BY <1>8, <4>1
    <3>2. after[k] \in Versions /\ auths[k + 1] \in Authorizations
      BY <2>2
    <3>3. QED
      BY <3>1, <3>2, RedactedTyped
  <2>3. \A k \in 0 .. n : after[k] \in Versions
    <3>1. Nat \subseteq P
      <4> HIDE DEF P
      <4>1. QED
        BY <2>1, <2>2, SetInduction
    <3>2. QED
      BY <3>1
  <2>4. after = [k \in 0 .. n |-> IF k = 0 THEN vs ELSE Arms!Redacted(after[k - 1], auths[k])]
    BY <1>6, <1>7
  <2>5. QED
    BY <1>8, <2>3, <2>4
<1>10. QED
  BY <1>7, <1>8, <1>9

(* Authorizations of current versions: every target of them has one more. *)
LEMMA RedactedAllIs ==
  ASSUME NEW vs \in Versions, NEW auths, IsSequence(auths),
         NEW n \in Nat, Len(auths) = n, auths \in [1 .. n -> Authorizations],
         \A k \in 1 .. n : auths[k].version = vs[auths[k].tx]
  PROVE  /\ Arms!RedactedAll(vs, auths) \in Versions
         /\ \A tx \in Arms!Txs : Arms!RedactedAll(vs, auths)[tx] =
              IF tx \in {auths[k].tx : k \in 1 .. n} THEN vs[tx] + 1 ELSE vs[tx]
<1> DEFINE after == RedactedUpTo(vs, auths, n)
           Redone(m) == \A tx \in Arms!Txs : after[m][tx] =
              IF tx \in {auths[k].tx : k \in 1 .. m} THEN vs[tx] + 1 ELSE vs[tx]
<1>1. /\ after \in [0 .. n -> Versions]
      /\ \A k \in 0 .. n : after[k] = IF k = 0 THEN vs ELSE Arms!Redacted(after[k - 1], auths[k])
  BY RedactedDefined
<1>2. Arms!RedactedAll(vs, auths) = after[n]
  BY Zenon DEF Arms!RedactedAll, RedactedUpTo
<1> HIDE DEF after
<1> DEFINE P == {m \in Nat : m <= n => Redone(m)}
<1>3. 0 \in P
  BY <1>1
<1>4. ASSUME NEW m \in Nat, m \in P
      PROVE  m + 1 \in P
  <2> SUFFICES ASSUME m + 1 <= n, NEW tx \in Arms!Txs
               PROVE  after[m + 1][tx] =
                        IF tx \in {auths[k].tx : k \in 1 .. m + 1} THEN vs[tx] + 1
                        ELSE vs[tx]
    OBVIOUS
  <2>1. m + 1 \in 0 .. n /\ m + 1 # 0 /\ (m + 1) - 1 = m /\ m \in 0 .. n /\ m + 1 \in 1 .. n
    OBVIOUS
  <2>2. after[m + 1] = Arms!Redacted(after[m], auths[m + 1]) /\ after[m] \in Versions
    BY <1>1, <2>1
  <2>3. auths[m + 1] \in Authorizations
    BY <2>1
  <2>4. after[m + 1][tx] =
          IF tx = auths[m + 1].tx /\ after[m][tx] = auths[m + 1].version THEN after[m][tx] + 1
          ELSE after[m][tx]
    <3>1. PICK v \in Versions, auth \in Authorizations : v = after[m] /\ auth = auths[m + 1]
      BY <2>2, <2>3
    <3>2. Arms!Redacted(v, auth)[tx] =
            IF tx = auth.tx /\ v[tx] = auth.version THEN v[tx] + 1 ELSE v[tx]
      BY RedactedTyped
    <3>3. QED
      BY <2>2, <3>1, <3>2, Zenon
  <2>5. after[m][tx] =
          IF tx \in {auths[k].tx : k \in 1 .. m} THEN vs[tx] + 1 ELSE vs[tx]
    BY <1>4
  <2>6. {auths[k].tx : k \in 1 .. m + 1} = {auths[k].tx : k \in 1 .. m} \cup {auths[m + 1].tx}
    <3>1. \A k \in 1 .. m + 1 : k \in 1 .. m \/ k = m + 1
      OBVIOUS
    <3>2. QED
      BY <3>1
  <2>7. vs[tx] \in Nat /\ auths[m + 1].version = vs[auths[m + 1].tx]
    BY <2>1 DEF Versions
  <2>8. CASE tx = auths[m + 1].tx
    <3>1. auths[m + 1].version = vs[tx]
      BY <2>7, <2>8
    <3>2. CASE tx \in {auths[k].tx : k \in 1 .. m}
      BY <2>4, <2>5, <2>6, <2>7, <3>1, <3>2
    <3>3. CASE tx \notin {auths[k].tx : k \in 1 .. m}
      BY <2>4, <2>5, <2>6, <2>7, <2>8, <3>1, <3>3
    <3>4. QED
      BY <3>2, <3>3
  <2>9. CASE tx # auths[m + 1].tx
    BY <2>4, <2>5, <2>6, <2>9
  <2>10. QED
    BY <2>8, <2>9
<1>5. Redone(n)
  <2>1. n \in P
    <3> HIDE DEF P
    <3>1. QED
      BY <1>3, <1>4, SetInduction
  <2>2. QED
    BY <2>1
<1>6. after[n] \in Versions
  BY <1>1
<1>7. QED
  BY <1>2, <1>5, <1>6

LEMMA RedactedNowIs ==
  ASSUME NEW vs \in Versions, NEW tx \in Arms!Txs
  PROVE  /\ Arms!RedactedNow(vs, tx) \in Versions
         /\ \A t \in Arms!Txs : Arms!RedactedNow(vs, tx)[t] =
              IF t = tx THEN vs[tx] + 1 ELSE vs[t]
<1> DEFINE auth == [tx |-> tx, version |-> vs[tx]]
<1>1. vs[tx] \in Nat
  BY DEF Versions
<1>2. auth \in Authorizations /\ auth.tx = tx /\ auth.version = vs[tx]
  BY <1>1 DEF Authorizations
<1>3. Arms!RedactedNow(vs, tx) = Arms!Redacted(vs, auth)
  BY DEF Arms!RedactedNow
<1> HIDE DEF auth
<1>4. QED
  BY <1>2, <1>3, RedactedTyped

RevisedUpTo(vs, tx, n) ==
  CHOOSE after : after = [i \in 0 .. n |-> IF i = 0 THEN vs ELSE Arms!RedactedNow(after[i - 1], tx)]

LEMMA RevisedDefined ==
  ASSUME NEW vs \in Versions, NEW n \in Nat, NEW tx \in Arms!Txs
  PROVE  \A k \in 0 .. n : RevisedUpTo(vs, tx, n)[k] =
           IF k = 0 THEN vs ELSE Arms!RedactedNow(RevisedUpTo(vs, tx, n)[k - 1], tx)
<1> DEFINE G == [k \in 1 .. n |-> [v \in Versions |-> Arms!RedactedNow(v, tx)]]
           Is(f) == f = [k \in 0 .. n |-> IF k = 0 THEN vs ELSE Arms!RedactedNow(f[k - 1], tx)]
<1>1. G \in [1 .. n -> [Versions -> Versions]]
  BY RedactedNowIs
<1>2. \A k \in 1 .. n : \A v \in Versions : G[k][v] = Arms!RedactedNow(v, tx)
  OBVIOUS
<1> HIDE DEF G
<1>3. PICK f \in [0 .. n -> Versions] : Iterates(f, vs, G, n)
  <2>1. n \in Nat /\ vs \in Versions
    OBVIOUS
  <2>2. QED
    BY <1>1, <2>1, Iterated, Zenon
<1>4. \A g : g \in [0 .. n -> Versions] =>
        \A k \in 0 .. n : k # 0 => k \in 1 .. n /\ g[k - 1] \in Versions
  OBVIOUS
<1>5. Is(f)
  BY <1>2, <1>3, <1>4 DEF Iterates
<1>6. PICK after : after = RevisedUpTo(vs, tx, n)
  OBVIOUS
<1>7. Is(after)
  <2>1. \E g : Is(g)
    BY <1>5
  <2>2. QED
    BY <1>6, <2>1, Zenon DEF RevisedUpTo
<1>8. \A k \in 0 .. n : after[k] = IF k = 0 THEN vs ELSE Arms!RedactedNow(after[k - 1], tx)
  BY <1>7, Zenon
<1>9. QED
  BY <1>6, <1>8

(* Each revision is authorized at the version the last one left. *)
LEMMA RevisedIs ==
  ASSUME NEW vs \in Versions, NEW depth \in Nat, NEW tx \in Arms!Txs
  PROVE  /\ Arms!Revised(vs, tx, depth) \in Versions
         /\ \A t \in Arms!Txs : Arms!Revised(vs, tx, depth)[t] =
              IF t = tx THEN vs[tx] + depth ELSE vs[t]
<1> DEFINE after == RevisedUpTo(vs, tx, depth)
           Deep(m) == /\ after[m] \in Versions
                      /\ \A t \in Arms!Txs : after[m][t] = IF t = tx THEN vs[tx] + m
                                                      ELSE vs[t]
           P == {m \in Nat : m <= depth => Deep(m)}
<1>1. \A k \in 0 .. depth : after[k] = IF k = 0 THEN vs ELSE Arms!RedactedNow(after[k - 1], tx)
  BY RevisedDefined
<1>2. Arms!Revised(vs, tx, depth) = after[depth]
  BY Zenon DEF Arms!Revised, RevisedUpTo
<1> HIDE DEF after
<1>3. \A t \in Arms!Txs : vs[t] \in Nat
  BY DEF Versions
<1>4. 0 \in P
  BY <1>1, <1>3
<1>5. ASSUME NEW m \in Nat, m \in P
      PROVE  m + 1 \in P
  <2> SUFFICES ASSUME m + 1 <= depth PROVE Deep(m + 1)
    OBVIOUS
  <2>1. m + 1 \in 0 .. depth /\ m + 1 # 0 /\ (m + 1) - 1 = m
    OBVIOUS
  <2>2. Deep(m)
    BY <1>5
  <2>3. PICK v \in Versions : v = after[m]
    BY <2>2
  <2>4. after[m + 1] = Arms!RedactedNow(v, tx)
    BY <1>1, <2>1, <2>3
  <2>5. /\ Arms!RedactedNow(v, tx) \in Versions
        /\ \A t \in Arms!Txs : Arms!RedactedNow(v, tx)[t] = IF t = tx THEN v[tx] + 1 ELSE v[t]
    BY RedactedNowIs
  <2>6. \A t \in Arms!Txs : v[t] = IF t = tx THEN vs[tx] + m ELSE vs[t]
    BY <2>2, <2>3
  <2>7. \A t \in Arms!Txs : after[m + 1][t] = IF t = tx THEN vs[tx] + (m + 1) ELSE vs[t]
    BY <1>3, <2>4, <2>5, <2>6
  <2>8. QED
    BY <2>4, <2>5, <2>7
<1>6. depth \in P
  <2> HIDE DEF P
  <2>1. QED
    BY <1>4, <1>5, SetInduction
<1>7. QED
  BY <1>2, <1>6

DeepenedUpTo(n) ==
  CHOOSE after : after = [k \in 0 .. n |-> IF k = 0 THEN Arms!Fresh
                                           ELSE Arms!Revised(after[k - 1], k, Depths[k])]

LEMMA FreshTyped == Arms!Fresh \in Versions /\ \A tx \in Arms!Txs : Arms!Fresh[tx] = 0
  BY DEF Arms!Fresh, Versions

LEMMA TargetsAre ==
  ASSUME Arms!Spreadable
  PROVE  /\ Len(Depths) \in Nat /\ DOMAIN Depths = 1 .. Len(Depths)
         /\ \A k \in 1 .. Len(Depths) : Depths[k] \in Nat /\ k \in Arms!Txs
<1>1. Depths \in Seq(Nat)
  BY DEF Arms!Spreadable
<1>2. DOMAIN Depths \subseteq Arms!Txs
  BY DEF Arms!Txs
<1>3. QED
  BY <1>1, <1>2

LEMMA DeepenedDefined ==
  ASSUME Arms!Spreadable, NEW n \in Nat, n = Len(Depths)
  PROVE  \A k \in 0 .. n : DeepenedUpTo(n)[k] =
           IF k = 0 THEN Arms!Fresh ELSE Arms!Revised(DeepenedUpTo(n)[k - 1], k, Depths[k])
<1> DEFINE G == [k \in 1 .. n |-> [v \in Versions |-> Arms!Revised(v, k, Depths[k])]]
           Is(f) == f = [k \in 0 .. n |-> IF k = 0 THEN Arms!Fresh ELSE Arms!Revised(f[k - 1], k, Depths[k])]
<1>1. G \in [1 .. n -> [Versions -> Versions]]
  <2>1. \A k \in 1 .. n : \A v \in Versions : Arms!Revised(v, k, Depths[k]) \in Versions
    BY TargetsAre, RevisedIs
  <2>2. QED
    BY <2>1
<1>2. \A k \in 1 .. n : \A v \in Versions : G[k][v] = Arms!Revised(v, k, Depths[k])
  OBVIOUS
<1> HIDE DEF G
<1>3. PICK f \in [0 .. n -> Versions] : Iterates(f, Arms!Fresh, G, n)
  <2>1. n \in Nat /\ Arms!Fresh \in Versions
    BY FreshTyped
  <2>2. QED
    BY <1>1, <2>1, Iterated, Zenon
<1>4. \A g : g \in [0 .. n -> Versions] =>
        \A k \in 0 .. n : k # 0 => k \in 1 .. n /\ g[k - 1] \in Versions
  OBVIOUS
<1>5. Is(f)
  BY <1>2, <1>3, <1>4 DEF Iterates
<1>6. PICK after : after = DeepenedUpTo(n)
  OBVIOUS
<1>7. Is(after)
  <2>1. \E g : Is(g)
    BY <1>5
  <2>2. QED
    BY <1>6, <2>1, Zenon DEF DeepenedUpTo
<1>8. \A k \in 0 .. n : after[k] = IF k = 0 THEN Arms!Fresh ELSE Arms!Revised(after[k - 1], k, Depths[k])
  BY <1>7, Zenon
<1>9. QED
  BY <1>6, <1>8

(* A ledger is prepared with exactly the history of each target. *)
LEMMA DeepenedIs ==
  ASSUME Arms!Spreadable
  PROVE  Arms!Deepened \in Versions /\ \A k \in 1 .. Len(Depths) : Arms!Deepened[k] = Depths[k]
<1>1. PICK n \in Nat : n = Len(Depths)
  BY TargetsAre
<1> DEFINE after == DeepenedUpTo(n)
           Deep(m) == /\ after[m] \in Versions
                      /\ \A k \in 1 .. n : after[m][k] = IF k <= m THEN Depths[k] ELSE 0
           P == {m \in Nat : m <= n => Deep(m)}
<1>2. \A k \in 0 .. n : after[k] = IF k = 0 THEN Arms!Fresh ELSE Arms!Revised(after[k - 1], k, Depths[k])
  BY <1>1, DeepenedDefined
<1>3. Arms!Deepened = after[n]
  BY <1>1, Zenon DEF Arms!Deepened, DeepenedUpTo
<1> HIDE DEF after
<1>4. 0 \in P
  <2>1. after[0] = Arms!Fresh
    BY <1>2
  <2>2. \A k \in 1 .. n : k \in Arms!Txs /\ ~(k <= 0)
    BY <1>1, TargetsAre
  <2>3. QED
    BY <2>1, <2>2, FreshTyped
<1>5. ASSUME NEW m \in Nat, m \in P
      PROVE  m + 1 \in P
  <2> SUFFICES ASSUME m + 1 <= n PROVE Deep(m + 1)
    OBVIOUS
  <2>1. m + 1 \in 0 .. n /\ m + 1 # 0 /\ (m + 1) - 1 = m
    OBVIOUS
  <2>2. Deep(m)
    BY <1>5
  <2>3. PICK v \in Versions, l \in Nat : v = after[m] /\ l = m + 1
    BY <2>2
  <2>4. l \in 1 .. n /\ l \in Arms!Txs /\ Depths[l] \in Nat
    BY <1>1, <2>3, TargetsAre
  <2>5. after[l] = Arms!Revised(v, l, Depths[l])
    BY <1>2, <2>1, <2>3
  <2>6. /\ Arms!Revised(v, l, Depths[l]) \in Versions
        /\ \A t \in Arms!Txs : Arms!Revised(v, l, Depths[l])[t] = IF t = l THEN v[l] + Depths[l] ELSE v[t]
    BY <2>4, RevisedIs
  <2>7. \A k \in 1 .. n : v[k] = IF k <= m THEN Depths[k] ELSE 0
    BY <2>2, <2>3
  <2>8. v[l] = 0
    BY <2>3, <2>4, <2>7
  <2>9. \A k \in 1 .. n : after[l][k] = IF k <= l THEN Depths[k] ELSE 0
    <3> SUFFICES ASSUME NEW k \in 1 .. n PROVE after[l][k] = IF k <= l THEN Depths[k] ELSE 0
      OBVIOUS
    <3>1. k \in Arms!Txs
      BY <1>1, TargetsAre
    <3>2. after[l][k] = IF k = l THEN v[l] + Depths[l] ELSE v[k]
      BY <2>5, <2>6, <3>1
    <3>3. CASE k = l
      BY <2>3, <2>4, <2>8, <3>2, <3>3
    <3>4. CASE k # l
      <4>1. k <= l <=> k <= m
        BY <2>3, <3>4
      <4>2. QED
        BY <2>7, <3>2, <3>4, <4>1
    <3>5. QED
      BY <3>3, <3>4
  <2>10. QED
    BY <2>3, <2>5, <2>6, <2>9
<1>6. n \in P
  <2> HIDE DEF P
  <2>1. QED
    BY <1>4, <1>5, SetInduction
<1>7. Deep(n)
  BY <1>6
<1>8. \A k \in 1 .. n : k <= n
  OBVIOUS
<1>9. QED
  BY <1>1, <1>3, <1>7, <1>8

--------------------------------
(* The arms, each once *)

(* s is of members of S, each at most once. *)
Within(s, S) == IsSequence(s) /\ OneEach(s) /\ \A p \in 1 .. Len(s) : s[p] \in S

LEMMA WithinLists ==
  ASSUME NEW s, NEW S, Within(s, S)
  PROVE  /\ Lists(s, Arms!ToSet(s)) /\ Arms!ToSet(s) \subseteq S
         /\ Len(s) \in Nat /\ DOMAIN s = 1 .. Len(s)
<1>1. Len(s) \in Nat /\ DOMAIN s = 1 .. Len(s)
  BY SequenceFacts DEF Within
<1>2. Arms!ToSet(s) = {s[p] : p \in 1 .. Len(s)}
  BY <1>1 DEF Arms!ToSet
<1>3. QED
  BY <1>1, <1>2 DEF Within, Lists

LEMMA FlattenWithin ==
  ASSUME NEW n \in Nat, NEW rows, DOMAIN rows = 1 .. n, IsSequence(rows), NEW kinds, NEW S,
         \A i \in 1 .. n : Within(rows[i], kinds[i]) /\ kinds[i] \subseteq S,
         \A i, k \in 1 .. n : i # k => kinds[i] \cap kinds[k] = {}
  PROVE  Within(Arms!FlattenSeq(rows), S)
<1> DEFINE held == [i \in 1 .. n |-> Arms!ToSet(rows[i])]
           all == UNION {held[i] : i \in 1 .. n}
<1>1. Len(rows) \in Nat /\ 1 .. Len(rows) = 1 .. n
  BY SequenceFacts
<1>2. \A i \in 1 .. n : Lists(rows[i], held[i]) /\ held[i] \subseteq kinds[i]
  BY WithinLists
<1>3. \A i, k \in 1 .. n : i # k => held[i] \cap held[k] = {}
  BY <1>2
<1>4. all \subseteq S
  BY <1>2
<1> HIDE DEF held
<1>5. Lists(Arms!FlattenSeq(rows), all)
  BY <1>1, <1>2, <1>3, ArmsFlattenLists
<1> HIDE DEF all
<1>6. QED
  BY <1>4, <1>5 DEF Lists, Within

LEMMA FunctionWithDomain ==
  ASSUME NEW n \in Nat, NEW s, s = [i \in 1 .. n |-> s[i]]
  PROVE  IsSequence(s) /\ Len(s) = n /\ DOMAIN s = 1 .. n
<1>1. s \in [1 .. n -> {s[i] : i \in 1 .. n}]
  OBVIOUS
<1>2. QED
  BY <1>1, FunctionIsSequence

LEMMA OnlyOne ==
  ASSUME NEW S, NEW x \in S
  PROVE  Within(<<x>>, S)
<1>1. PICK s : s = <<x>>
  OBVIOUS
<1>2. s \in Seq(S) /\ Len(s) = 1 /\ s[1] = x
  BY <1>1
<1>3. \A p \in 1 .. Len(s) : p = 1
  BY <1>2
<1>4. Within(s, S)
  <2>1. IsSequence(s)
    BY <1>2 DEF IsSequence
  <2>2. OneEach(s)
    BY <1>3 DEF OneEach
  <2>3. QED
    BY <1>2, <1>3, <2>1, <2>2 DEF Within
<1>5. QED
  BY <1>1, <1>4

LEMMA AppendOnce ==
  ASSUME NEW V, NEW s \in Seq(V), NEW t \in Seq(V), NEW x \in V, NEW y \in V,
         Append(s, x) = Append(t, y)
  PROVE  s = t /\ x = y
<1>1. PICK n \in Nat, m \in Nat : n = Len(s) /\ m = Len(t)
  OBVIOUS
<1>2. /\ Len(Append(s, x)) = n + 1 /\ Append(s, x)[n + 1] = x
      /\ \A i \in 1 .. n : Append(s, x)[i] = s[i]
  BY <1>1
<1>3. /\ Len(Append(t, y)) = m + 1 /\ Append(t, y)[m + 1] = y
      /\ \A i \in 1 .. m : Append(t, y)[i] = t[i]
  BY <1>1
<1>4. n + 1 = m + 1
  BY <1>2, <1>3
<1>5. n = m
  BY <1>4
<1>6. x = y /\ \A i \in 1 .. n : s[i] = t[i]
  BY <1>2, <1>3, <1>5
<1>7. s = t
  BY <1>1, <1>5, <1>6, SeqEqual
<1>8. QED
  BY <1>6, <1>7

LEMMA CombinedOnce ==
  ASSUME NEW V, NEW sofar, Within(sofar, Seq(V)), NEW values, Within(values, V)
  PROVE  Within(Arms!Combined(sofar, values), Seq(V))
<1>1. PICK n \in Nat, m \in Nat : /\ n = Len(sofar) /\ DOMAIN sofar = 1 .. n
                                  /\ m = Len(values) /\ DOMAIN values = 1 .. m
  BY SequenceFacts DEF Within
<1>2. /\ \A i \in 1 .. n : sofar[i] \in Seq(V)
      /\ \A i, k \in 1 .. n : sofar[i] = sofar[k] => i = k
      /\ \A j \in 1 .. m : values[j] \in V
      /\ \A j, l \in 1 .. m : values[j] = values[l] => j = l
  BY <1>1 DEF Within, OneEach
<1> DEFINE row(i) == [v \in 1 .. m |-> Append(sofar[i], values[v])]
           rows == [i \in 1 .. n |-> row(i)]
           kinds == [i \in 1 .. n |-> {Append(sofar[i], values[v]) : v \in 1 .. m}]
<1>3. Arms!Combined(sofar, values) = Arms!FlattenSeq(rows)
  BY <1>1 DEF Arms!Combined
<1>4. rows = [i \in 1 .. n |-> rows[i]]
  OBVIOUS
<1>5. IsSequence(rows) /\ DOMAIN rows = 1 .. n
  <2> HIDE DEF rows
  <2>1. QED
    BY <1>4, FunctionWithDomain
<1>6. ASSUME NEW i \in 1 .. n
      PROVE  Within(rows[i], kinds[i]) /\ kinds[i] \subseteq Seq(V)
  <2>1. rows[i] = row(i) /\ kinds[i] = {Append(sofar[i], values[v]) : v \in 1 .. m}
    OBVIOUS
  <2>2. PICK r : r = row(i)
    OBVIOUS
  <2>3. r \in [1 .. m -> kinds[i]] /\ \A v \in 1 .. m : r[v] = Append(sofar[i], values[v])
    BY <2>1, <2>2
  <2>4. IsSequence(r) /\ Len(r) = m
    BY <2>3, FunctionIsSequence
  <2>5. \A j, l \in 1 .. m : r[j] = r[l] => j = l
    BY <1>2, <2>3, AppendOnce
  <2>6. \A v \in 1 .. m : Append(sofar[i], values[v]) \in Seq(V)
    BY <1>2
  <2>7. Within(r, kinds[i])
    BY <2>3, <2>4, <2>5 DEF Within, OneEach
  <2>8. kinds[i] \subseteq Seq(V)
    BY <2>1, <2>6
  <2>9. QED
    BY <2>1, <2>2, <2>7, <2>8
<1>7. ASSUME NEW i \in 1 .. n, NEW k \in 1 .. n, i # k
      PROVE  kinds[i] \cap kinds[k] = {}
  <2> SUFFICES ASSUME NEW j \in 1 .. m, NEW l \in 1 .. m,
                      Append(sofar[i], values[j]) = Append(sofar[k], values[l])
               PROVE  FALSE
    OBVIOUS
  <2>1. sofar[i] = sofar[k]
    <3>1. PICK a \in Seq(V), b \in Seq(V), x \in V, y \in V :
            a = sofar[i] /\ b = sofar[k] /\ x = values[j] /\ y = values[l]
      BY <1>2
    <3>2. Append(a, x) = Append(b, y)
      BY <3>1
    <3>3. QED
      <4>1. a = b
        BY <3>2, AppendOnce
      <4>2. QED
        BY <3>1, <4>1, Zenon
  <2>2. QED
    BY <1>2, <1>7, <2>1
<1> HIDE DEF rows, kinds
<1>8. Within(Arms!FlattenSeq(rows), Seq(V))
  BY <1>5, <1>6, <1>7, FlattenWithin
<1>9. QED
  BY <1>3, <1>8

SetupsUpTo(n) ==
  CHOOSE out : out = [k \in 0 .. n |-> IF k = 0 THEN << <<>> >> ELSE Arms!Combined(out[k - 1], Axes[k])]

LEMMA SetupsDefined ==
  ASSUME NEW n \in Nat
  PROVE  SetupsUpTo(n) = [k \in 0 .. n |->
                            IF k = 0 THEN << <<>> >> ELSE Arms!Combined(SetupsUpTo(n)[k - 1], Axes[k])]
<1> DEFINE P == {m \in Nat : \E f : f = [k \in 0 .. m |-> IF k = 0 THEN << <<>> >> ELSE Arms!Combined(f[k - 1], Axes[k])]}
<1>1. 0 \in P
  <2>1. PICK f : f = [k \in 0 .. 0 |-> << <<>> >>]
    OBVIOUS
  <2>2. f = [k \in 0 .. 0 |-> IF k = 0 THEN << <<>> >> ELSE Arms!Combined(f[k - 1], Axes[k])]
    BY <2>1
  <2>3. QED
    BY <2>2, Zenon
<1>2. ASSUME NEW m \in Nat, m \in P
      PROVE  m + 1 \in P
  <2>1. PICK f : f = [k \in 0 .. m |-> IF k = 0 THEN << <<>> >> ELSE Arms!Combined(f[k - 1], Axes[k])]
    BY <1>2, Zenon
  <2>2. PICK g : g = [k \in 0 .. m + 1 |-> IF k <= m THEN f[k] ELSE Arms!Combined(f[m], Axes[m + 1])]
    OBVIOUS
  <2>3. ASSUME NEW k \in 0 .. m + 1
        PROVE  g[k] = IF k = 0 THEN << <<>> >> ELSE Arms!Combined(g[k - 1], Axes[k])
    <3>1. CASE k = 0
      BY <3>1, <2>1, <2>2
    <3>2. CASE k # 0
      <4>1. k - 1 \in 0 .. m /\ k - 1 \in 0 .. m + 1 /\ (k <= m \/ (k - 1 = m /\ k = m + 1))
        BY <3>2
      <4>2. g[k - 1] = f[k - 1]
        BY <4>1, <2>2
      <4>3. CASE k <= m
        <5>1. g[k] = f[k] /\ k \in 0 .. m
          BY <4>3, <2>2
        <5>2. f[k] = Arms!Combined(f[k - 1], Axes[k])
          BY <5>1, <3>2, <2>1
        <5>3. QED
          BY <5>1, <5>2, <4>2, <3>2
      <4>4. CASE ~(k <= m)
        BY <4>1, <4>2, <4>4, <3>2, <2>2
      <4>5. QED
        BY <4>3, <4>4
    <3>3. QED
      BY <3>1, <3>2
  <2>4. g = [k \in 0 .. m + 1 |-> IF k = 0 THEN << <<>> >> ELSE Arms!Combined(g[k - 1], Axes[k])]
    BY <2>2, <2>3
  <2>5. m + 1 \in Nat
    OBVIOUS
  <2>6. QED
    BY <2>4, <2>5, Zenon
<1>3. n \in P
  <2> HIDE DEF P
  <2>1. QED
    BY <1>1, <1>2, SetInduction
<1>4. \E f : f = [k \in 0 .. n |-> IF k = 0 THEN << <<>> >> ELSE Arms!Combined(f[k - 1], Axes[k])]
  BY <1>3, Zenon
<1>5. QED
  BY <1>4, Zenon DEF SetupsUpTo

(* Every combination of the axes, once. *)
LEMMA SweepsOnce ==
  ASSUME Arms!Spreadable
  PROVE  Within(Arms!Sweeps, Arms!ToSet(Arms!Sweeps))
<1>1. \E S : Within(Arms!Sweeps, S)
  <2>1. CASE Axes = <<>>
    <3>1. Arms!Sweeps = <<NoSetup>>
      BY <2>1, Zenon DEF Arms!Sweeps
    <3>2. Within(<<NoSetup>>, {NoSetup})
      BY OnlyOne
    <3>3. QED
      BY <3>1, <3>2
  <2>2. CASE Axes # <<>>
    <3>1. PICK n \in Nat : n = Len(Axes) /\ DOMAIN Axes = 1 .. n
      BY DEF Arms!Spreadable
    <3> DEFINE out == SetupsUpTo(n)
               V == UNION {Arms!ToSet(axis) : axis \in Arms!ToSet(Axes)}
               P == {k \in Nat : k <= n => Within(out[k], Seq(V))}
    <3>2. Arms!Sweeps = out[n]
      BY <2>2, <3>1, Zenon DEF Arms!Sweeps, SetupsUpTo
    <3>3. \A k \in 0 .. n : out[k] = IF k = 0 THEN << <<>> >> ELSE Arms!Combined(out[k - 1], Axes[k])
      <4>1. out = [k \in 0 .. n |-> IF k = 0 THEN << <<>> >> ELSE Arms!Combined(out[k - 1], Axes[k])]
        BY SetupsDefined
      <4> HIDE DEF out
      <4>2. QED
        BY <4>1, Zenon
    <3> HIDE DEF out
    <3>4. \A k \in 1 .. n : Within(Axes[k], V)
      <4> SUFFICES ASSUME NEW k \in 1 .. n PROVE Within(Axes[k], V)
        OBVIOUS
      <4>1. PICK axis : axis = Axes[k] /\ axis \in Arms!ToSet(Axes)
        BY <3>1 DEF Arms!ToSet
      <4>2. IsSequence(axis) /\ Arms!IsInjective(axis)
        BY <4>1 DEF Arms!Spreadable, IsSequence
      <4>3. Lists(axis, Arms!ToSet(axis))
        BY <4>2, ArmsListsItself
      <4>4. Arms!ToSet(axis) \subseteq V
        BY <4>1
      <4> HIDE DEF V
      <4>5. QED
        BY <4>1, <4>3, <4>4 DEF Lists, Within
    <3> HIDE DEF V
    <3>5. 0 \in P
      <4>1. <<>> \in Seq(V)
        OBVIOUS
      <4>2. Within(<< <<>> >>, Seq(V))
        BY <4>1, OnlyOne
      <4>3. QED
        BY <3>3, <4>2
    <3>6. ASSUME NEW k \in Nat, k \in P
          PROVE  k + 1 \in P
      <4> SUFFICES ASSUME k + 1 <= n PROVE Within(out[k + 1], Seq(V))
        OBVIOUS
      <4>1. k + 1 \in 0 .. n /\ k + 1 # 0 /\ (k + 1) - 1 = k /\ k + 1 \in 1 .. n
        OBVIOUS
      <4>2. out[k + 1] = Arms!Combined(out[k], Axes[k + 1])
        BY <3>3, <4>1
      <4>3. Within(out[k], Seq(V)) /\ Within(Axes[k + 1], V)
        BY <3>4, <3>6, <4>1
      <4>4. QED
        BY <4>2, <4>3, CombinedOnce
    <3>7. n \in P
      <4> HIDE DEF P
      <4>1. QED
        BY <3>5, <3>6, SetInduction
    <3>8. QED
      BY <3>2, <3>7
  <2>3. QED
    BY <2>1, <2>2
<1>2. DOMAIN Arms!Sweeps = 1 .. Len(Arms!Sweeps)
  BY <1>1, WithinLists
<1>3. QED
  BY <1>1, <1>2 DEF Within, Arms!ToSet

WorkloadsUpTo(n, whole) ==
  CHOOSE out : out = [k \in 0 .. n |-> IF k = 0 THEN <<>>
                                       ELSE Arms!Once(out[k - 1], Arms!SmallerOf(Workloads[k], whole))]

LEMMA WorkloadsDefined ==
  ASSUME NEW n \in Nat, NEW whole
  PROVE  WorkloadsUpTo(n, whole) =
           [k \in 0 .. n |-> IF k = 0 THEN <<>>
                             ELSE Arms!Once(WorkloadsUpTo(n, whole)[k - 1],
                                       Arms!SmallerOf(Workloads[k], whole))]
<1> DEFINE P == {m \in Nat : \E f : f = [k \in 0 .. m |-> IF k = 0 THEN <<>> ELSE Arms!Once(f[k - 1], Arms!SmallerOf(Workloads[k], whole))]}
<1>1. 0 \in P
  <2>1. PICK f : f = [k \in 0 .. 0 |-> <<>>]
    OBVIOUS
  <2>2. f = [k \in 0 .. 0 |-> IF k = 0 THEN <<>> ELSE Arms!Once(f[k - 1], Arms!SmallerOf(Workloads[k], whole))]
    BY <2>1
  <2>3. QED
    BY <2>2, Zenon
<1>2. ASSUME NEW m \in Nat, m \in P
      PROVE  m + 1 \in P
  <2>1. PICK f : f = [k \in 0 .. m |-> IF k = 0 THEN <<>> ELSE Arms!Once(f[k - 1], Arms!SmallerOf(Workloads[k], whole))]
    BY <1>2, Zenon
  <2>2. PICK g : g = [k \in 0 .. m + 1 |-> IF k <= m THEN f[k] ELSE Arms!Once(f[m], Arms!SmallerOf(Workloads[m + 1], whole))]
    OBVIOUS
  <2>3. ASSUME NEW k \in 0 .. m + 1
        PROVE  g[k] = IF k = 0 THEN <<>> ELSE Arms!Once(g[k - 1], Arms!SmallerOf(Workloads[k], whole))
    <3>1. CASE k = 0
      BY <3>1, <2>1, <2>2
    <3>2. CASE k # 0
      <4>1. k - 1 \in 0 .. m /\ k - 1 \in 0 .. m + 1 /\ (k <= m \/ (k - 1 = m /\ k = m + 1))
        BY <3>2
      <4>2. g[k - 1] = f[k - 1]
        BY <4>1, <2>2
      <4>3. CASE k <= m
        <5>1. g[k] = f[k] /\ k \in 0 .. m
          BY <4>3, <2>2
        <5>2. f[k] = Arms!Once(f[k - 1], Arms!SmallerOf(Workloads[k], whole))
          BY <5>1, <3>2, <2>1
        <5>3. QED
          BY <5>1, <5>2, <4>2, <3>2
      <4>4. CASE ~(k <= m)
        BY <4>1, <4>2, <4>4, <3>2, <2>2
      <4>5. QED
        BY <4>3, <4>4
    <3>3. QED
      BY <3>1, <3>2
  <2>4. g = [k \in 0 .. m + 1 |-> IF k = 0 THEN <<>> ELSE Arms!Once(g[k - 1], Arms!SmallerOf(Workloads[k], whole))]
    BY <2>2, <2>3
  <2>5. m + 1 \in Nat
    OBVIOUS
  <2>6. QED
    BY <2>4, <2>5, Zenon
<1>3. n \in P
  <2> HIDE DEF P
  <2>1. QED
    BY <1>1, <1>2, SetInduction
<1>4. \E f : f = [k \in 0 .. n |-> IF k = 0 THEN <<>> ELSE Arms!Once(f[k - 1], Arms!SmallerOf(Workloads[k], whole))]
  BY <1>3, Zenon
<1>5. QED
  BY <1>4, Zenon DEF WorkloadsUpTo

(* No prefix is measured twice, and none is longer than the trace. *)
LEMMA WorkloadsOnce ==
  ASSUME Arms!Spreadable, NEW i \in DOMAIN Traces, NEW w
  PROVE  Len(Traces[i]) \in Nat /\ Within(Arms!WorkloadsFor(i, w), 0 .. Len(Traces[i]))
<1>1. Traces[i] \in Arms!ToSet(Traces)
  BY DEF Arms!ToSet
<1>2. PICK whole \in Nat : whole = Len(Traces[i])
  BY <1>1 DEF Arms!Spreadable
<1>3. PICK n \in Nat : n = Len(Workloads) /\ \A k \in 1 .. n : Workloads[k] \in Nat
  <2>1. Workloads \in Seq(Nat)
    BY DEF Arms!Spreadable
  <2>2. QED
    BY <2>1
<1> DEFINE out == WorkloadsUpTo(n, whole)
           P == {k \in Nat : k <= n => Within(out[k], 0 .. whole)}
<1>4. Arms!WorkloadsFor(i, w) = <<whole>> \/ Arms!WorkloadsFor(i, w) = out[n]
  BY <1>2, <1>3, Zenon DEF Arms!WorkloadsFor, WorkloadsUpTo
<1>5. \A k \in 0 .. n : out[k] = IF k = 0 THEN <<>>
                                 ELSE Arms!Once(out[k - 1], Arms!SmallerOf(Workloads[k], whole))
  <2>1. out = [k \in 0 .. n |-> IF k = 0 THEN <<>>
                                ELSE Arms!Once(out[k - 1], Arms!SmallerOf(Workloads[k], whole))]
    BY WorkloadsDefined
  <2> HIDE DEF out
  <2>2. QED
    BY <2>1, Zenon
<1> HIDE DEF out
<1>6. 0 \in P
  <2>1. out[0] = <<>>
    BY <1>5
  <2>2. Within(<<>>, 0 .. whole)
    <3>1. PICK s : s = <<>>
      OBVIOUS
    <3>2. s \in Seq(Nat) /\ Len(s) = 0
      BY <3>1
    <3>3. Within(s, 0 .. whole)
      BY <3>2 DEF Within, IsSequence, OneEach
    <3>4. QED
      BY <3>1, <3>3
  <2>3. QED
    BY <2>1, <2>2
<1>7. ASSUME NEW k \in Nat, k \in P
      PROVE  k + 1 \in P
  <2> SUFFICES ASSUME k + 1 <= n PROVE Within(out[k + 1], 0 .. whole)
    OBVIOUS
  <2>1. k + 1 \in 0 .. n /\ k + 1 # 0 /\ (k + 1) - 1 = k /\ k + 1 \in 1 .. n
    OBVIOUS
  <2>2. PICK s, l : s = out[k] /\ l = Arms!SmallerOf(Workloads[k + 1], whole)
    OBVIOUS
  <2>3. out[k + 1] = Arms!Once(s, l)
    BY <1>5, <2>1, <2>2
  <2>4. Within(s, 0 .. whole)
    BY <1>7, <2>2
  <2>5. l \in 0 .. whole
    BY <1>3, <2>1, <2>2 DEF Arms!SmallerOf
  <2>6. CASE l \in Arms!ToSet(s)
    BY <2>3, <2>4, <2>6 DEF Arms!Once
  <2>7. CASE l \notin Arms!ToSet(s)
    <3>1. Lists(s, Arms!ToSet(s)) /\ Arms!ToSet(s) \subseteq 0 .. whole
      BY <2>4, WithinLists
    <3>2. Lists(Append(s, l), Arms!ToSet(s) \cup {l})
      BY <2>7, <3>1, ListsMore
    <3>3. Arms!ToSet(s) \cup {l} \subseteq 0 .. whole
      BY <2>5, <3>1
    <3>4. Within(Append(s, l), 0 .. whole)
      BY <3>2, <3>3 DEF Lists, Within
    <3>5. QED
      BY <2>3, <2>7, <3>4 DEF Arms!Once
  <2>8. QED
    BY <2>6, <2>7
<1>8. n \in P
  <2> HIDE DEF P
  <2>1. QED
    BY <1>6, <1>7, SetInduction
<1>9. Within(<<whole>>, 0 .. whole)
  <2>1. whole \in 0 .. whole
    OBVIOUS
  <2>2. QED
    BY <2>1, OnlyOne
<1>10. QED
  BY <1>2, <1>4, <1>8, <1>9

ArmSpace ==
  {r \in [sweep : DOMAIN Arms!Sweeps, ratio : DOMAIN Traces, size : Arms!ToSet(Sizes),
          wait : Arms!ToSet(Waits), workload : Nat] : r.workload <= Len(Traces[r.ratio])}

ArmsOf(s) == {r \in ArmSpace : r.sweep = s}
ArmsAt(s, i) == {r \in ArmSpace : r.sweep = s /\ r.ratio = i}
ArmsIn(s, i, x) == {r \in ArmSpace : r.sweep = s /\ r.ratio = i /\ r.size = x}
ArmsWith(s, i, x, y) ==
  {r \in ArmSpace : r.sweep = s /\ r.ratio = i /\ r.size = x /\ r.wait = y}

WorkloadRow(s, i, b, w) ==
  [n \in DOMAIN Arms!WorkloadsFor(i, w) |->
    [sweep |-> s, ratio |-> i, size |-> Sizes[b], wait |-> Waits[w],
     workload |-> Arms!WorkloadsFor(i, w)[n]]]

WaitRow(s, i, b) == Arms!FlattenSeq([w \in DOMAIN Waits |-> WorkloadRow(s, i, b, w)])

SizeRow(s, i) == Arms!FlattenSeq([b \in DOMAIN Sizes |-> WaitRow(s, i, b)])

RatioRow(s) == Arms!FlattenSeq([i \in DOMAIN Traces |-> SizeRow(s, i)])

LEMMA WorkloadRowOnce ==
  ASSUME Arms!Spreadable, NEW s \in DOMAIN Arms!Sweeps, NEW i \in DOMAIN Traces,
         NEW b \in DOMAIN Sizes, NEW w \in DOMAIN Waits
  PROVE  Within(WorkloadRow(s, i, b, w), ArmsWith(s, i, Sizes[b], Waits[w]))
<1>1. PICK ws, x, y : ws = Arms!WorkloadsFor(i, w) /\ x = Sizes[b] /\ y = Waits[w]
  OBVIOUS
<1>2. Len(Traces[i]) \in Nat /\ Within(ws, 0 .. Len(Traces[i]))
  BY <1>1, WorkloadsOnce
<1>3. PICK n \in Nat : n = Len(ws) /\ DOMAIN ws = 1 .. n
  BY <1>2, WithinLists
<1>4. x \in Arms!ToSet(Sizes) /\ y \in Arms!ToSet(Waits)
  BY <1>1 DEF Arms!ToSet
<1>5. PICK row : row = [k \in 1 .. n |-> [sweep |-> s, ratio |-> i, size |-> x, wait |-> y,
                                          workload |-> ws[k]]]
  OBVIOUS
<1>6. WorkloadRow(s, i, b, w) = row
  BY <1>1, <1>3, <1>5 DEF WorkloadRow
<1>7. \A k \in 1 .. n : /\ ws[k] \in 0 .. Len(Traces[i])
                        /\ \A j \in 1 .. n : ws[k] = ws[j] => k = j
  BY <1>2, <1>3 DEF Within, OneEach
<1>8. ASSUME NEW k \in 1 .. n
      PROVE  row[k] \in ArmsWith(s, i, x, y) /\ row[k].workload = ws[k]
  <2>1. PICK l \in Nat : l = ws[k] /\ l <= Len(Traces[i])
    BY <1>2, <1>7
  <2>2. row[k] = [sweep |-> s, ratio |-> i, size |-> x, wait |-> y, workload |-> l]
    BY <1>5, <2>1
  <2>3. QED
    BY <1>4, <2>1, <2>2 DEF ArmsWith, ArmSpace
<1>9. row \in [1 .. n -> ArmsWith(s, i, x, y)]
  BY <1>5, <1>8
<1>10. IsSequence(row) /\ Len(row) = n
  BY <1>9, FunctionIsSequence
<1>11. OneEach(row)
  BY <1>7, <1>8, <1>10 DEF OneEach
<1>12. QED
  BY <1>1, <1>6, <1>8, <1>10, <1>11 DEF Within

LEMMA AxisOnce ==
  ASSUME Arms!Spreadable, NEW axis \in {Sizes, Waits, LedgerSizes}
  PROVE  /\ \E n \in Nat : DOMAIN axis = 1 .. n
         /\ \A j, k \in DOMAIN axis : j # k => axis[j] # axis[k]
<1>1. axis \in Seq(Arms!ToSet(axis)) /\ Arms!IsInjective(axis)
  BY DEF Arms!Spreadable
<1>2. QED
  BY <1>1 DEF Arms!IsInjective

LEMMA WaitRowOnce ==
  ASSUME Arms!Spreadable, NEW s \in DOMAIN Arms!Sweeps, NEW i \in DOMAIN Traces,
         NEW b \in DOMAIN Sizes
  PROVE  Within(WaitRow(s, i, b), ArmsIn(s, i, Sizes[b]))
<1> DEFINE rows == [j \in DOMAIN Waits |-> WorkloadRow(s, i, b, j)]
           kinds == [j \in DOMAIN Waits |-> ArmsWith(s, i, Sizes[b], Waits[j])]
<1>1. PICK n \in Nat : DOMAIN Waits = 1 .. n
  BY AxisOnce
<1>2. \A j, k \in 1 .. n : j # k => Waits[j] # Waits[k]
  BY <1>1, AxisOnce
<1>3. \A j \in 1 .. n : rows[j] = WorkloadRow(s, i, b, j) /\ kinds[j] = ArmsWith(s, i, Sizes[b], Waits[j])
  BY <1>1
<1>4. rows = [j \in 1 .. n |-> rows[j]]
  BY <1>1
<1>5. ASSUME NEW j \in 1 .. n
      PROVE  Within(rows[j], kinds[j]) /\ kinds[j] \subseteq ArmsIn(s, i, Sizes[b])
  <2>1. Within(WorkloadRow(s, i, b, j), ArmsWith(s, i, Sizes[b], Waits[j]))
    BY <1>1, WorkloadRowOnce
  <2>2. ArmsWith(s, i, Sizes[b], Waits[j]) \subseteq ArmsIn(s, i, Sizes[b])
    BY DEF ArmsIn, ArmsWith
  <2>3. QED
    BY <1>3, <2>1, <2>2
<1>6. ASSUME NEW j \in 1 .. n, NEW k \in 1 .. n, j # k
      PROVE  kinds[j] \cap kinds[k] = {}
  <2>1. \A r \in kinds[j] : r.wait = Waits[j]
    BY <1>3 DEF ArmsWith
  <2>2. \A r \in kinds[k] : r.wait = Waits[k]
    BY <1>3 DEF ArmsWith
  <2>3. QED
    BY <1>2, <1>6, <2>1, <2>2
<1> HIDE DEF rows, kinds
<1>7. IsSequence(rows) /\ DOMAIN rows = 1 .. n
  BY <1>4, FunctionWithDomain
<1>8. Within(Arms!FlattenSeq(rows), ArmsIn(s, i, Sizes[b]))
  BY <1>5, <1>6, <1>7, FlattenWithin
<1>9. QED
  BY <1>8 DEF WaitRow, rows

LEMMA SizeRowOnce ==
  ASSUME Arms!Spreadable, NEW s \in DOMAIN Arms!Sweeps, NEW i \in DOMAIN Traces
  PROVE  Within(SizeRow(s, i), ArmsAt(s, i))
<1> DEFINE rows == [j \in DOMAIN Sizes |-> WaitRow(s, i, j)]
           kinds == [j \in DOMAIN Sizes |-> ArmsIn(s, i, Sizes[j])]
<1>1. PICK n \in Nat : DOMAIN Sizes = 1 .. n
  BY AxisOnce
<1>2. \A j, k \in 1 .. n : j # k => Sizes[j] # Sizes[k]
  BY <1>1, AxisOnce
<1>3. \A j \in 1 .. n : rows[j] = WaitRow(s, i, j) /\ kinds[j] = ArmsIn(s, i, Sizes[j])
  BY <1>1
<1>4. rows = [j \in 1 .. n |-> rows[j]]
  BY <1>1
<1>5. ASSUME NEW j \in 1 .. n
      PROVE  Within(rows[j], kinds[j]) /\ kinds[j] \subseteq ArmsAt(s, i)
  <2>1. Within(WaitRow(s, i, j), ArmsIn(s, i, Sizes[j]))
    BY <1>1, WaitRowOnce
  <2>2. ArmsIn(s, i, Sizes[j]) \subseteq ArmsAt(s, i)
    BY DEF ArmsIn, ArmsAt
  <2>3. QED
    BY <1>3, <2>1, <2>2
<1>6. ASSUME NEW j \in 1 .. n, NEW k \in 1 .. n, j # k
      PROVE  kinds[j] \cap kinds[k] = {}
  <2>1. \A r \in kinds[j] : r.size = Sizes[j]
    BY <1>3 DEF ArmsIn
  <2>2. \A r \in kinds[k] : r.size = Sizes[k]
    BY <1>3 DEF ArmsIn
  <2>3. QED
    BY <1>2, <1>6, <2>1, <2>2
<1> HIDE DEF rows, kinds
<1>7. IsSequence(rows) /\ DOMAIN rows = 1 .. n
  BY <1>4, FunctionWithDomain
<1>8. Within(Arms!FlattenSeq(rows), ArmsAt(s, i))
  BY <1>5, <1>6, <1>7, FlattenWithin
<1>9. QED
  BY <1>8 DEF SizeRow, rows

LEMMA RatioRowOnce ==
  ASSUME Arms!Spreadable, NEW s \in DOMAIN Arms!Sweeps
  PROVE  Within(RatioRow(s), ArmsOf(s))
<1> DEFINE rows == [j \in DOMAIN Traces |-> SizeRow(s, j)]
           kinds == [j \in DOMAIN Traces |-> ArmsAt(s, j)]
<1>1. PICK n \in Nat : DOMAIN Traces = 1 .. n
  BY DEF Arms!Spreadable
<1>2. \A j, k \in 1 .. n : j # k => j # k
  OBVIOUS
<1>3. \A j \in 1 .. n : rows[j] = SizeRow(s, j) /\ kinds[j] = ArmsAt(s, j)
  BY <1>1
<1>4. rows = [j \in 1 .. n |-> rows[j]]
  BY <1>1
<1>5. ASSUME NEW j \in 1 .. n
      PROVE  Within(rows[j], kinds[j]) /\ kinds[j] \subseteq ArmsOf(s)
  <2>1. Within(SizeRow(s, j), ArmsAt(s, j))
    BY <1>1, SizeRowOnce
  <2>2. ArmsAt(s, j) \subseteq ArmsOf(s)
    BY DEF ArmsOf, ArmsAt
  <2>3. QED
    BY <1>3, <2>1, <2>2
<1>6. ASSUME NEW j \in 1 .. n, NEW k \in 1 .. n, j # k
      PROVE  kinds[j] \cap kinds[k] = {}
  <2>1. \A r \in kinds[j] : r.ratio = j
    BY <1>3 DEF ArmsAt
  <2>2. \A r \in kinds[k] : r.ratio = k
    BY <1>3 DEF ArmsAt
  <2>3. QED
    BY <1>2, <1>6, <2>1, <2>2
<1> HIDE DEF rows, kinds
<1>7. IsSequence(rows) /\ DOMAIN rows = 1 .. n
  BY <1>4, FunctionWithDomain
<1>8. Within(Arms!FlattenSeq(rows), ArmsOf(s))
  BY <1>5, <1>6, <1>7, FlattenWithin
<1>9. QED
  BY <1>8 DEF RatioRow, rows

LEMMA RedactionArmsOnce ==
  ASSUME Arms!Spreadable
  PROVE  Within(Arms!RedactionArms, ArmSpace)
<1> DEFINE rows == [j \in DOMAIN Arms!Sweeps |-> RatioRow(j)]
           kinds == [j \in DOMAIN Arms!Sweeps |-> ArmsOf(j)]
<1>1. PICK n \in Nat : DOMAIN Arms!Sweeps = 1 .. n
  BY SweepsOnce, WithinLists
<1>2. \A j, k \in 1 .. n : j # k => j # k
  OBVIOUS
<1>3. \A j \in 1 .. n : rows[j] = RatioRow(j) /\ kinds[j] = ArmsOf(j)
  BY <1>1
<1>4. rows = [j \in 1 .. n |-> rows[j]]
  BY <1>1
<1>5. ASSUME NEW j \in 1 .. n
      PROVE  Within(rows[j], kinds[j]) /\ kinds[j] \subseteq ArmSpace
  <2>1. Within(RatioRow(j), ArmsOf(j))
    BY <1>1, RatioRowOnce
  <2>2. ArmsOf(j) \subseteq ArmSpace
    BY DEF ArmsOf, ArmSpace
  <2>3. QED
    BY <1>3, <2>1, <2>2
<1>6. ASSUME NEW j \in 1 .. n, NEW k \in 1 .. n, j # k
      PROVE  kinds[j] \cap kinds[k] = {}
  <2>1. \A r \in kinds[j] : r.sweep = j
    BY <1>3 DEF ArmsOf
  <2>2. \A r \in kinds[k] : r.sweep = k
    BY <1>3 DEF ArmsOf
  <2>3. QED
    BY <1>2, <1>6, <2>1, <2>2
<1> HIDE DEF rows, kinds
<1>7. IsSequence(rows) /\ DOMAIN rows = 1 .. n
  BY <1>4, FunctionWithDomain
<1>8. Within(Arms!FlattenSeq(rows), ArmSpace)
  BY <1>5, <1>6, <1>7, FlattenWithin
<1>9. QED
  BY <1>8 DEF Arms!RedactionArms, RatioRow, SizeRow, WaitRow, WorkloadRow, rows

AuditSpace == [sweep : DOMAIN Arms!Sweeps, ledger : Arms!ToSet(LedgerSizes)]

AuditsOf(s) == {r \in AuditSpace : r.sweep = s}

LedgerRow(s) == [l \in DOMAIN LedgerSizes |-> [sweep |-> s, ledger |-> LedgerSizes[l]]]

LEMMA LedgerRowOnce ==
  ASSUME Arms!Spreadable, NEW s \in DOMAIN Arms!Sweeps
  PROVE  Within(LedgerRow(s), AuditsOf(s))
<1>1. PICK n \in Nat : DOMAIN LedgerSizes = 1 .. n
  BY AxisOnce
<1>2. \A j, k \in 1 .. n : j # k => LedgerSizes[j] # LedgerSizes[k]
  BY <1>1, AxisOnce
<1>3. \A k \in 1 .. n : LedgerSizes[k] \in Arms!ToSet(LedgerSizes)
  BY <1>1 DEF Arms!ToSet
<1>4. PICK row : row = [l \in 1 .. n |-> [sweep |-> s, ledger |-> LedgerSizes[l]]]
  OBVIOUS
<1>5. \A k \in 1 .. n : row[k] \in AuditsOf(s) /\ row[k].ledger = LedgerSizes[k]
  BY <1>3, <1>4 DEF AuditsOf, AuditSpace
<1>6. row \in [1 .. n -> AuditsOf(s)]
  BY <1>4, <1>5
<1>7. IsSequence(row) /\ Len(row) = n
  BY <1>6, FunctionIsSequence
<1>8. OneEach(row)
  BY <1>2, <1>5, <1>7 DEF OneEach
<1>9. Within(row, AuditsOf(s))
  BY <1>5, <1>7, <1>8 DEF Within
<1>10. QED
  BY <1>1, <1>4, <1>9 DEF LedgerRow

LEMMA AuditArmsOnce ==
  ASSUME Arms!Spreadable
  PROVE  Within(Arms!AuditArms, AuditSpace)
<1> DEFINE rows == [j \in DOMAIN Arms!Sweeps |-> LedgerRow(j)]
           kinds == [j \in DOMAIN Arms!Sweeps |-> AuditsOf(j)]
<1>1. PICK n \in Nat : DOMAIN Arms!Sweeps = 1 .. n
  BY SweepsOnce, WithinLists
<1>2. \A j, k \in 1 .. n : j # k => j # k
  OBVIOUS
<1>3. \A j \in 1 .. n : rows[j] = LedgerRow(j) /\ kinds[j] = AuditsOf(j)
  BY <1>1
<1>4. rows = [j \in 1 .. n |-> rows[j]]
  BY <1>1
<1>5. ASSUME NEW j \in 1 .. n
      PROVE  Within(rows[j], kinds[j]) /\ kinds[j] \subseteq AuditSpace
  <2>1. Within(LedgerRow(j), AuditsOf(j))
    BY <1>1, LedgerRowOnce
  <2>2. AuditsOf(j) \subseteq AuditSpace
    BY DEF AuditsOf, AuditSpace
  <2>3. QED
    BY <1>3, <2>1, <2>2
<1>6. ASSUME NEW j \in 1 .. n, NEW k \in 1 .. n, j # k
      PROVE  kinds[j] \cap kinds[k] = {}
  <2>1. \A r \in kinds[j] : r.sweep = j
    BY <1>3 DEF AuditsOf
  <2>2. \A r \in kinds[k] : r.sweep = k
    BY <1>3 DEF AuditsOf
  <2>3. QED
    BY <1>2, <1>6, <2>1, <2>2
<1> HIDE DEF rows, kinds
<1>7. IsSequence(rows) /\ DOMAIN rows = 1 .. n
  BY <1>4, FunctionWithDomain
<1>8. Within(Arms!FlattenSeq(rows), AuditSpace)
  BY <1>5, <1>6, <1>7, FlattenWithin
<1>9. QED
  BY <1>8 DEF Arms!AuditArms, LedgerRow, rows

--------------------------------
(* The invariant of experiments 2 and 3 *)

Space == IF experiment = "redaction" THEN ArmSpace ELSE AuditSpace

SpreadFixed == experiment \in {"redaction", "audit"} /\ Within(arms, Space)

HostState ==
  [pc : {"next", "authorize", "redact", "prepare", "audit", "done"}, arm : Nat, index : Nat,
   setup : Arms!ToSet(Arms!Sweeps) \cup {NoSetup}, version : Versions, auths : Seq(Authorizations),
   depth : Nat, rep : Nat]

Busy(state) == state.pc \in {"authorize", "redact", "prepare", "audit"}

(* The number by which the hosts share the arms. *)
ArmIndex(p) == IF experiment = "redaction" THEN p - 1 ELSE arms[p].sweep - 1

(* A host that is busy with an arm runs it, with what is authorized now or
   a ledger that is deep as its targets say. *)
StateOK(h, state) ==
  /\ state \in HostState /\ state.arm <= Len(arms)
  /\ IF experiment = "redaction"
     THEN /\ state.pc \in {"next", "authorize", "redact", "done"}
          /\ state.index = state.arm /\ state.depth = 1
     ELSE state.pc \in {"next", "prepare", "audit", "done"} /\ state.index = 0
  /\ Busy(state) => state.arm # 0 /\ Arms!RunsArm(h, ArmIndex(state.arm))
  /\ state.pc \in {"authorize", "redact", "audit"} => state.rep \in 1 .. Repetitions
  /\ state.pc = "redact" =>
       LET arm == arms[state.arm]
       IN  state.auths =
             [k \in 1 .. arm.workload |->
                [tx |-> Traces[arm.ratio][k], version |-> state.version[Traces[arm.ratio][k]]]]
  /\ state.pc = "audit" =>
       /\ state.depth \in 1 .. Len(Depths)
       /\ \A k \in 1 .. Len(Depths) : state.version[k] = Depths[k]
       /\ state.setup = Arms!Setup(arms[state.arm])
  /\ state.pc = "done" => state.arm = Len(arms)

(* What is to be measured: every arm, in every repetition, at every depth. *)
DepthCount == IF experiment = "audit" THEN Len(Depths) ELSE 1

AllUnits == ((1 .. Len(arms)) \X (1 .. Repetitions)) \X (1 .. DepthCount)

UnitName(u) ==
  IF experiment = "redaction" THEN <<arms[u[1][1]], u[1][2]>>
  ELSE <<Arms!Setup(arms[u[1][1]]), arms[u[1][1]].ledger, Depths[u[2]], u[1][2]>>

Reached(h, state, u) ==
  /\ Arms!RunsArm(h, ArmIndex(u[1][1])) /\ u[1][1] <= state.arm
  /\ u[1][1] = state.arm /\ Busy(state) =>
       /\ state.pc # "prepare"
       /\ u[2] < state.depth \/ (u[2] = state.depth /\ u[1][2] < state.rep)

Units(h, state) == {u \in AllUnits : Reached(h, state, u)}

NamesOf(h, state) == {UnitName(u) : u \in Units(h, state)}

MeasuredList(ps) == [i \in DOMAIN ps |-> Arms!Measured(ps[i])]

Counts(h, state, ps) == IsSequence(ps) /\ Lists(MeasuredList(ps), NamesOf(h, state))

FreshPoint(p) ==
  IF experiment = "redaction"
  THEN p.executed = Arms!ToSet(SubSeq(Traces[p.arm.ratio], 1, p.arm.workload))
  ELSE p.found = p.depth

HostOK(h, state, ps) ==
  /\ StateOK(h, state) /\ Counts(h, state, ps)
  /\ \A i \in 1 .. Len(ps) : FreshPoint(ps[i])

ArmsInv ==
  /\ SpreadFixed /\ DOMAIN host = Arms!Hosts /\ DOMAIN points = Arms!Hosts
  /\ \A h \in Arms!Hosts : HostOK(h, host[h], points[h])

--------------------------------
(* The units that the hosts measure *)

LEMMA ArmsFacts ==
  ASSUME Arms!Spreadable, SpreadFixed
  PROVE  /\ Len(arms) \in Nat /\ DOMAIN arms = 1 .. Len(arms)
         /\ \A p \in 1 .. Len(arms) :
              /\ arms[p] \in Space
              /\ arms[p].sweep \in Nat \ {0} /\ arms[p].sweep \in DOMAIN Arms!Sweeps
              /\ Arms!Setup(arms[p]) \in Arms!ToSet(Arms!Sweeps)
         /\ Repetitions \in Nat \ {0} /\ Len(Depths) \in Nat \ {0}
         /\ DepthCount \in Nat \ {0}
<1>1. Len(arms) \in Nat /\ DOMAIN arms = 1 .. Len(arms)
  BY WithinLists DEF SpreadFixed
<1>2. \A p \in 1 .. Len(arms) : arms[p] \in Space
  BY DEF SpreadFixed, Within
<1>3. PICK n \in Nat : n = Len(Arms!Sweeps) /\ DOMAIN Arms!Sweeps = 1 .. n
  BY SweepsOnce, WithinLists
<1>4. \A p \in 1 .. Len(arms) : arms[p].sweep \in DOMAIN Arms!Sweeps
  BY <1>2 DEF Space, ArmSpace, AuditSpace
<1>5. Len(Depths) \in Nat /\ DOMAIN Depths = 1 .. Len(Depths) /\ Len(Depths) # 0
  <2>1. Depths \in Seq(Nat) /\ Depths # <<>>
    BY DEF Arms!Spreadable
  <2>2. QED
    BY <2>1
<1>6. Repetitions \in Nat \ {0}
  BY DEF Arms!Spreadable
<1>7. DepthCount \in Nat \ {0}
  BY <1>5 DEF DepthCount
<1>8. \A p \in 1 .. Len(arms) : arms[p].sweep \in Nat \ {0}
  BY <1>3, <1>4
<1>9. \A p \in 1 .. Len(arms) : Arms!Setup(arms[p]) \in Arms!ToSet(Arms!Sweeps)
  BY <1>4, Zenon DEF Arms!Setup, Arms!ToSet
<1>10. QED
  BY <1>1, <1>2, <1>4, <1>5, <1>6, <1>7, <1>8, <1>9

LEMMA UnitParts ==
  ASSUME NEW u \in AllUnits
  PROVE  /\ u[1][1] \in 1 .. Len(arms) /\ u[1][2] \in 1 .. Repetitions
         /\ u[2] \in 1 .. DepthCount
         /\ u = << <<u[1][1], u[1][2]>>, u[2]>>
BY DEF AllUnits

LEMMA SameParts ==
  /\ \A a, b, c, d : <<a, b>> = <<c, d>> => a = c /\ b = d
  /\ \A a, b, c, d, e, f, g, k :
       <<a, b, c, d>> = <<e, f, g, k>> => a = e /\ b = f /\ c = g /\ d = k
OBVIOUS

(* Two arms, repetitions or depths are labelled differently. *)
LEMMA UnitNameOnce ==
  ASSUME Arms!Spreadable, SpreadFixed, NEW u \in AllUnits, NEW v \in AllUnits,
         UnitName(u) = UnitName(v)
  PROVE  u = v
<1>1. PICK a \in 1 .. Len(arms), r \in 1 .. Repetitions, d \in 1 .. DepthCount :
        u[1][1] = a /\ u[1][2] = r /\ u[2] = d /\ u = << <<a, r>>, d>>
  BY UnitParts
<1>2. PICK b \in 1 .. Len(arms), s \in 1 .. Repetitions, e \in 1 .. DepthCount :
        v[1][1] = b /\ v[1][2] = s /\ v[2] = e /\ v = << <<b, s>>, e>>
  BY UnitParts
<1>3. \A p, o \in 1 .. Len(arms) : arms[p] = arms[o] => p = o
  BY DEF SpreadFixed, Within, OneEach
<1>4. a = b /\ r = s /\ d = e
  <2>1. CASE experiment = "redaction"
    <3>1. UnitName(u) = <<arms[a], r>> /\ UnitName(v) = <<arms[b], s>>
      BY <1>1, <1>2, <2>1 DEF UnitName
    <3>2. arms[a] = arms[b] /\ r = s
      <4>1. <<arms[a], r>> = <<arms[b], s>>
        BY <3>1, Zenon
      <4>2. QED
        BY <4>1, SameParts, Zenon
    <3>3. DepthCount = 1
      BY <2>1 DEF DepthCount
    <3>4. QED
      BY <1>3, <3>2, <3>3
  <2>2. CASE experiment # "redaction"
    <3>1. /\ UnitName(u) = <<Arms!Setup(arms[a]), arms[a].ledger, Depths[d], r>>
          /\ UnitName(v) = <<Arms!Setup(arms[b]), arms[b].ledger, Depths[e], s>>
      BY <1>1, <1>2, <2>2 DEF UnitName
    <3>2. /\ Arms!Setup(arms[a]) = Arms!Setup(arms[b]) /\ arms[a].ledger = arms[b].ledger
          /\ Depths[d] = Depths[e] /\ r = s
      <4>1. <<Arms!Setup(arms[a]), arms[a].ledger, Depths[d], r>>
              = <<Arms!Setup(arms[b]), arms[b].ledger, Depths[e], s>>
        BY <3>1, Zenon
      <4>2. QED
        BY <4>1, SameParts, Zenon
    <3>3. DepthCount = Len(Depths)
      BY <2>2 DEF DepthCount, SpreadFixed
    <3>4. arms[a] \in AuditSpace /\ arms[b] \in AuditSpace
      BY <2>2, ArmsFacts DEF Space
    <3>5. arms[a].sweep = arms[b].sweep
      <4>1. arms[a].sweep \in DOMAIN Arms!Sweeps /\ arms[b].sweep \in DOMAIN Arms!Sweeps
        BY <3>4 DEF AuditSpace
      <4>2. Arms!Sweeps[arms[a].sweep] = Arms!Sweeps[arms[b].sweep]
        BY <3>2 DEF Arms!Setup
      <4>3. OneEach(Arms!Sweeps) /\ DOMAIN Arms!Sweeps = 1 .. Len(Arms!Sweeps)
        BY SweepsOnce, WithinLists DEF Within
      <4>4. QED
        BY <4>1, <4>2, <4>3 DEF OneEach
    <3>6. arms[a] = arms[b]
      BY <3>2, <3>4, <3>5 DEF AuditSpace
    <3>7. d = e
      <4>1. Arms!IsInjective(Depths) /\ DOMAIN Depths = 1 .. Len(Depths)
        BY TargetsAre DEF Arms!Spreadable
      <4>2. QED
        BY <3>2, <3>3, <4>1 DEF Arms!IsInjective
    <3>8. QED
      BY <1>3, <3>2, <3>6, <3>7
  <2>3. QED
    BY <2>1, <2>2
<1>5. QED
  BY <1>1, <1>2, <1>4

LEMMA MeasuredMore ==
  ASSUME NEW ps, IsSequence(ps), NEW x
  PROVE  /\ IsSequence(Append(ps, x)) /\ Len(Append(ps, x)) = Len(ps) + 1
         /\ \A i \in 1 .. Len(ps) : Append(ps, x)[i] = ps[i]
         /\ Append(ps, x)[Len(ps) + 1] = x
         /\ IsSequence(MeasuredList(ps))
         /\ MeasuredList(Append(ps, x)) = Append(MeasuredList(ps), Arms!Measured(x))
<1>1. PICK T : ps \in Seq(T)
  BY DEF IsSequence
<1>2. ps \in Seq(T \cup {x}) /\ x \in T \cup {x}
  BY <1>1, SeqMonotonic
<1>3. PICK n \in Nat : n = Len(ps) /\ DOMAIN ps = 1 .. n
  BY <1>1
<1>4. PICK t : t = Append(ps, x)
  OBVIOUS
<1>5. /\ t \in Seq(T \cup {x}) /\ Len(t) = n + 1 /\ DOMAIN t = 1 .. n + 1
      /\ \A p \in 1 .. n : t[p] = ps[p]
      /\ t[n + 1] = x
  BY <1>2, <1>3, <1>4, AppendProperties
<1> DEFINE M == {Arms!Measured(y) : y \in T \cup {x}}
<1>6. PICK a : a = MeasuredList(ps)
  OBVIOUS
<1>7. a = [i \in 1 .. n |-> Arms!Measured(ps[i])]
  BY <1>3, <1>6, Zenon DEF MeasuredList
<1>8. \A i \in 1 .. n : Arms!Measured(ps[i]) \in M
  <2>1. \A i \in 1 .. n : ps[i] \in T \cup {x}
    BY <1>2, <1>3
  <2>2. QED
    BY <2>1, Zenon
<1>9. Arms!Measured(x) \in M
  BY <1>2, Zenon
<1> HIDE DEF M
<1>10. a \in Seq(M) /\ Len(a) = n /\ \A i \in 1 .. n : a[i] = Arms!Measured(ps[i])
  <2>1. a \in [1 .. n -> M] /\ \A i \in 1 .. n : a[i] = Arms!Measured(ps[i])
    BY <1>7, <1>8
  <2>2. IsSequence(a) /\ Len(a) = n
    BY <2>1, <1>3, FunctionIsSequence
  <2>3. QED
    BY <2>1, <2>2, <1>3, IsASeq
<1>11. PICK b : b = Append(a, Arms!Measured(x))
  OBVIOUS
<1>12. /\ b \in Seq(M) /\ Len(b) = n + 1
       /\ \A i \in 1 .. n : b[i] = a[i]
       /\ b[n + 1] = Arms!Measured(x)
  BY <1>9, <1>10, <1>11, AppendProperties
<1>13. b = [i \in 1 .. n + 1 |-> b[i]]
  BY <1>12
<1>14. \A i \in 1 .. n + 1 : b[i] = Arms!Measured(t[i])
  <2>1. \A i \in 1 .. n + 1 : i \in 1 .. n \/ i = n + 1
    BY <1>3
  <2>2. \A i \in 1 .. n : b[i] = Arms!Measured(t[i])
    BY <1>5, <1>10, <1>12, Zenon
  <2>3. b[n + 1] = Arms!Measured(t[n + 1])
    BY <1>5, <1>12, Zenon
  <2>4. QED
    BY <2>1, <2>2, <2>3, Zenon
<1>15. MeasuredList(t) = [i \in 1 .. n + 1 |-> Arms!Measured(t[i])]
  BY <1>5, Zenon DEF MeasuredList
<1>16. MeasuredList(t) = b
  <2>1. [i \in 1 .. n + 1 |-> Arms!Measured(t[i])] = [i \in 1 .. n + 1 |-> b[i]]
    BY <1>14, Zenon
  <2>2. QED
    BY <1>13, <1>15, <2>1, Zenon
<1>17. IsSequence(t) /\ IsSequence(a)
  BY <1>5, <1>10 DEF IsSequence
<1>18. QED
  BY <1>3, <1>4, <1>5, <1>6, <1>11, <1>16, <1>17

(* A new unit is measured, or none. *)
LEMMA Counted ==
  ASSUME Arms!Spreadable, SpreadFixed, NEW h, NEW before, NEW after, NEW ps, NEW point,
         Counts(h, before, ps), NEW u \in AllUnits, ~Reached(h, before, u),
         \A v \in AllUnits : Reached(h, after, v) <=> Reached(h, before, v) \/ v = u,
         Arms!Measured(point) = UnitName(u)
  PROVE  Counts(h, after, Append(ps, point))
<1>1. IsSequence(ps) /\ Lists(MeasuredList(ps), NamesOf(h, before))
  BY DEF Counts
<1>2. Units(h, after) = Units(h, before) \cup {u}
  BY DEF Units
<1>3. NamesOf(h, after) = NamesOf(h, before) \cup {Arms!Measured(point)}
  BY <1>2 DEF NamesOf
<1>4. Arms!Measured(point) \notin NamesOf(h, before)
  <2> SUFFICES ASSUME Arms!Measured(point) \in NamesOf(h, before) PROVE FALSE
    OBVIOUS
  <2>1. PICK v \in Units(h, before) : UnitName(v) = UnitName(u)
    BY DEF NamesOf
  <2>2. v \in AllUnits /\ Reached(h, before, v)
    BY DEF Units
  <2>3. QED
    BY <2>1, <2>2, UnitNameOnce
<1>5. PICK m, S : m = MeasuredList(ps) /\ S = NamesOf(h, before)
  OBVIOUS
<1>6. Lists(m, S) /\ Arms!Measured(point) \notin S
  BY <1>1, <1>4, <1>5
<1>7. Lists(Append(m, Arms!Measured(point)), S \cup {Arms!Measured(point)})
  BY <1>6, ListsMore
<1>8. IsSequence(Append(ps, point)) /\ MeasuredList(Append(ps, point)) = Append(m, Arms!Measured(point))
  BY <1>1, <1>5, MeasuredMore
<1>9. QED
  BY <1>3, <1>5, <1>7, <1>8 DEF Counts

LEMMA NoneCounted ==
  ASSUME NEW h, NEW before, NEW after, NEW ps, Counts(h, before, ps),
         \A v \in AllUnits : Reached(h, after, v) <=> Reached(h, before, v)
  PROVE  Counts(h, after, ps)
<1>1. Units(h, after) = Units(h, before)
  BY DEF Units
<1>2. QED
  BY <1>1 DEF Counts, NamesOf

LEMMA TraceTargets ==
  ASSUME Arms!Spreadable, NEW i \in DOMAIN Traces, NEW n \in Nat, n <= Len(Traces[i])
  PROVE  /\ \A k \in 1 .. n : Traces[i][k] \in Arms!Txs
         /\ Traces[i] \in Seq(Arms!ToSet(Traces[i]))
<1>1. Traces[i] \in Arms!ToSet(Traces)
  BY Zenon DEF Arms!ToSet
<1>2. PICK trace : trace = Traces[i]
  OBVIOUS
<1>3. trace \in Seq(Arms!ToSet(trace))
  BY <1>1, <1>2 DEF Arms!Spreadable
<1>4. \A k \in 1 .. n : trace[k] \in Arms!ToSet(trace)
  BY <1>2, <1>3
<1>5. \A tx \in Arms!ToSet(trace) : tx \in Arms!Txs
  BY <1>2, Zenon DEF Arms!Txs
<1>6. QED
  BY <1>2, <1>3, <1>4, <1>5

--------------------------------
(* Every action keeps the invariant of its host *)

(* The other hosts and the sweep stay as they are. *)
Aside(h) ==
  /\ UNCHANGED <<experiment, arms>>
  /\ DOMAIN host' = Arms!Hosts /\ DOMAIN points' = Arms!Hosts
  /\ \A o \in Arms!Hosts \ {h} : host'[o] = host[o] /\ points'[o] = points[o]

LEMMA HostFacts ==
  ASSUME Arms!Spreadable, ArmsInv, NEW h \in Arms!Hosts
  PROVE  /\ host[h] \in HostState /\ host[h].arm <= Len(arms)
         /\ StateOK(h, host[h]) /\ Counts(h, host[h], points[h])
         /\ \A i \in 1 .. Len(points[h]) : FreshPoint(points[h][i])
         /\ experiment \in {"redaction", "audit"}
BY Zenon DEF ArmsInv, HostOK, StateOK, SpreadFixed

LEMMA Moved ==
  ASSUME ArmsInv, NEW h \in Arms!Hosts, NEW state, Arms!Move(h, state), UNCHANGED <<experiment, arms, points>>
  PROVE  Aside(h) /\ host'[h] = state /\ points'[h] = points[h]
BY DEF ArmsInv, Arms!Move, Aside

LEMMA MovedMeasured ==
  ASSUME ArmsInv, NEW h \in Arms!Hosts, NEW state, NEW point, Arms!Move(h, state),
         points' = Arms!Measure(h, point), UNCHANGED <<experiment, arms>>
  PROVE  Aside(h) /\ host'[h] = state /\ points'[h] = Append(points[h], point)
BY DEF ArmsInv, Arms!Move, Arms!Measure, Aside

LEMMA FreshMore ==
  ASSUME NEW ps, IsSequence(ps), \A i \in 1 .. Len(ps) : FreshPoint(ps[i]),
         NEW point, FreshPoint(point)
  PROVE  \A i \in 1 .. Len(Append(ps, point)) : FreshPoint(Append(ps, point)[i])
<1>1. PICK n \in Nat : n = Len(ps)
  BY SequenceFacts
<1>2. PICK t : t = Append(ps, point)
  OBVIOUS
<1>3. Len(t) = n + 1 /\ (\A i \in 1 .. n : t[i] = ps[i]) /\ t[n + 1] = point
  BY <1>1, <1>2, MeasuredMore
<1>4. ASSUME NEW i \in 1 .. n + 1
      PROVE  FreshPoint(t[i])
  <2>1. CASE i \in 1 .. n
    BY <2>1, <1>1, <1>3, Zenon
  <2>2. CASE i = n + 1
    BY <2>2, <1>3, Zenon
  <2>3. QED
    BY <2>1, <2>2, <1>1
<1>5. QED
  BY <1>2, <1>3, <1>4

LEMMA KeepsNextRedactionArm ==
  ASSUME Arms!Spreadable, ArmsInv, NEW h \in Arms!Hosts, Arms!NextRedactionArm(h)
  PROVE  Aside(h) /\ HostOK(h, host'[h], points'[h])
<1> DEFINE old == host[h]
           arm == arms[old.arm + 1]
           renewed == Arms!Setup(arm) # NoSetup /\ Arms!Setup(arm) # old.setup
           runs == Arms!RunsArm(h, old.index)
           new == [old EXCEPT
                     !.arm = @ + 1,
                     !.index = Arms!NextIndex(@, runs),
                     !.setup = Arms!Setup(arm),
                     !.version = IF renewed THEN Arms!Fresh ELSE @,
                     !.auths = IF renewed THEN <<>> ELSE @,
                     !.pc = IF runs THEN "authorize" ELSE "next",
                     !.rep = 1]
<1>1. /\ experiment = "redaction" /\ old.pc = "next" /\ old.arm < Len(arms)
      /\ Arms!Move(h, new) /\ UNCHANGED <<experiment, arms, points>>
  BY Zenon DEF Arms!NextRedactionArm
<1>2. Aside(h) /\ host'[h] = new /\ points'[h] = points[h]
  <2>1. PICK state : state = new
    OBVIOUS
  <2>2. QED
    BY <1>1, <2>1, Moved, Zenon
<1>3. old \in HostState /\ StateOK(h, old)
  BY HostFacts
<1>4. PICK a \in Nat : a = old.arm /\ a < Len(arms) /\ a + 1 \in 1 .. Len(arms)
  BY <1>1, <1>3, ArmsFacts DEF HostState, ArmsInv
<1>5. old.index = a /\ old.depth = 1
  BY <1>1, <1>3, <1>4 DEF StateOK
<1>6. PICK pc \in {"authorize", "next"} : pc = IF runs THEN "authorize" ELSE "next"
  OBVIOUS
<1>7. PICK vs \in Versions : vs = IF renewed THEN Arms!Fresh ELSE old.version
  BY <1>3, FreshTyped DEF HostState
<1>8. PICK auths \in Seq(Authorizations) : auths = IF renewed THEN <<>> ELSE old.auths
  <2>1. old.auths \in Seq(Authorizations)
    BY <1>3 DEF HostState
  <2> HIDE DEF new, old, renewed
  <2>2. <<>> \in Seq(Authorizations)
    OBVIOUS
  <2>3. QED
    BY <2>1, <2>2
<1>9. PICK setup \in Arms!ToSet(Arms!Sweeps) : setup = Arms!Setup(arm)
  BY <1>4, ArmsFacts DEF ArmsInv
<1>10. PICK s : s = new
  OBVIOUS
<1>11. s = [old EXCEPT !.arm = a + 1, !.index = a + 1, !.setup = setup, !.version = vs,
                       !.auths = auths, !.pc = pc, !.rep = 1]
  BY <1>4, <1>5, <1>6, <1>7, <1>8, <1>9, <1>10 DEF Arms!NextIndex
<1> HIDE DEF new, renewed
<1>12. /\ s \in HostState
       /\ s.arm = a + 1 /\ s.index = a + 1 /\ s.pc = pc /\ s.rep = 1 /\ s.depth = 1
  <2>1. PICK mid : mid = [old EXCEPT !.arm = a + 1, !.index = a + 1, !.setup = setup]
    OBVIOUS
  <2>2. mid \in HostState
    <3>1. a + 1 \in Nat /\ setup \in Arms!ToSet(Arms!Sweeps) \cup {NoSetup}
      OBVIOUS
    <3>2. QED
      BY <1>3, <2>1, <3>1 DEF HostState
  <2>3. s = [mid EXCEPT !.version = vs, !.auths = auths, !.pc = pc, !.rep = 1]
    BY <1>11, <2>1
  <2>4. pc \in {"next", "authorize", "redact", "prepare", "audit", "done"} /\ 1 \in Nat
    OBVIOUS
  <2>5. s \in HostState
    BY <2>2, <2>3, <2>4 DEF HostState
  <2>6. s.arm = a + 1 /\ s.index = a + 1 /\ s.pc = pc /\ s.rep = 1 /\ s.depth = 1
    BY <1>3, <1>5, <1>11 DEF HostState
  <2>7. QED
    BY <2>5, <2>6
<1>13. ArmIndex(a + 1) = a
  BY <1>1 DEF ArmIndex
<1>14. pc = "authorize" => Arms!RunsArm(h, ArmIndex(a + 1))
  BY <1>4, <1>5, <1>6, <1>13
<1>15. pc = "next" => ~Arms!RunsArm(h, ArmIndex(a + 1))
  BY <1>4, <1>5, <1>6, <1>13
<1>16. StateOK(h, s)
  <2>1. s.arm # 0 /\ s.arm <= Len(arms) /\ s.rep \in 1 .. Repetitions
    BY <1>4, <1>12, ArmsFacts DEF ArmsInv
  <2>2. s.pc \in {"authorize", "next"}
    BY <1>6, <1>12
  <2>3. Busy(s) => s.arm # 0 /\ Arms!RunsArm(h, ArmIndex(s.arm))
    <3>1. Busy(s) => s.pc = "authorize"
      BY <2>2 DEF Busy
    <3>2. QED
      BY <1>12, <1>14, <2>1, <3>1, Zenon
  <2>4. s.index = s.arm /\ s.depth = 1
    BY <1>12
  <2>5. s.pc # "redact" /\ s.pc # "audit" /\ s.pc # "done"
    BY <2>2
  <2>6. QED
    BY <1>1, <1>12, <2>1, <2>2, <2>3, <2>4, <2>5 DEF StateOK
<1>17. \A u \in AllUnits : Reached(h, s, u) <=> Reached(h, old, u)
  <2> SUFFICES ASSUME NEW u \in AllUnits
               PROVE  Reached(h, s, u) <=> Reached(h, old, u)
    OBVIOUS
  <2>1. PICK b \in 1 .. Len(arms), r \in 1 .. Repetitions, d \in 1 .. DepthCount :
          u[1][1] = b /\ u[1][2] = r /\ u[2] = d
    BY UnitParts
  <2>2. Reached(h, old, u) <=> Arms!RunsArm(h, ArmIndex(b)) /\ b <= a
    BY <1>1, <1>4, <2>1 DEF Reached, Busy
  <2>3. b \in Nat /\ d \in Nat /\ r \in Nat /\ d >= 1 /\ r >= 1
    BY <2>1, ArmsFacts DEF ArmsInv
  <2>4. CASE pc = "next"
    <3>1. Reached(h, s, u) <=> Arms!RunsArm(h, ArmIndex(b)) /\ b <= a + 1
      BY <1>12, <2>1, <2>4 DEF Reached, Busy
    <3>2. Arms!RunsArm(h, ArmIndex(b)) => b # a + 1
      BY <1>15, <2>4
    <3>3. QED
      BY <1>4, <2>2, <2>3, <3>1, <3>2
  <2>5. CASE pc = "authorize"
    <3>1. Reached(h, s, u) <=>
            Arms!RunsArm(h, ArmIndex(b)) /\ b <= a + 1 /\ (b = a + 1 => d < 1 \/ (d = 1 /\ r < 1))
      BY <1>12, <2>1, <2>5 DEF Reached, Busy
    <3>2. QED
      BY <1>4, <2>2, <2>3, <3>1
  <2>6. QED
    BY <2>4, <2>5
<1>18. Counts(h, s, points[h])
  BY <1>17, HostFacts, NoneCounted
<1>19. QED
  BY <1>2, <1>10, <1>16, <1>18, HostFacts DEF HostOK

LEMMA KeepsAuthorizeAll ==
  ASSUME Arms!Spreadable, ArmsInv, NEW h \in Arms!Hosts, Arms!AuthorizeAll(h)
  PROVE  Aside(h) /\ HostOK(h, host'[h], points'[h])
<1> DEFINE old == host[h]
           new == [old EXCEPT !.pc = "redact", !.auths = Arms!Pass(h)]
<1>1. /\ old.pc = "authorize" /\ Arms!Move(h, new) /\ UNCHANGED <<experiment, arms, points>>
  BY Zenon DEF Arms!AuthorizeAll
<1>2. Aside(h) /\ host'[h] = new /\ points'[h] = points[h]
  <2>1. PICK state : state = new
    OBVIOUS
  <2>2. QED
    BY <1>1, <2>1, Moved, Zenon
<1>3. old \in HostState /\ StateOK(h, old)
  BY HostFacts
<1>4. experiment = "redaction"
  BY <1>1, <1>3, HostFacts DEF StateOK
<1>5. Busy(old) /\ old.arm \in 1 .. Len(arms) /\ Arms!RunsArm(h, ArmIndex(old.arm))
  <2>1. Busy(old)
    BY <1>1 DEF Busy
  <2>2. old.arm \in Nat /\ old.arm # 0 /\ old.arm <= Len(arms) /\ Arms!RunsArm(h, ArmIndex(old.arm))
    BY <1>3, <2>1 DEF StateOK, HostState
  <2>3. QED
    BY <2>1, <2>2, ArmsFacts DEF ArmsInv
<1>6. PICK arm \in ArmSpace : arm = arms[old.arm]
  BY <1>4, <1>5, ArmsFacts DEF Space, ArmsInv
<1>7. PICK n \in Nat : n = arm.workload /\ n <= Len(Traces[arm.ratio]) /\ arm.ratio \in DOMAIN Traces
  BY DEF ArmSpace
<1>8. PICK trace : trace = Traces[arm.ratio] /\ \A k \in 1 .. n : trace[k] \in Arms!Txs
  BY <1>7, TraceTargets
<1>9. PICK vs \in Versions : vs = old.version
  BY <1>3 DEF HostState
<1>10. Arms!Pass(h) = [k \in 1 .. n |-> [tx |-> trace[k], version |-> vs[trace[k]]]]
  BY <1>6, <1>7, <1>8, <1>9, Zenon DEF Arms!Pass, Arms!Authorized, Arms!Arm
<1>11. PICK auths : auths = Arms!Pass(h)
  OBVIOUS
<1>12. auths \in Seq(Authorizations)
  <2>1. \A k \in 1 .. n : [tx |-> trace[k], version |-> vs[trace[k]]] \in Authorizations
    BY <1>8 DEF Authorizations, Versions
  <2>2. auths \in [1 .. n -> Authorizations]
    BY <1>10, <1>11, <2>1
  <2>3. QED
    BY <2>2, IsASeq
<1>13. PICK s : s = new
  OBVIOUS
<1> HIDE DEF old
<1>14. s = [old EXCEPT !.pc = "redact", !.auths = auths]
  BY <1>11, <1>13
<1> HIDE DEF new
<1>15. /\ s \in HostState
       /\ s.arm = old.arm /\ s.index = old.index /\ s.pc = "redact" /\ s.rep = old.rep
       /\ s.depth = old.depth /\ s.auths = auths /\ s.version = old.version
  BY <1>3, <1>12, <1>14 DEF HostState
<1>16. StateOK(h, s)
  <2>1. s.arm <= Len(arms) /\ s.arm # 0 /\ Arms!RunsArm(h, ArmIndex(s.arm))
    BY <1>3, <1>5, <1>15 DEF StateOK
  <2>2. s.index = s.arm /\ s.depth = 1 /\ s.rep \in 1 .. Repetitions
    BY <1>1, <1>3, <1>4, <1>15 DEF StateOK
  <2>3. s.auths = [k \in 1 .. arms[s.arm].workload |->
                     [tx |-> Traces[arms[s.arm].ratio][k],
                      version |-> s.version[Traces[arms[s.arm].ratio][k]]]]
    BY <1>6, <1>7, <1>8, <1>9, <1>10, <1>11, <1>15, Zenon
  <2>4. QED
    BY <1>4, <1>15, <2>1, <2>2, <2>3 DEF StateOK
<1>17. \A u \in AllUnits : Reached(h, s, u) <=> Reached(h, old, u)
  BY <1>1, <1>15 DEF Reached, Busy
<1>18. Counts(h, s, points[h])
  BY <1>17, HostFacts, NoneCounted DEF old
<1>19. QED
  BY <1>2, <1>13, <1>16, <1>18, HostFacts DEF HostOK

LEMMA KeepsNextAuditArm ==
  ASSUME Arms!Spreadable, ArmsInv, NEW h \in Arms!Hosts, Arms!NextAuditArm(h)
  PROVE  Aside(h) /\ HostOK(h, host'[h], points'[h])
<1> DEFINE old == host[h]
           runs == Arms!RunsArm(h, arms[old.arm + 1].sweep - 1)
           new == [old EXCEPT !.arm = @ + 1, !.pc = IF runs THEN "prepare" ELSE "next"]
<1>1. /\ experiment = "audit" /\ old.pc = "next" /\ old.arm < Len(arms)
      /\ Arms!Move(h, new) /\ UNCHANGED <<experiment, arms, points>>
  BY Zenon DEF Arms!NextAuditArm
<1>2. Aside(h) /\ host'[h] = new /\ points'[h] = points[h]
  <2>1. PICK state : state = new
    OBVIOUS
  <2>2. QED
    BY <1>1, <2>1, Moved, Zenon
<1>3. old \in HostState /\ StateOK(h, old)
  BY HostFacts
<1>4. PICK a \in Nat : a = old.arm /\ a < Len(arms) /\ a + 1 \in 1 .. Len(arms)
  BY <1>1, <1>3, ArmsFacts DEF HostState, ArmsInv
<1>5. PICK pc \in {"prepare", "next"} : pc = IF runs THEN "prepare" ELSE "next"
  OBVIOUS
<1>6. PICK s : s = new
  OBVIOUS
<1>7. s = [old EXCEPT !.arm = a + 1, !.pc = pc]
  BY <1>4, <1>5, <1>6
<1>8. ArmIndex(a + 1) = arms[a + 1].sweep - 1
  BY <1>1 DEF ArmIndex
<1>9. /\ pc = "prepare" => Arms!RunsArm(h, ArmIndex(a + 1))
      /\ pc = "next" => ~Arms!RunsArm(h, ArmIndex(a + 1))
  BY <1>4, <1>5, <1>8
<1> HIDE DEF new, runs, old
<1>10. /\ s \in HostState /\ s.arm = a + 1 /\ s.index = old.index /\ s.pc = pc
  <2>1. a + 1 \in Nat /\ pc \in {"next", "authorize", "redact", "prepare", "audit", "done"}
    OBVIOUS
  <2>2. s \in HostState
    BY <1>3, <1>7, <2>1 DEF HostState
  <2>3. s.arm = a + 1 /\ s.index = old.index /\ s.pc = pc
    BY <1>3, <1>7 DEF HostState
  <2>4. QED
    BY <2>2, <2>3
<1>11. StateOK(h, s)
  <2>1. s.index = 0
    BY <1>1, <1>3, <1>10 DEF StateOK
  <2>2. s.arm <= Len(arms) /\ s.arm # 0
    BY <1>4, <1>10
  <2>3. QED
    BY <1>1, <1>9, <1>10, <2>1, <2>2 DEF StateOK, Busy
<1>12. \A u \in AllUnits : Reached(h, s, u) <=> Reached(h, old, u)
  <2> SUFFICES ASSUME NEW u \in AllUnits
               PROVE  Reached(h, s, u) <=> Reached(h, old, u)
    OBVIOUS
  <2>1. PICK b \in 1 .. Len(arms) : u[1][1] = b
    BY UnitParts
  <2>2. Reached(h, old, u) <=> Arms!RunsArm(h, ArmIndex(b)) /\ b <= a
    BY <1>1, <1>4, <2>1 DEF Reached, Busy, old
  <2>3. b \in Nat
    BY <2>1, ArmsFacts DEF ArmsInv
  <2>4. CASE pc = "next"
    <3>1. Reached(h, s, u) <=> Arms!RunsArm(h, ArmIndex(b)) /\ b <= a + 1
      BY <1>10, <2>1, <2>4 DEF Reached, Busy
    <3>2. Arms!RunsArm(h, ArmIndex(b)) => b # a + 1
      BY <1>9, <2>4
    <3>3. QED
      BY <1>4, <2>2, <2>3, <3>1, <3>2
  <2>5. CASE pc = "prepare"
    <3>1. Reached(h, s, u) <=> Arms!RunsArm(h, ArmIndex(b)) /\ b <= a + 1 /\ b # a + 1
      BY <1>10, <2>1, <2>5 DEF Reached, Busy
    <3>2. QED
      BY <1>4, <2>2, <2>3, <3>1
  <2>6. QED
    BY <2>4, <2>5
<1>13. Counts(h, s, points[h])
  BY <1>12, HostFacts, NoneCounted DEF old
<1>14. QED
  BY <1>2, <1>6, <1>11, <1>13, HostFacts DEF HostOK

LEMMA KeepsFinish ==
  ASSUME Arms!Spreadable, ArmsInv, NEW h \in Arms!Hosts, Arms!Finish(h)
  PROVE  Aside(h) /\ HostOK(h, host'[h], points'[h])
<1> DEFINE old == host[h]
           new == [old EXCEPT !.pc = "done"]
<1>1. /\ old.pc = "next" /\ old.arm = Len(arms)
      /\ Arms!Move(h, new) /\ UNCHANGED <<experiment, arms, points>>
  BY Zenon DEF Arms!Finish
<1>2. Aside(h) /\ host'[h] = new /\ points'[h] = points[h]
  <2>1. PICK state : state = new
    OBVIOUS
  <2>2. QED
    BY <1>1, <2>1, Moved, Zenon
<1>3. old \in HostState /\ StateOK(h, old)
  BY HostFacts
<1>4. PICK s : s = new
  OBVIOUS
<1> HIDE DEF old
<1>5. /\ s \in HostState /\ s.arm = old.arm /\ s.index = old.index /\ s.pc = "done"
      /\ s.depth = old.depth
  BY <1>3, <1>4 DEF HostState
<1> HIDE DEF new
<1>6. StateOK(h, s)
  BY <1>1, <1>3, <1>5 DEF StateOK, Busy
<1>7. \A u \in AllUnits : Reached(h, s, u) <=> Reached(h, old, u)
  BY <1>1, <1>5 DEF Reached, Busy
<1>8. Counts(h, s, points[h])
  BY <1>7, HostFacts, NoneCounted DEF old
<1>9. QED
  BY <1>2, <1>4, <1>6, <1>8, HostFacts DEF HostOK

LEMMA KeepsPrepare ==
  ASSUME Arms!Spreadable, ArmsInv, NEW h \in Arms!Hosts, Arms!Prepare(h)
  PROVE  Aside(h) /\ HostOK(h, host'[h], points'[h])
<1> DEFINE old == host[h]
           new == [old EXCEPT !.setup = Arms!Setup(Arms!Arm(h)), !.version = Arms!Deepened, !.pc = "audit",
                              !.depth = 1, !.rep = 1]
<1>1. /\ old.pc = "prepare" /\ Arms!Move(h, new) /\ UNCHANGED <<experiment, arms, points>>
  BY Zenon DEF Arms!Prepare
<1>2. Aside(h) /\ host'[h] = new /\ points'[h] = points[h]
  <2>1. PICK state : state = new
    OBVIOUS
  <2>2. QED
    BY <1>1, <2>1, Moved, Zenon
<1>3. old \in HostState /\ StateOK(h, old)
  BY HostFacts
<1>4. experiment = "audit"
  BY <1>1, <1>3, HostFacts DEF StateOK
<1>5. Busy(old) /\ old.arm \in 1 .. Len(arms) /\ Arms!RunsArm(h, ArmIndex(old.arm))
  <2>1. Busy(old)
    BY <1>1 DEF Busy
  <2>2. old.arm \in Nat /\ old.arm # 0 /\ old.arm <= Len(arms) /\ Arms!RunsArm(h, ArmIndex(old.arm))
    BY <1>3, <2>1 DEF StateOK, HostState
  <2>3. QED
    BY <2>1, <2>2, ArmsFacts DEF ArmsInv
<1>6. PICK setup \in Arms!ToSet(Arms!Sweeps) : setup = Arms!Setup(arms[old.arm])
  BY <1>5, ArmsFacts DEF ArmsInv
<1>7. Arms!Setup(Arms!Arm(h)) = setup
  BY <1>6, Zenon DEF Arms!Arm
<1>8. PICK vs \in Versions : vs = Arms!Deepened /\ \A k \in 1 .. Len(Depths) : vs[k] = Depths[k]
  BY DeepenedIs
<1>9. PICK s : s = new
  OBVIOUS
<1> HIDE DEF old
<1>10. s = [old EXCEPT !.setup = setup, !.version = vs, !.pc = "audit", !.depth = 1, !.rep = 1]
  BY <1>7, <1>8, <1>9
<1> HIDE DEF new
<1>11. s \in HostState
  <2>1. PICK mid : mid = [old EXCEPT !.setup = setup, !.version = vs]
    OBVIOUS
  <2>2. mid \in HostState
    BY <1>3, <2>1 DEF HostState
  <2>3. s = [mid EXCEPT !.pc = "audit", !.depth = 1, !.rep = 1]
    BY <1>10, <2>1
  <2>4. QED
    BY <2>2, <2>3 DEF HostState
<1>12. /\ s.arm = old.arm /\ s.index = old.index /\ s.pc = "audit" /\ s.setup = setup
       /\ s.version = vs /\ s.depth = 1 /\ s.rep = 1
  BY <1>3, <1>10 DEF HostState
<1>13. StateOK(h, s)
  <2>1. s.arm <= Len(arms) /\ s.arm # 0 /\ Arms!RunsArm(h, ArmIndex(s.arm)) /\ s.index = 0
    BY <1>3, <1>4, <1>5, <1>12 DEF StateOK
  <2>2. s.depth \in 1 .. Len(Depths) /\ s.rep \in 1 .. Repetitions
    BY <1>12, ArmsFacts DEF ArmsInv
  <2>3. \A k \in 1 .. Len(Depths) : s.version[k] = Depths[k]
    BY <1>8, <1>12
  <2>4. s.setup = Arms!Setup(arms[s.arm])
    BY <1>6, <1>12
  <2>5. QED
    BY <1>4, <1>11, <1>12, <2>1, <2>2, <2>3, <2>4 DEF StateOK
<1>14. \A u \in AllUnits : Reached(h, s, u) <=> Reached(h, old, u)
  <2> SUFFICES ASSUME NEW u \in AllUnits
               PROVE  Reached(h, s, u) <=> Reached(h, old, u)
    OBVIOUS
  <2>1. PICK b \in 1 .. Len(arms), r \in 1 .. Repetitions, d \in 1 .. DepthCount :
          u[1][1] = b /\ u[1][2] = r /\ u[2] = d
    BY UnitParts
  <2>2. Reached(h, old, u) <=> Arms!RunsArm(h, ArmIndex(b)) /\ b <= old.arm /\ b # old.arm
    BY <1>1, <2>1 DEF Reached, Busy
  <2>3. Reached(h, s, u) <=> /\ Arms!RunsArm(h, ArmIndex(b)) /\ b <= old.arm
                             /\ b = old.arm => d < 1 \/ (d = 1 /\ r < 1)
    BY <1>12, <2>1 DEF Reached, Busy
  <2>4. d \in Nat /\ d >= 1 /\ r \in Nat /\ r >= 1
    BY <2>1, ArmsFacts DEF ArmsInv
  <2>5. QED
    BY <2>2, <2>3, <2>4
<1>15. Counts(h, s, points[h])
  BY <1>14, HostFacts, NoneCounted DEF old
<1>16. QED
  BY <1>2, <1>9, <1>13, <1>15, HostFacts DEF HostOK

(* The repetition that ends is the one that was measured. *)
LEMMA RepeatIs ==
  ASSUME Arms!Spreadable, NEW state \in HostState, NEW again \in {"authorize", "audit"}, NEW s,
         s = Arms!Repeat(state, again), state.rep \in 1 .. Repetitions
  PROVE  /\ s \in HostState
         /\ s.arm = state.arm /\ s.index = state.index /\ s.setup = state.setup
         /\ s.version = state.version /\ s.auths = state.auths /\ s.depth = state.depth
         /\ \/ s.pc = again /\ s.rep = state.rep + 1 /\ s.rep \in 1 .. Repetitions
            \/ s.pc = "next" /\ s.rep = state.rep /\ state.rep = Repetitions
<1>1. Repetitions \in Nat /\ state.rep + 1 \in Nat
  BY DEF Arms!Spreadable
<1>2. CASE state.rep < Repetitions
  <2>1. s = [state EXCEPT !.pc = again, !.rep = state.rep + 1]
    BY <1>2 DEF Arms!Repeat
  <2>2. s \in HostState
    BY <1>1, <2>1 DEF HostState
  <2>3. /\ s.arm = state.arm /\ s.index = state.index /\ s.setup = state.setup
        /\ s.version = state.version /\ s.auths = state.auths /\ s.depth = state.depth
        /\ s.pc = again /\ s.rep = state.rep + 1
    BY <2>1 DEF HostState
  <2>4. QED
    BY <1>1, <1>2, <2>2, <2>3
<1>3. CASE ~(state.rep < Repetitions)
  <2>1. s = [state EXCEPT !.pc = "next"]
    BY <1>3 DEF Arms!Repeat
  <2>2. s \in HostState
    BY <2>1 DEF HostState
  <2>3. /\ s.arm = state.arm /\ s.index = state.index /\ s.setup = state.setup
        /\ s.version = state.version /\ s.auths = state.auths /\ s.depth = state.depth
        /\ s.pc = "next" /\ s.rep = state.rep
    BY <2>1 DEF HostState
  <2>4. QED
    BY <1>1, <1>3, <2>2, <2>3
<1>4. QED
  BY <1>2, <1>3

LEMMA PrefixIs ==
  ASSUME NEW trace, trace \in Seq(Arms!ToSet(trace)), NEW n \in Nat, n <= Len(trace)
  PROVE  Arms!ToSet(SubSeq(trace, 1, n)) = {trace[k] : k \in 1 .. n}
<1>1. PICK s : s = SubSeq(trace, 1, n)
  OBVIOUS
<1>2. DOMAIN s = 1 .. n /\ \A k \in 1 .. n : s[k] = trace[k]
  BY <1>1
<1>3. Arms!ToSet(s) = {s[k] : k \in 1 .. n}
  BY <1>2, Zenon DEF Arms!ToSet
<1>4. QED
  BY <1>1, <1>2, <1>3

LEMMA KeepsRunOne ==
  ASSUME Arms!Spreadable, ArmsInv, NEW h \in Arms!Hosts, Arms!RunOne(h)
  PROVE  Aside(h) /\ HostOK(h, host'[h], points'[h])
<1> DEFINE old == host[h]
           after == Arms!RedactedAll(old.version, old.auths)
           mid == [old EXCEPT !.version = after]
           new == Arms!Repeat(mid, "authorize")
           point == [arm |-> Arms!Arm(h), rep |-> old.rep,
                     executed |-> {tx \in Arms!Txs : after[tx] > old.version[tx]}]
<1>1. /\ old.pc = "redact" /\ Arms!Move(h, new) /\ points' = Arms!Measure(h, point)
      /\ UNCHANGED <<experiment, arms>>
  BY Zenon DEF Arms!RunOne
<1>2. Aside(h) /\ host'[h] = new /\ points'[h] = Append(points[h], point)
  <2>1. PICK state, pt : state = new /\ pt = point
    OBVIOUS
  <2>2. Arms!Move(h, state) /\ points' = Arms!Measure(h, pt) /\ UNCHANGED <<experiment, arms>>
    BY <1>1, <2>1, Zenon
  <2>3. Aside(h) /\ host'[h] = state /\ points'[h] = Append(points[h], pt)
    BY <2>2, MovedMeasured
  <2>4. QED
    BY <2>1, <2>3, Zenon
<1>3. old \in HostState /\ StateOK(h, old)
  BY HostFacts
<1>4. experiment = "redaction"
  BY <1>1, <1>3, HostFacts DEF StateOK
<1>5. Busy(old) /\ old.arm \in 1 .. Len(arms) /\ Arms!RunsArm(h, ArmIndex(old.arm))
  <2>1. Busy(old)
    BY <1>1 DEF Busy
  <2>2. old.arm \in Nat /\ old.arm # 0 /\ old.arm <= Len(arms) /\ Arms!RunsArm(h, ArmIndex(old.arm))
    BY <1>3, <2>1 DEF StateOK, HostState
  <2>3. QED
    BY <2>1, <2>2, ArmsFacts DEF ArmsInv
<1>6. PICK arm \in ArmSpace : arm = arms[old.arm] /\ arm = Arms!Arm(h)
  BY <1>4, <1>5, ArmsFacts DEF Space, ArmsInv, Arms!Arm
<1>7. PICK n \in Nat : n = arm.workload /\ n <= Len(Traces[arm.ratio]) /\ arm.ratio \in DOMAIN Traces
  BY DEF ArmSpace
<1>8. PICK trace : /\ trace = Traces[arm.ratio] /\ trace \in Seq(Arms!ToSet(trace))
                   /\ \A k \in 1 .. n : trace[k] \in Arms!Txs
  BY <1>7, TraceTargets
<1>9. PICK vs \in Versions : vs = old.version
  BY <1>3 DEF HostState
<1>10. PICK auths \in Seq(Authorizations) : auths = old.auths
  BY <1>3 DEF HostState
<1>11. auths = [k \in 1 .. n |-> [tx |-> trace[k], version |-> vs[trace[k]]]]
  BY <1>1, <1>3, <1>6, <1>7, <1>8, <1>9, <1>10, Zenon DEF StateOK
<1>12. /\ Len(auths) = n /\ auths \in [1 .. n -> Authorizations]
       /\ \A k \in 1 .. n : auths[k].tx = trace[k] /\ auths[k].version = vs[auths[k].tx]
  <2>1. \A k \in 1 .. n : auths[k] = [tx |-> trace[k], version |-> vs[trace[k]]]
    BY <1>11
  <2>2. DOMAIN auths = 1 .. n
    BY <1>11
  <2>3. Len(auths) = n /\ auths \in [1 .. n -> Authorizations]
    BY <2>2
  <2>4. QED
    BY <2>1, <2>3
<1>13. PICK left \in Versions :
         /\ left = after
         /\ \A tx \in Arms!Txs : left[tx] = IF tx \in {auths[k].tx : k \in 1 .. n}
                                       THEN vs[tx] + 1 ELSE vs[tx]
  <2>1. IsSequence(auths) /\ \A k \in 1 .. n : auths[k].version = vs[auths[k].tx]
    BY <1>12 DEF IsSequence
  <2>2. /\ Arms!RedactedAll(vs, auths) \in Versions
        /\ \A tx \in Arms!Txs : Arms!RedactedAll(vs, auths)[tx] =
             IF tx \in {auths[k].tx : k \in 1 .. n} THEN vs[tx] + 1 ELSE vs[tx]
    BY <1>12, <2>1, RedactedAllIs
  <2>3. QED
    BY <1>9, <1>10, <2>2
<1>14. PICK r \in 1 .. Repetitions : r = old.rep
  BY <1>1, <1>3 DEF StateOK
<1>15. PICK p : p = point
  OBVIOUS
<1>16. p = [arm |-> arm, rep |-> r, executed |-> {tx \in Arms!Txs : left[tx] > vs[tx]}]
  BY <1>6, <1>9, <1>13, <1>14, <1>15, Zenon
<1>17. FreshPoint(p)
  <2>1. \A tx \in Arms!Txs : vs[tx] \in Nat
    BY DEF Versions
  <2>2. \A tx \in Arms!Txs : left[tx] > vs[tx] <=> tx \in {auths[k].tx : k \in 1 .. n}
    BY <1>13, <2>1
  <2>3. {auths[k].tx : k \in 1 .. n} = {trace[k] : k \in 1 .. n}
    BY <1>12
  <2>4. {tx \in Arms!Txs : left[tx] > vs[tx]} = {trace[k] : k \in 1 .. n}
    BY <1>8, <2>2, <2>3
  <2>5. p.executed = Arms!ToSet(SubSeq(trace, 1, n))
    <3>1. p.executed = {tx \in Arms!Txs : left[tx] > vs[tx]}
      BY <1>16, Zenon
    <3>2. n <= Len(trace)
      BY <1>7, <1>8, Zenon
    <3>3. Arms!ToSet(SubSeq(trace, 1, n)) = {trace[k] : k \in 1 .. n}
      BY <1>8, <3>2, PrefixIs
    <3>4. QED
      BY <2>4, <3>1, <3>3, Zenon
  <2>6. p.arm = arm
    BY <1>16
  <2>7. p.executed = Arms!ToSet(SubSeq(Traces[p.arm.ratio], 1, p.arm.workload))
    BY <1>7, <1>8, <2>5, <2>6, Zenon
  <2>8. QED
    BY <1>4, <2>7, Zenon DEF FreshPoint
<1>18. PICK m : m = mid
  OBVIOUS
<1>19. PICK s : s = new
  OBVIOUS
<1> HIDE DEF old, point, new
<1>20. m = [old EXCEPT !.version = left]
  BY <1>13, <1>18, Zenon
<1>21. s = Arms!Repeat(m, "authorize")
  BY <1>18, <1>19, Zenon DEF new
<1> HIDE DEF mid, after
<1>22. /\ m \in HostState /\ m.arm = old.arm /\ m.index = old.index /\ m.rep = r
       /\ m.depth = old.depth
  BY <1>3, <1>14, <1>20 DEF HostState
<1>23. /\ s \in HostState /\ s.arm = m.arm /\ s.index = m.index /\ s.depth = m.depth
       /\ \/ s.pc = "authorize" /\ s.rep = r + 1 /\ s.rep \in 1 .. Repetitions
          \/ s.pc = "next" /\ s.rep = r /\ r = Repetitions
  BY <1>21, <1>22, RepeatIs
<1>24. s.arm = old.arm /\ s.index = old.arm /\ s.depth = 1 /\ old.depth = 1
  BY <1>3, <1>4, <1>22, <1>23 DEF StateOK
<1>25. StateOK(h, s)
  <2>1. s.arm <= Len(arms) /\ s.arm # 0 /\ Arms!RunsArm(h, ArmIndex(s.arm)) /\ s.index = s.arm
    BY <1>3, <1>5, <1>24 DEF StateOK
  <2>2. QED
    BY <1>4, <1>23, <1>24, <2>1 DEF StateOK
<1>26. PICK u \in AllUnits : u = << <<old.arm, r>>, 1>>
  <2>1. 1 \in 1 .. DepthCount
    BY ArmsFacts DEF ArmsInv
  <2>2. QED
    BY <1>5, <2>1 DEF AllUnits
<1>27. ASSUME NEW v \in AllUnits
       PROVE  /\ Reached(h, s, v) <=> Reached(h, old, v) \/ v = u
              /\ v = u => ~Reached(h, old, v)
  <2>1. PICK b \in 1 .. Len(arms), c \in 1 .. Repetitions, d \in 1 .. DepthCount :
          v[1][1] = b /\ v[1][2] = c /\ v[2] = d /\ v = << <<b, c>>, d>>
    BY UnitParts
  <2>2. v = u <=> b = old.arm /\ c = r
    <3>1. d = 1
      BY <1>4, <2>1 DEF DepthCount
    <3>2. u = << <<old.arm, r>>, 1>> /\ v = << <<b, c>>, 1>>
      BY <1>26, <2>1, <3>1
    <3>3. QED
      BY <3>2
  <2>3. Reached(h, old, v) <=> /\ Arms!RunsArm(h, ArmIndex(b)) /\ b <= old.arm
                               /\ b = old.arm => d < 1 \/ (d = 1 /\ c < r)
    BY <1>1, <1>14, <1>24, <2>1 DEF Reached, Busy
  <2>4. d = 1 /\ c \in Nat /\ r \in Nat /\ Repetitions \in Nat /\ c <= Repetitions
    BY <1>4, <2>1, ArmsFacts DEF DepthCount, ArmsInv
  <2>5. CASE s.pc = "authorize" /\ s.rep = r + 1
    <3>1. Reached(h, s, v) <=> /\ Arms!RunsArm(h, ArmIndex(b)) /\ b <= old.arm
                               /\ b = old.arm => d < 1 \/ (d = 1 /\ c < r + 1)
      BY <1>24, <2>1, <2>5 DEF Reached, Busy
    <3>2. QED
      BY <1>5, <2>2, <2>3, <2>4, <3>1
  <2>6. CASE s.pc = "next" /\ r = Repetitions
    <3>1. Reached(h, s, v) <=> Arms!RunsArm(h, ArmIndex(b)) /\ b <= old.arm
      BY <1>24, <2>1, <2>6 DEF Reached, Busy
    <3>2. QED
      BY <1>5, <2>2, <2>3, <2>4, <2>6, <3>1
  <2>7. QED
    BY <1>23, <2>5, <2>6
<1>28. Arms!Measured(p) = UnitName(u)
  <2>1. Arms!Measured(p) = <<arm, r>>
    <3>1. p.arm = arm /\ p.rep = r
      BY <1>16
    <3>2. QED
      BY <1>4, <3>1, Zenon DEF Arms!Measured
  <2>2. UnitName(u) = <<arms[old.arm], r>>
    <3>1. u[1][1] = old.arm /\ u[1][2] = r
      BY <1>26
    <3>2. QED
      BY <1>4, <3>1, Zenon DEF UnitName
  <2>3. QED
    BY <1>6, <2>1, <2>2, Zenon
<1>29. IsSequence(points[h]) /\ Counts(h, old, points[h])
  BY HostFacts DEF Counts, old
<1>30. Counts(h, s, Append(points[h], p))
  <2>1. ~Reached(h, old, u) /\ \A v \in AllUnits : Reached(h, s, v) <=> Reached(h, old, v) \/ v = u
    BY <1>27
  <2>2. QED
    BY <1>28, <1>29, <2>1, Counted DEF ArmsInv
<1>31. \A i \in 1 .. Len(Append(points[h], p)) : FreshPoint(Append(points[h], p)[i])
  BY <1>17, <1>29, HostFacts, FreshMore
<1>32. QED
  BY <1>2, <1>15, <1>19, <1>25, <1>30, <1>31, Zenon DEF HostOK

LEMMA KeepsAudit ==
  ASSUME Arms!Spreadable, ArmsInv, NEW h \in Arms!Hosts, Arms!Audit(h)
  PROVE  Aside(h) /\ HostOK(h, host'[h], points'[h])
<1> DEFINE old == host[h]
           k == old.depth
           mid == Arms!Repeat(old, "audit")
           new == IF mid.pc = "next" /\ k < Len(Depths)
                  THEN [mid EXCEPT !.pc = "audit", !.depth = @ + 1, !.rep = 1]
                  ELSE mid
           point == [setup |-> old.setup, ledger |-> Arms!Arm(h).ledger,
                     depth |-> Depths[k], rep |-> old.rep, found |-> old.version[k],
                     cost |-> Cost[old.setup][Arms!Arm(h).ledger]]
<1>1. /\ old.pc = "audit" /\ Arms!Move(h, new) /\ points' = Arms!Measure(h, point)
      /\ UNCHANGED <<experiment, arms>>
  BY Zenon DEF Arms!Audit
<1>2. Aside(h) /\ host'[h] = new /\ points'[h] = Append(points[h], point)
  <2>1. PICK state, pt : state = new /\ pt = point
    OBVIOUS
  <2>2. Arms!Move(h, state) /\ points' = Arms!Measure(h, pt) /\ UNCHANGED <<experiment, arms>>
    BY <1>1, <2>1, Zenon
  <2>3. Aside(h) /\ host'[h] = state /\ points'[h] = Append(points[h], pt)
    BY <2>2, MovedMeasured
  <2>4. QED
    BY <2>1, <2>3, Zenon
<1>3. old \in HostState /\ StateOK(h, old)
  BY HostFacts
<1>4. experiment = "audit"
  BY <1>1, <1>3, HostFacts DEF StateOK
<1>5. Busy(old) /\ old.arm \in 1 .. Len(arms) /\ Arms!RunsArm(h, ArmIndex(old.arm))
  <2>1. Busy(old)
    BY <1>1 DEF Busy
  <2>2. old.arm \in Nat /\ old.arm # 0 /\ old.arm <= Len(arms) /\ Arms!RunsArm(h, ArmIndex(old.arm))
    BY <1>3, <2>1 DEF StateOK, HostState
  <2>3. QED
    BY <2>1, <2>2, ArmsFacts DEF ArmsInv
<1>6. PICK a \in 1 .. Len(arms) : a = old.arm
  BY <1>5
<1>7. PICK r \in 1 .. Repetitions : r = old.rep
  BY <1>1, <1>3 DEF StateOK
<1>8. PICK deep \in 1 .. Len(Depths) : deep = old.depth
  BY <1>1, <1>3 DEF StateOK
<1>9. old.version[deep] = Depths[deep] /\ old.setup = Arms!Setup(arms[a])
  BY <1>1, <1>3, <1>6 DEF StateOK
<1>10. PICK p : p = point
  OBVIOUS
<1>11. p = [setup |-> Arms!Setup(arms[a]), ledger |-> arms[a].ledger, depth |-> Depths[deep],
            rep |-> r, found |-> Depths[deep], cost |-> Cost[old.setup][arms[a].ledger]]
  BY <1>6, <1>7, <1>8, <1>9, <1>10, Zenon DEF Arms!Arm
<1>12. PICK m : m = mid
  OBVIOUS
<1>13. PICK s : s = new
  OBVIOUS
<1>14. s = IF m.pc = "next" /\ deep < Len(Depths)
           THEN [m EXCEPT !.pc = "audit", !.depth = @ + 1, !.rep = 1] ELSE m
  BY <1>8, <1>12, <1>13, Zenon
<1> HIDE DEF old, point, new
<1>15. m = Arms!Repeat(old, "audit")
  BY <1>12
<1> HIDE DEF mid, k
<1>16. /\ m \in HostState /\ m.arm = a /\ m.index = old.index /\ m.setup = old.setup
       /\ m.version = old.version /\ m.depth = deep
       /\ \/ m.pc = "audit" /\ m.rep = r + 1 /\ m.rep \in 1 .. Repetitions
          \/ m.pc = "next" /\ m.rep = r /\ r = Repetitions
  BY <1>3, <1>6, <1>7, <1>8, <1>15, RepeatIs
<1>17. deep \in Nat /\ Len(Depths) \in Nat /\ Repetitions \in Nat \ {0}
  BY ArmsFacts DEF ArmsInv
<1>18. ASSUME m.pc = "next" /\ deep < Len(Depths)
       PROVE  /\ StateOK(h, s)
              /\ s.arm = a /\ s.pc = "audit" /\ s.depth = deep + 1 /\ s.rep = 1
              /\ r = Repetitions
  <2>1. s = [m EXCEPT !.pc = "audit", !.depth = deep + 1, !.rep = 1]
    BY <1>14, <1>16, <1>18
  <2>2. deep + 1 \in Nat /\ deep + 1 \in 1 .. Len(Depths)
    BY <1>17, <1>18
  <2>3. s \in HostState
    BY <1>16, <2>1, <2>2 DEF HostState
  <2>4. /\ s.arm = a /\ s.index = old.index /\ s.setup = old.setup /\ s.version = old.version
        /\ s.pc = "audit" /\ s.depth = deep + 1 /\ s.rep = 1
    BY <1>16, <2>1 DEF HostState
  <2>5. s.arm <= Len(arms) /\ s.arm # 0 /\ Arms!RunsArm(h, ArmIndex(s.arm)) /\ s.index = 0
    BY <1>3, <1>4, <1>5, <1>6, <2>4 DEF StateOK
  <2>6. s.depth \in 1 .. Len(Depths) /\ s.rep \in 1 .. Repetitions
    BY <1>17, <2>2, <2>4
  <2>7. (\A d \in 1 .. Len(Depths) : s.version[d] = Depths[d]) /\ s.setup = Arms!Setup(arms[s.arm])
    BY <1>1, <1>3, <1>9, <2>4 DEF StateOK
  <2>8. StateOK(h, s)
    BY <1>4, <2>3, <2>4, <2>5, <2>6, <2>7 DEF StateOK
  <2>9. QED
    BY <1>16, <1>18, <2>4, <2>8
<1>19. ASSUME ~(m.pc = "next" /\ deep < Len(Depths))
       PROVE  /\ StateOK(h, s) /\ s.arm = a /\ s.depth = deep
              /\ \/ s.pc = "audit" /\ s.rep = r + 1
                 \/ s.pc = "next" /\ r = Repetitions /\ deep = Len(Depths)
  <2>1. s = m
    BY <1>14, <1>19
  <2>2. s.arm <= Len(arms) /\ s.arm # 0 /\ Arms!RunsArm(h, ArmIndex(s.arm)) /\ s.index = 0
    BY <1>3, <1>4, <1>5, <1>6, <1>16, <2>1 DEF StateOK
  <2>3. (\A d \in 1 .. Len(Depths) : s.version[d] = Depths[d]) /\ s.setup = Arms!Setup(arms[s.arm])
    BY <1>1, <1>3, <1>9, <1>16, <2>1 DEF StateOK
  <2>4. StateOK(h, s)
    BY <1>4, <1>16, <2>1, <2>2, <2>3 DEF StateOK
  <2>5. QED
    BY <1>16, <1>17, <1>19, <2>1, <2>4
<1>20. StateOK(h, s)
  BY <1>18, <1>19
<1>21. PICK u \in AllUnits : u = << <<a, r>>, deep>>
  <2>1. DepthCount = Len(Depths)
    BY <1>4 DEF DepthCount
  <2>2. QED
    BY <2>1 DEF AllUnits
<1>22. ASSUME NEW v \in AllUnits
       PROVE  /\ Reached(h, s, v) <=> Reached(h, old, v) \/ v = u
              /\ v = u => ~Reached(h, old, v)
  <2>1. PICK b \in 1 .. Len(arms), c \in 1 .. Repetitions, d \in 1 .. DepthCount :
          v[1][1] = b /\ v[1][2] = c /\ v[2] = d /\ v = << <<b, c>>, d>>
    BY UnitParts
  <2>2. v = u <=> b = a /\ c = r /\ d = deep
    BY <1>21, <2>1
  <2>3. Reached(h, old, v) <=> /\ Arms!RunsArm(h, ArmIndex(b)) /\ b <= a
                               /\ b = a => d < deep \/ (d = deep /\ c < r)
    BY <1>1, <1>6, <1>7, <1>8, <2>1 DEF Reached, Busy
  <2>4. /\ d \in Nat /\ d <= Len(Depths) /\ c \in Nat /\ c >= 1 /\ c <= Repetitions
        /\ a \in Nat /\ r \in Nat /\ Arms!RunsArm(h, ArmIndex(a))
    BY <1>4, <1>5, <1>6, <1>17, <2>1, ArmsFacts DEF DepthCount, ArmsInv
  <2>5. CASE m.pc = "next" /\ deep < Len(Depths)
    <3>1. Reached(h, s, v) <=> /\ Arms!RunsArm(h, ArmIndex(b)) /\ b <= a
                               /\ b = a => d < deep + 1 \/ (d = deep + 1 /\ c < 1)
      BY <1>18, <2>1, <2>5 DEF Reached, Busy
    <3>2. r = Repetitions
      BY <1>18, <2>5
    <3>3. QED
      BY <1>17, <2>2, <2>3, <2>4, <3>1, <3>2
  <2>6. CASE s.pc = "audit" /\ s.rep = r + 1 /\ s.depth = deep /\ s.arm = a
    <3>1. Reached(h, s, v) <=> /\ Arms!RunsArm(h, ArmIndex(b)) /\ b <= a
                               /\ b = a => d < deep \/ (d = deep /\ c < r + 1)
      BY <2>1, <2>6 DEF Reached, Busy
    <3>2. QED
      BY <1>17, <2>2, <2>3, <2>4, <3>1
  <2>7. CASE s.pc = "next" /\ r = Repetitions /\ deep = Len(Depths) /\ s.arm = a
    <3>1. Reached(h, s, v) <=> Arms!RunsArm(h, ArmIndex(b)) /\ b <= a
      BY <2>1, <2>7 DEF Reached, Busy
    <3>2. QED
      BY <1>17, <2>2, <2>3, <2>4, <2>7, <3>1
  <2>8. QED
    BY <1>19, <2>5, <2>6, <2>7
<1>23. Arms!Measured(p) = UnitName(u)
  <2>1. Arms!Measured(p) = <<Arms!Setup(arms[a]), arms[a].ledger, Depths[deep], r>>
    <3>1. p.setup = Arms!Setup(arms[a]) /\ p.ledger = arms[a].ledger /\ p.depth = Depths[deep] /\ p.rep = r
      BY <1>11
    <3>2. experiment # "redaction"
      BY <1>4
    <3>3. QED
      BY <3>1, <3>2, Zenon DEF Arms!Measured
  <2>2. UnitName(u) = <<Arms!Setup(arms[a]), arms[a].ledger, Depths[deep], r>>
    <3>1. u[1][1] = a /\ u[1][2] = r /\ u[2] = deep /\ experiment # "redaction"
      BY <1>4, <1>21
    <3>2. QED
      BY <3>1, Zenon DEF UnitName
  <2>3. QED
    BY <2>1, <2>2, Zenon
<1>24. IsSequence(points[h]) /\ Counts(h, old, points[h])
  BY HostFacts DEF Counts, old
<1>25. Counts(h, s, Append(points[h], p))
  <2>1. ~Reached(h, old, u) /\ \A v \in AllUnits : Reached(h, s, v) <=> Reached(h, old, v) \/ v = u
    BY <1>22
  <2>2. QED
    BY <1>23, <1>24, <2>1, Counted DEF ArmsInv
<1>26. FreshPoint(p)
  <2>1. p.found = p.depth
    BY <1>11
  <2>2. QED
    BY <1>4, <2>1 DEF FreshPoint
<1>27. \A i \in 1 .. Len(Append(points[h], p)) : FreshPoint(Append(points[h], p)[i])
  BY <1>24, <1>26, HostFacts, FreshMore
<1>28. QED
  BY <1>2, <1>10, <1>13, <1>20, <1>25, <1>27, Zenon DEF HostOK

--------------------------------
(* The sweeps start in the invariant and stay there *)

LEMMA ArmsInit ==
  ASSUME Arms!Spreadable, Arms!Init
  PROVE  ArmsInv
<1>1. /\ experiment \in {"redaction", "audit"} /\ arms = Arms!Arms
      /\ host = [h \in Arms!Hosts |-> Arms!Idle] /\ points = [h \in Arms!Hosts |-> <<>>]
  BY DEF Arms!Init
<1>2. SpreadFixed
  <2>1. CASE experiment = "redaction"
    BY <1>1, <2>1, RedactionArmsOnce DEF SpreadFixed, Arms!Arms, Space
  <2>2. CASE experiment # "redaction"
    BY <1>1, <2>2, AuditArmsOnce DEF SpreadFixed, Arms!Arms, Space
  <2>3. QED
    BY <2>1, <2>2
<1>3. PICK vs \in Versions : vs = Arms!Fresh
  BY FreshTyped
<1>4. PICK s : s = Arms!Idle
  OBVIOUS
<1>5. s = [pc |-> "next", arm |-> 0, index |-> 0, setup |-> NoSetup, version |-> vs,
           auths |-> <<>>, depth |-> 1, rep |-> 1]
  BY <1>3, <1>4 DEF Arms!Idle
<1>6. PICK auths \in Seq(Authorizations) : auths = <<>>
  <2>1. <<>> \in Seq(Authorizations)
    OBVIOUS
  <2>2. QED
    BY <2>1
<1>7. s \in HostState
  BY <1>5, <1>6 DEF HostState
<1>8. s.pc = "next" /\ s.arm = 0 /\ s.index = 0 /\ s.depth = 1
  BY <1>5
<1>9. \A h \in Arms!Hosts : StateOK(h, s)
  <2>1. 0 <= Len(arms)
    BY <1>2, ArmsFacts
  <2>2. QED
    BY <1>1, <1>7, <1>8, <2>1 DEF StateOK, Busy
<1>10. \A h \in Arms!Hosts : Counts(h, s, <<>>)
  <2> SUFFICES ASSUME NEW h \in Arms!Hosts PROVE Counts(h, s, <<>>)
    OBVIOUS
  <2>1. \A u \in AllUnits : ~Reached(h, s, u)
    <3>1. \A u \in AllUnits : u[1][1] \in Nat /\ u[1][1] # 0
      BY <1>2, UnitParts, ArmsFacts
    <3>2. QED
      BY <1>8, <3>1 DEF Reached
  <2>2. NamesOf(h, s) = {}
    BY <2>1 DEF NamesOf, Units
  <2>3. PICK e : e = <<>> /\ e \in Seq({}) /\ Len(e) = 0
    <3>1. <<>> \in Seq({}) /\ Len(<<>>) = 0
      OBVIOUS
    <3>2. QED
      BY <3>1
  <2>4. DOMAIN e = 1 .. 0
    BY <2>3
  <2>5. MeasuredList(e) = [i \in 1 .. 0 |-> Arms!Measured(e[i])]
    BY <2>4, Zenon DEF MeasuredList
  <2>6. MeasuredList(e) \in [1 .. 0 -> {}]
    BY <2>5
  <2>7. IsSequence(MeasuredList(e)) /\ Len(MeasuredList(e)) = 0
    BY <2>6, FunctionIsSequence
  <2>8. IsSequence(e)
    BY <2>3 DEF IsSequence
  <2>9. Lists(MeasuredList(e), {})
    BY <2>7 DEF Lists, OneEach
  <2>10. QED
    BY <2>2, <2>3, <2>8, <2>9 DEF Counts
<1>11. \A h \in Arms!Hosts : HostOK(h, s, <<>>)
  <2>1. Len(<<>>) = 0
    OBVIOUS
  <2>2. QED
    BY <1>9, <1>10, <2>1 DEF HostOK
<1>12. \A h \in Arms!Hosts : host[h] = s /\ points[h] = <<>>
  BY <1>1, <1>4, Zenon
<1>13. DOMAIN host = Arms!Hosts /\ DOMAIN points = Arms!Hosts
  BY <1>1
<1>14. QED
  BY <1>2, <1>11, <1>12, <1>13, Zenon DEF ArmsInv

(* What is said of a host does not change with the others. *)
LEMMA SaidOfHost ==
  ASSUME UNCHANGED <<experiment, arms>>, NEW h, NEW state, NEW ps, HostOK(h, state, ps),
         host'[h] = state, points'[h] = ps
  PROVE  HostOK(h, host[h], points[h])'
<1>1. StateOK(h, host[h])'
  BY Zenon DEF HostOK, StateOK, Busy, ArmIndex, Arms!Setup
<1>2. Units(h, host[h])' = Units(h, state)
  BY Zenon DEF Units, Reached, Busy, ArmIndex, AllUnits, DepthCount
<1>3. NamesOf(h, host[h])' = NamesOf(h, state)
  BY <1>2, Zenon DEF NamesOf, UnitName, Arms!Setup
<1>4. MeasuredList(points[h])' = MeasuredList(ps)
  BY Zenon DEF MeasuredList, Arms!Measured
<1>5. Counts(h, host[h], points[h])'
  BY <1>3, <1>4, Zenon DEF HostOK, Counts
<1>6. \A i \in 1 .. Len(points'[h]) : FreshPoint(points[h][i])'
  BY Zenon DEF HostOK, FreshPoint
<1>7. QED
  BY <1>1, <1>5, <1>6, Zenon DEF HostOK

LEMMA ArmsKept ==
  ASSUME ArmsInv, NEW h \in Arms!Hosts, Aside(h), HostOK(h, host'[h], points'[h])
  PROVE  ArmsInv'
<1>1. UNCHANGED <<experiment, arms>> /\ DOMAIN host' = Arms!Hosts /\ DOMAIN points' = Arms!Hosts
  BY DEF Aside
<1>2. SpreadFixed'
  BY <1>1, Zenon DEF ArmsInv, SpreadFixed, Space, Within
<1>3. \A o \in Arms!Hosts : HostOK(o, host'[o], points'[o])
  BY Zenon DEF ArmsInv, Aside
<1>4. ASSUME NEW o \in Arms!Hosts PROVE HostOK(o, host[o], points[o])'
  BY <1>1, <1>3, SaidOfHost
<1>5. QED
  BY <1>1, <1>2, <1>4, Zenon DEF ArmsInv

LEMMA ArmsStep ==
  ASSUME Arms!Spreadable, ArmsInv, Arms!Next
  PROVE  ArmsInv'
<1>1. PICK h \in Arms!Hosts : \/ Arms!NextRedactionArm(h) \/ Arms!AuthorizeAll(h) \/ Arms!RunOne(h)
                         \/ Arms!NextAuditArm(h) \/ Arms!Prepare(h) \/ Arms!Audit(h) \/ Arms!Finish(h)
  BY DEF Arms!Next
<1>2. Aside(h) /\ HostOK(h, host'[h], points'[h])
  BY <1>1, KeepsNextRedactionArm, KeepsAuthorizeAll, KeepsRunOne, KeepsNextAuditArm,
     KeepsPrepare, KeepsAudit, KeepsFinish
<1>3. QED
  BY <1>2, ArmsKept

LEMMA ArmsStill ==
  ASSUME ArmsInv, UNCHANGED Arms!vars
  PROVE  ArmsInv'
<1>1. UNCHANGED <<experiment, arms, host, points>>
  BY DEF Arms!vars
<1>2. SpreadFixed' /\ DOMAIN host' = Arms!Hosts /\ DOMAIN points' = Arms!Hosts
  BY <1>1, Zenon DEF ArmsInv, SpreadFixed, Space, Within
<1>3. ASSUME NEW o \in Arms!Hosts PROVE HostOK(o, host[o], points[o])'
  BY <1>1, SaidOfHost DEF ArmsInv
<1>4. QED
  BY <1>2, <1>3, Zenon DEF ArmsInv

--------------------------------
(* What the invariant says of the measurements *)

LEMMA ArmsTyped ==
  ASSUME Arms!Spreadable, ArmsInv
  PROVE  Arms!TypeOK
<1>1. experiment \in {"redaction", "audit"}
  BY DEF ArmsInv, SpreadFixed
<1>2. ASSUME NEW h \in Arms!Hosts
      PROVE  /\ host[h].pc \in {"next", "authorize", "redact", "prepare", "audit", "done"}
             /\ host[h].arm \in 0 .. Len(arms) /\ host[h].index <= host[h].arm
             /\ host[h].setup \in Arms!ToSet(Arms!Sweeps) \cup {NoSetup}
             /\ host[h].version \in [Arms!Txs -> Nat]
  <2>1. host[h] \in HostState /\ host[h].arm <= Len(arms) /\ StateOK(h, host[h])
    BY <1>2, HostFacts
  <2>2. PICK s \in HostState : s = host[h]
    BY <2>1
  <2>3. /\ s.pc \in {"next", "authorize", "redact", "prepare", "audit", "done"} /\ s.arm \in Nat
        /\ s.setup \in Arms!ToSet(Arms!Sweeps) \cup {NoSetup} /\ s.version \in Versions
    BY DEF HostState
  <2>4. s.index = s.arm \/ s.index = 0
    BY <2>1, <2>2 DEF StateOK
  <2>5. Len(arms) \in Nat
    BY ArmsFacts DEF ArmsInv
  <2>6. s.arm \in 0 .. Len(arms) /\ s.index <= s.arm
    BY <2>1, <2>2, <2>3, <2>4, <2>5
  <2>7. QED
    BY <2>2, <2>3, <2>6, Zenon DEF Versions
<1>3. QED
  BY <1>1, <1>2, Zenon DEF Arms!TypeOK

LEMMA ArmsFresh ==
  ASSUME ArmsInv
  PROVE  Arms!MeasuredAfresh
<1>1. ASSUME NEW h \in Arms!Hosts, NEW p \in Arms!ToSet(points[h])
      PROVE  FreshPoint(p)
  <2>1. IsSequence(points[h]) /\ \A i \in 1 .. Len(points[h]) : FreshPoint(points[h][i])
    BY <1>1, Zenon DEF ArmsInv, HostOK, Counts
  <2>2. DOMAIN points[h] = 1 .. Len(points[h])
    BY <2>1, SequenceFacts
  <2>3. PICK i \in DOMAIN points[h] : p = points[h][i]
    BY <1>1, Zenon DEF Arms!ToSet
  <2>4. QED
    BY <2>1, <2>2, <2>3, Zenon
<1>2. QED
  BY <1>1, Zenon DEF Arms!MeasuredAfresh, FreshPoint

LEMMA ListsCount ==
  ASSUME NEW s, NEW S, Lists(s, S)
  PROVE  IsFiniteSet(S) /\ Cardinality(S) = Len(s)
<1>1. PICK n \in Nat : n = Len(s) /\ DOMAIN s = 1 .. n
  BY ArmsListedSet
<1>2. s = [p \in 1 .. n |-> s[p]]
  <2>1. PICK T : s \in Seq(T)
    BY DEF Lists, IsSequence
  <2>2. QED
    BY <1>1, <2>1
<1>3. \A p \in 1 .. n : s[p] \in S
  BY <1>1 DEF Lists
<1>4. s \in [1 .. n -> S]
  BY <1>2, <1>3
<1>5. \A p, o \in 1 .. n : s[p] = s[o] => p = o
  BY <1>1 DEF Lists, OneEach
<1>6. \A x \in S : \E p \in 1 .. n : s[p] = x
  BY <1>1 DEF Lists
<1>7. s \in Bijection(1 .. n, S)
  BY <1>4, <1>5, <1>6 DEF Bijection, Injection, Surjection, IsInjective
<1>8. ExistsBijection(1 .. n, S)
  BY <1>7 DEF ExistsBijection
<1>9. IsFiniteSet(1 .. n) /\ Cardinality(1 .. n) = n
  BY FS_Interval
<1>10. QED
  BY <1>1, <1>8, <1>9, FS_Bijection

LEMMA AllNamesCount ==
  ASSUME Arms!Spreadable, SpreadFixed
  PROVE  LET names == {UnitName(u) : u \in AllUnits}
         IN  IsFiniteSet(names) /\ Cardinality(names) = Len(arms) * Repetitions * DepthCount
<1> DEFINE names == {UnitName(u) : u \in AllUnits}
           f == [u \in AllUnits |-> UnitName(u)]
<1>1. PICK a \in Nat, r \in Nat, d \in Nat : a = Len(arms) /\ r = Repetitions /\ d = DepthCount
  BY ArmsFacts
<1>2. /\ IsFiniteSet(1 .. a) /\ Cardinality(1 .. a) = a
      /\ IsFiniteSet(1 .. r) /\ Cardinality(1 .. r) = r
      /\ IsFiniteSet(1 .. d) /\ Cardinality(1 .. d) = d
  BY FS_Interval
<1>3. IsFiniteSet((1 .. a) \X (1 .. r)) /\ Cardinality((1 .. a) \X (1 .. r)) = a * r
  <2>1. PICK A, R : A = 1 .. a /\ R = 1 .. r
    OBVIOUS
  <2>2. IsFiniteSet(A) /\ IsFiniteSet(R) /\ Cardinality(A) = a /\ Cardinality(R) = r
    BY <1>2, <2>1
  <2>3. IsFiniteSet(A \X R) /\ Cardinality(A \X R) = Cardinality(A) * Cardinality(R)
    BY <2>2, FS_Product, Zenon
  <2>4. QED
    BY <2>1, <2>2, <2>3
<1>4. AllUnits = ((1 .. a) \X (1 .. r)) \X (1 .. d)
  BY <1>1 DEF AllUnits
<1>5. IsFiniteSet(AllUnits) /\ Cardinality(AllUnits) = (a * r) * d
  <2>1. PICK P, D : P = (1 .. a) \X (1 .. r) /\ D = 1 .. d
    OBVIOUS
  <2>2. IsFiniteSet(P) /\ Cardinality(P) = a * r /\ IsFiniteSet(D) /\ Cardinality(D) = d
    BY <1>2, <1>3, <2>1, Zenon
  <2>3. IsFiniteSet(P \X D) /\ Cardinality(P \X D) = Cardinality(P) * Cardinality(D)
    BY <2>2, FS_Product, Zenon
  <2>4. QED
    BY <1>4, <2>1, <2>2, <2>3, Zenon
<1>6. f \in [AllUnits -> names] /\ \A u \in AllUnits : f[u] = UnitName(u)
  BY Zenon
<1>7. \A u, v \in AllUnits : f[u] = f[v] => u = v
  BY <1>6, UnitNameOnce
<1>8. \A x \in names : \E u \in AllUnits : f[u] = x
  BY <1>6
<1> HIDE DEF f, names
<1>9. f \in Bijection(AllUnits, names)
  BY <1>6, <1>7, <1>8 DEF Bijection, Injection, Surjection, IsInjective
<1>10. ExistsBijection(AllUnits, names)
  BY <1>9 DEF ExistsBijection
<1>11. IsFiniteSet(names) /\ Cardinality(names) = (a * r) * d
  BY <1>5, <1>10, FS_Bijection
<1>12. QED
  BY <1>1, <1>11 DEF names

(* Two hosts run different arms, and every arm has its host. *)
LEMMA OneOwner ==
  ASSUME Arms!Spreadable, NEW i \in Arms!Hosts, NEW k \in Arms!Hosts, NEW index, Arms!RunsArm(i, index), Arms!RunsArm(k, index)
  PROVE  i = k
<1>1. Total \in Nat \ {0}
  BY DEF Arms!Spreadable
<1>2. CASE Total <= 1
  BY <1>1, <1>2 DEF Arms!Hosts
<1>3. CASE ~(Total <= 1)
  BY <1>3 DEF Arms!RunsArm
<1>4. QED
  BY <1>2, <1>3

LEMMA HasOwner ==
  ASSUME Arms!Spreadable, NEW index \in Nat
  PROVE  \E h \in Arms!Hosts : Arms!RunsArm(h, index)
<1>1. Total \in Nat \ {0}
  BY DEF Arms!Spreadable
<1>2. CASE Total <= 1
  <2>1. 0 \in Arms!Hosts
    BY <1>1, <1>2 DEF Arms!Hosts
  <2>2. Arms!RunsArm(0, index)
    BY <1>2 DEF Arms!RunsArm
  <2>3. QED
    BY <2>1, <2>2
<1>3. CASE ~(Total <= 1)
  <2>1. PICK h \in Nat : h = index % Total /\ h <= Total - 1
    BY <1>1
  <2>2. h \in Arms!Hosts
    BY <1>1, <2>1 DEF Arms!Hosts
  <2>3. Arms!RunsArm(h, index)
    BY <2>1 DEF Arms!RunsArm
  <2>4. QED
    BY <2>2, <2>3
<1>4. QED
  BY <1>2, <1>3

LEMMA ArmsOnce ==
  ASSUME Arms!Spreadable, ArmsInv
  PROVE  Arms!ArmsMeasuredOnce
<1> DEFINE kinds == [n \in 1 .. Total |-> NamesOf(n - 1, host[n - 1])]
           rows == [n \in 1 .. Total |->
                      [i \in DOMAIN points[n - 1] |-> Arms!Measured(points[n - 1][i])]]
           all == Arms!FlattenSeq(rows)
           names == UNION {kinds[n] : n \in 1 .. Total}
<1>1. Total \in Nat \ {0}
  BY DEF Arms!Spreadable
<1>2. \A n \in 1 .. Total : n - 1 \in Arms!Hosts
  BY <1>1 DEF Arms!Hosts
<1>3. \A n \in 1 .. Total : rows[n] = MeasuredList(points[n - 1])
  BY Zenon DEF MeasuredList
<1>4. \A n \in 1 .. Total : kinds[n] = NamesOf(n - 1, host[n - 1])
  BY Zenon
<1>5. \A n \in 1 .. Total : Lists(rows[n], kinds[n])
  <2> SUFFICES ASSUME NEW n \in 1 .. Total PROVE Lists(rows[n], kinds[n])
    OBVIOUS
  <2>1. PICK h \in Arms!Hosts : h = n - 1
    BY <1>2
  <2>2. Lists(MeasuredList(points[h]), NamesOf(h, host[h]))
    BY HostFacts DEF Counts
  <2>3. QED
    BY <1>3, <1>4, <2>1, <2>2, Zenon
<1>6. IsSequence(rows) /\ Len(rows) = Total
  <2>1. rows = [n \in 1 .. Total |-> rows[n]]
    BY Zenon
  <2> HIDE DEF rows
  <2>2. QED
    BY <1>1, <2>1, FunctionWithDomain
<1>7. ASSUME NEW i \in 1 .. Total, NEW k \in 1 .. Total, i # k
      PROVE  kinds[i] \cap kinds[k] = {}
  <2> SUFFICES ASSUME NEW x, x \in kinds[i], x \in kinds[k] PROVE FALSE
    OBVIOUS
  <2>1. PICK u \in Units(i - 1, host[i - 1]) : x = UnitName(u)
    BY <1>4 DEF NamesOf
  <2>2. PICK v \in Units(k - 1, host[k - 1]) : x = UnitName(v)
    BY <1>4 DEF NamesOf
  <2>3. /\ u \in AllUnits /\ Arms!RunsArm(i - 1, ArmIndex(u[1][1]))
        /\ v \in AllUnits /\ Arms!RunsArm(k - 1, ArmIndex(v[1][1]))
    BY Zenon DEF Units, Reached
  <2>4. u = v
    BY <2>1, <2>2, <2>3, UnitNameOnce DEF ArmsInv
  <2>5. i - 1 = k - 1
    BY <1>2, <2>3, <2>4, OneOwner
  <2>6. QED
    BY <1>7, <2>5
<1> HIDE DEF rows, kinds
<1>8. Lists(all, names)
  BY <1>5, <1>6, <1>7, ArmsFlattenLists
<1> HIDE DEF all
<1>9. Arms!IsInjective(all)
  <2>1. DOMAIN all = 1 .. Len(all)
    BY <1>8, ArmsListedSet
  <2>2. QED
    BY <1>8, <2>1 DEF Lists, OneEach, Arms!IsInjective
<1>10. ASSUME \A h \in Arms!Hosts : host[h].pc = "done"
       PROVE  Len(all) = Len(arms) * Repetitions * DepthCount
  <2>1. ASSUME NEW u \in AllUnits
        PROVE  UnitName(u) \in names
    <3>1. u[1][1] \in 1 .. Len(arms)
      BY <2>1, UnitParts
    <3>2. ArmIndex(u[1][1]) \in Nat
      BY <3>1, ArmsFacts, SMTT(20) DEF ArmIndex, ArmsInv
    <3>3. PICK h \in Arms!Hosts : Arms!RunsArm(h, ArmIndex(u[1][1]))
      BY <3>2, HasOwner
    <3>4. host[h].pc = "done" /\ host[h].arm = Len(arms)
      BY <1>10, HostFacts DEF StateOK
    <3>5. Reached(h, host[h], u)
      BY <3>1, <3>3, <3>4 DEF Reached, Busy
    <3>6. UnitName(u) \in NamesOf(h, host[h])
      BY <2>1, <3>5 DEF NamesOf, Units
    <3>7. h + 1 \in 1 .. Total /\ (h + 1) - 1 = h
      BY <1>1 DEF Arms!Hosts
    <3>8. kinds[h + 1] = NamesOf(h, host[h])
      BY <1>4, <3>7
    <3>9. QED
      BY <3>6, <3>7, <3>8
  <2>2. ASSUME NEW x \in names
        PROVE  x \in {UnitName(u) : u \in AllUnits}
    <3>1. PICK n \in 1 .. Total : x \in kinds[n]
      OBVIOUS
    <3>2. x \in NamesOf(n - 1, host[n - 1])
      BY <1>4, <3>1, Zenon
    <3>3. PICK u \in AllUnits : x = UnitName(u)
      BY <3>2, Zenon DEF NamesOf, Units
    <3>4. QED
      BY <3>3
  <2>3. names = {UnitName(u) : u \in AllUnits}
    BY <2>1, <2>2
  <2>4. Cardinality(names) = Len(all)
    BY <1>8, ListsCount
  <2>5. QED
    BY <2>3, <2>4, AllNamesCount DEF ArmsInv
<1>11. QED
  BY <1>9, <1>10, Zenon DEF Arms!ArmsMeasuredOnce, DepthCount, all, rows

--------------------------------
(* The sweep of experiment 1 *)

Rates == INSTANCE VerificationSweep WITH
    Knobs <- Schemes, Levels <- Concurrency, worker <- drawn, points <- measured

LEMMA RatesFlattenLists ==
  ASSUME NEW rows, IsSequence(rows), NEW kinds,
         \A i \in 1 .. Len(rows) : Lists(rows[i], kinds[i]),
         \A i, k \in 1 .. Len(rows) : i # k => kinds[i] \cap kinds[k] = {}
  PROVE  Lists(Rates!FlattenSeq(rows), UNION {kinds[i] : i \in 1 .. Len(rows)})
<1>1. Rates!FlattenSeq(rows) = FlattenSeq(rows)
  BY Zenon DEF Rates!FlattenSeq, FlattenSeq
<1>2. QED
  BY <1>1, FlattenLists

LEMMA RatesListsItself ==
  ASSUME NEW v, IsSequence(v), Rates!IsInjective(v)
  PROVE  Lists(v, Rates!ToSet(v))
<1>1. IsInjective(v) /\ Rates!ToSet(v) = ToSet(v)
  BY Zenon DEF Rates!IsInjective, IsInjective, Rates!ToSet, ToSet
<1>2. QED
  BY <1>1, ListsItself

LEMMA RatesListedSet ==
  ASSUME NEW s, NEW S, Lists(s, S)
  PROVE  Rates!ToSet(s) = S /\ Len(s) \in Nat /\ DOMAIN s = 1 .. Len(s)
<1>1. Rates!ToSet(s) = ToSet(s)
  BY Zenon DEF Rates!ToSet, ToSet
<1>2. QED
  BY <1>1, ListedSet

--------------------------------
(* What experiment 1 measures: every configuration of the scheme, at every
   level, in every repetition, once *)

Configurations ==
  [transport : Rates!ToSet(knobs.transport), shards : Rates!ToSet(knobs.shards),
   batch : Rates!ToSet(knobs.batch), native : Rates!ToSet(knobs.native)]

Replays == [arm : Configurations, level : Rates!ToSet(levels), rep : 1 .. Repetitions]

Natives(t, s, b) ==
  [n \in DOMAIN knobs.native |->
     [transport |-> knobs.transport[t], shards |-> knobs.shards[s],
      batch |-> knobs.batch[b], native |-> knobs.native[n]]]

Batches(t, s) == Rates!FlattenSeq([b \in DOMAIN knobs.batch |-> Natives(t, s, b)])

Shardings(t) == Rates!FlattenSeq([s \in DOMAIN knobs.shards |-> Batches(t, s)])

NativesOf(x, y, z) ==
  [transport : {x}, shards : {y}, batch : {z}, native : Rates!ToSet(knobs.native)]

BatchesOf(x, y) ==
  [transport : {x}, shards : {y}, batch : Rates!ToSet(knobs.batch), native : Rates!ToSet(knobs.native)]

ShardingsOf(x) ==
  [transport : {x}, shards : Rates!ToSet(knobs.shards), batch : Rates!ToSet(knobs.batch),
   native : Rates!ToSet(knobs.native)]

LEMMA KnobsListed ==
  ASSUME Rates!Sweepable, knobs \in Schemes
  PROVE  /\ Lists(knobs.transport, Rates!ToSet(knobs.transport))
         /\ Lists(knobs.shards, Rates!ToSet(knobs.shards))
         /\ Lists(knobs.batch, Rates!ToSet(knobs.batch))
         /\ Lists(knobs.native, Rates!ToSet(knobs.native))
<1>1. Rates!ToSet(Rates!KnobNames) = {"transport", "shards", "batch", "native"}
  <2>1. DOMAIN Rates!KnobNames = 1 .. 4
    BY DEF Rates!KnobNames
  <2>2. \A i \in 1 .. 4 : i = 1 \/ i = 2 \/ i = 3 \/ i = 4
    OBVIOUS
  <2>3. Rates!KnobNames[1] = "transport" /\ Rates!KnobNames[2] = "shards" /\ Rates!KnobNames[3] = "batch"
        /\ Rates!KnobNames[4] = "native"
    BY DEF Rates!KnobNames
  <2>4. QED
    BY <2>1, <2>2, <2>3 DEF Rates!ToSet
<1>2. \A k \in Rates!ToSet(Rates!KnobNames) : IsSequence(knobs[k]) /\ Rates!IsInjective(knobs[k])
  BY DEF Rates!Sweepable, IsSequence
<1>3. \A k \in Rates!ToSet(Rates!KnobNames) : Lists(knobs[k], Rates!ToSet(knobs[k]))
  BY <1>2, RatesListsItself
<1>4. QED
  BY <1>1, <1>3

LEMMA NativesListed ==
  ASSUME NEW x, NEW y, NEW z, NEW v, Lists(v, Rates!ToSet(v))
  PROVE  Lists([n \in DOMAIN v |-> [transport |-> x, shards |-> y, batch |-> z,
                                    native |-> v[n]]],
               [transport : {x}, shards : {y}, batch : {z}, native : Rates!ToSet(v)])
<1> DEFINE V == Rates!ToSet(v)
           f == [w \in V |-> [transport |-> x, shards |-> y, batch |-> z, native |-> w]]
           s == [n \in DOMAIN v |-> [transport |-> x, shards |-> y, batch |-> z,
                                     native |-> v[n]]]
<1>1. \A w, u \in V : f[w] = f[u] => w = u
  OBVIOUS
<1>2. \A n \in DOMAIN v : v[n] \in V
  BY DEF Rates!ToSet
<1> HIDE DEF V
<1>3. [n \in DOMAIN v |-> f[v[n]]] = s
  BY <1>2
<1>4. {f[w] : w \in V} = [transport : {x}, shards : {y}, batch : {z}, native : V]
  <2>1. \A w \in V : f[w] \in [transport : {x}, shards : {y}, batch : {z}, native : V]
    OBVIOUS
  <2>2. ASSUME NEW r \in [transport : {x}, shards : {y}, batch : {z}, native : V]
        PROVE  r.native \in V /\ r = f[r.native]
    OBVIOUS
  <2> HIDE DEF f
  <2>3. QED
    BY <2>1, <2>2
<1>5. Lists([n \in DOMAIN v |-> f[v[n]]], {f[w] : w \in V})
  <2> HIDE DEF f
  <2>1. Lists(v, V)
    BY DEF V
  <2>2. QED
    BY <1>1, <2>1, ListsOf
<1>6. QED
  BY <1>3, <1>4, <1>5 DEF V

LEMMA BatchesListed ==
  ASSUME Rates!Sweepable, knobs \in Schemes,
         NEW t \in DOMAIN knobs.transport, NEW s \in DOMAIN knobs.shards
  PROVE  Lists(Batches(t, s), BatchesOf(knobs.transport[t], knobs.shards[s]))
<1> DEFINE x == knobs.transport[t]
           y == knobs.shards[s]
           B == knobs.batch
           rows == [i \in DOMAIN B |-> Natives(t, s, i)]
           kinds == [i \in DOMAIN B |-> NativesOf(x, y, B[i])]
<1>1. Lists(B, Rates!ToSet(B)) /\ Lists(knobs.native, Rates!ToSet(knobs.native))
  BY KnobsListed
<1>2. PICK n \in Nat : Len(B) = n /\ DOMAIN B = 1 .. n
  BY <1>1, SequenceFacts DEF Lists
<1>3. \A i \in DOMAIN B : Lists(Natives(t, s, i), NativesOf(x, y, B[i]))
  BY <1>1, NativesListed DEF Natives, NativesOf
<1>4. rows \in [1 .. n -> {Natives(t, s, i) : i \in DOMAIN B}]
  BY <1>2
<1>5. IsSequence(rows) /\ Len(rows) = n
  BY <1>4, FunctionIsSequence
<1>6. \A i \in 1 .. n : rows[i] = Natives(t, s, i) /\ kinds[i] = NativesOf(x, y, B[i])
  BY <1>2
<1>7. \A i \in 1 .. Len(rows) : Lists(rows[i], kinds[i])
  BY <1>2, <1>3, <1>5, <1>6
<1>8. \A i, k \in 1 .. n : i # k => kinds[i] \cap kinds[k] = {}
  <2>1. \A i, k \in 1 .. n : i # k => B[i] # B[k]
    BY <1>1, <1>2 DEF Lists, OneEach
  <2>2. ASSUME NEW i \in 1 .. n, NEW r \in kinds[i]
        PROVE  r.batch = B[i]
    <3>1. r \in [transport : {x}, shards : {y}, batch : {B[i]},
                                  native : Rates!ToSet(knobs.native)]
      BY <1>6, Zenon DEF NativesOf
    <3> HIDE DEF kinds, B, x, y
    <3>2. QED
      BY <3>1
  <2> HIDE DEF kinds, B
  <2>3. QED
    BY <2>1, <2>2
<1>9. UNION {kinds[i] : i \in 1 .. n} = BatchesOf(x, y)
  <2>1. Rates!ToSet(B) = {B[i] : i \in 1 .. n}
    BY <1>2 DEF Rates!ToSet
  <2>2. \A i \in 1 .. n : kinds[i] = [transport : {x}, shards : {y}, batch : {B[i]},
                                  native : Rates!ToSet(knobs.native)]
    BY <1>6 DEF NativesOf
  <2>3. BatchesOf(x, y) = [transport : {x}, shards : {y}, batch : Rates!ToSet(B), native : Rates!ToSet(knobs.native)]
    BY DEF BatchesOf
  <2> HIDE DEF kinds, B, x, y
  <2>4. ASSUME NEW i \in 1 .. n, NEW r \in kinds[i]
        PROVE  r \in BatchesOf(x, y)
    <3>1. r \in [transport : {x}, shards : {y}, batch : {B[i]},
                                  native : Rates!ToSet(knobs.native)]
      BY <2>2, Zenon
    <3>2. B[i] \in Rates!ToSet(B)
      BY <2>1
    <3>3. r \in [transport : {x}, shards : {y}, batch : Rates!ToSet(B), native : Rates!ToSet(knobs.native)]
      BY <3>1, <3>2
    <3>4. QED
      BY <2>3, <3>3, Zenon
  <2>5. ASSUME NEW r \in BatchesOf(x, y)
        PROVE  \E i \in 1 .. n : r \in kinds[i]
    <3>1. r \in [transport : {x}, shards : {y}, batch : Rates!ToSet(B), native : Rates!ToSet(knobs.native)]
      BY <2>3, Zenon
    <3>2. PICK i \in 1 .. n : r.batch = B[i]
      BY <2>1, <3>1
    <3>3. r \in [transport : {x}, shards : {y}, batch : {B[i]},
                                  native : Rates!ToSet(knobs.native)]
      BY <3>1, <3>2
    <3>4. r \in kinds[i]
      BY <2>2, <3>3, Zenon
    <3>5. QED
      BY <3>4
  <2>6. QED
    BY <2>4, <2>5
<1>10. Lists(Rates!FlattenSeq(rows), UNION {kinds[i] : i \in 1 .. Len(rows)})
  <2> HIDE DEF rows, kinds
  <2>1. QED
    BY <1>5, <1>7, <1>8, RatesFlattenLists, SMTT(20)
<1>11. QED
  BY <1>5, <1>9, <1>10 DEF Batches

LEMMA ShardingsListed ==
  ASSUME Rates!Sweepable, knobs \in Schemes, NEW t \in DOMAIN knobs.transport
  PROVE  Lists(Shardings(t), ShardingsOf(knobs.transport[t]))
<1> DEFINE x == knobs.transport[t]
           B == knobs.shards
           rows == [i \in DOMAIN B |-> Batches(t, i)]
           kinds == [i \in DOMAIN B |-> BatchesOf(x, B[i])]
<1>1. Lists(B, Rates!ToSet(B))
  BY KnobsListed
<1>2. PICK n \in Nat : Len(B) = n /\ DOMAIN B = 1 .. n
  BY <1>1, SequenceFacts DEF Lists
<1>3. \A i \in DOMAIN B : Lists(Batches(t, i), BatchesOf(x, B[i]))
  BY <1>1, BatchesListed
<1>4. rows \in [1 .. n -> {Batches(t, i) : i \in DOMAIN B}]
  BY <1>2
<1>5. IsSequence(rows) /\ Len(rows) = n
  BY <1>4, FunctionIsSequence
<1>6. \A i \in 1 .. n : rows[i] = Batches(t, i) /\ kinds[i] = BatchesOf(x, B[i])
  BY <1>2
<1>7. \A i \in 1 .. Len(rows) : Lists(rows[i], kinds[i])
  BY <1>2, <1>3, <1>5, <1>6
<1>8. \A i, k \in 1 .. n : i # k => kinds[i] \cap kinds[k] = {}
  <2>1. \A i, k \in 1 .. n : i # k => B[i] # B[k]
    BY <1>1, <1>2 DEF Lists, OneEach
  <2>2. ASSUME NEW i \in 1 .. n, NEW r \in kinds[i]
        PROVE  r.shards = B[i]
    <3>1. r \in [transport : {x}, shards : {B[i]}, batch : Rates!ToSet(knobs.batch),
                                  native : Rates!ToSet(knobs.native)]
      BY <1>6, Zenon DEF BatchesOf
    <3> HIDE DEF kinds, B, x
    <3>2. QED
      BY <3>1
  <2> HIDE DEF kinds, B
  <2>3. QED
    BY <2>1, <2>2
<1>9. UNION {kinds[i] : i \in 1 .. n} = ShardingsOf(x)
  <2>1. Rates!ToSet(B) = {B[i] : i \in 1 .. n}
    BY <1>2 DEF Rates!ToSet
  <2>2. \A i \in 1 .. n : kinds[i] = [transport : {x}, shards : {B[i]}, batch : Rates!ToSet(knobs.batch),
                                  native : Rates!ToSet(knobs.native)]
    BY <1>6 DEF BatchesOf
  <2>3. ShardingsOf(x) = [transport : {x}, shards : Rates!ToSet(B), batch : Rates!ToSet(knobs.batch),
                           native : Rates!ToSet(knobs.native)]
    BY DEF ShardingsOf
  <2> HIDE DEF kinds, B, x
  <2>4. ASSUME NEW i \in 1 .. n, NEW r \in kinds[i]
        PROVE  r \in ShardingsOf(x)
    <3>1. r \in [transport : {x}, shards : {B[i]}, batch : Rates!ToSet(knobs.batch),
                                  native : Rates!ToSet(knobs.native)]
      BY <2>2, Zenon
    <3>2. B[i] \in Rates!ToSet(B)
      BY <2>1
    <3>3. r \in [transport : {x}, shards : Rates!ToSet(B), batch : Rates!ToSet(knobs.batch),
                           native : Rates!ToSet(knobs.native)]
      BY <3>1, <3>2
    <3>4. QED
      BY <2>3, <3>3, Zenon
  <2>5. ASSUME NEW r \in ShardingsOf(x)
        PROVE  \E i \in 1 .. n : r \in kinds[i]
    <3>1. r \in [transport : {x}, shards : Rates!ToSet(B), batch : Rates!ToSet(knobs.batch),
                           native : Rates!ToSet(knobs.native)]
      BY <2>3, Zenon
    <3>2. PICK i \in 1 .. n : r.shards = B[i]
      BY <2>1, <3>1
    <3>3. r \in [transport : {x}, shards : {B[i]}, batch : Rates!ToSet(knobs.batch),
                                  native : Rates!ToSet(knobs.native)]
      BY <3>1, <3>2
    <3>4. r \in kinds[i]
      BY <2>2, <3>3, Zenon
    <3>5. QED
      BY <3>4
  <2>6. QED
    BY <2>4, <2>5
<1>10. Lists(Rates!FlattenSeq(rows), UNION {kinds[i] : i \in 1 .. Len(rows)})
  <2> HIDE DEF rows, kinds
  <2>1. QED
    BY <1>5, <1>7, <1>8, RatesFlattenLists, SMTT(20)
<1>11. QED
  BY <1>5, <1>9, <1>10 DEF Shardings

LEMMA ArmsListed ==
  ASSUME Rates!Sweepable, knobs \in Schemes
  PROVE  Lists(Rates!Arms, Configurations)
<1> DEFINE B == knobs.transport
           rows == [i \in DOMAIN B |-> Shardings(i)]
           kinds == [i \in DOMAIN B |-> ShardingsOf(B[i])]
<1>1. Lists(B, Rates!ToSet(B))
  BY KnobsListed
<1>2. PICK n \in Nat : Len(B) = n /\ DOMAIN B = 1 .. n
  BY <1>1, SequenceFacts DEF Lists
<1>3. \A i \in DOMAIN B : Lists(Shardings(i), ShardingsOf(B[i]))
  BY <1>1, ShardingsListed
<1>4. rows \in [1 .. n -> {Shardings(i) : i \in DOMAIN B}]
  BY <1>2
<1>5. IsSequence(rows) /\ Len(rows) = n
  BY <1>4, FunctionIsSequence
<1>6. \A i \in 1 .. n : rows[i] = Shardings(i) /\ kinds[i] = ShardingsOf(B[i])
  BY <1>2
<1>7. \A i \in 1 .. Len(rows) : Lists(rows[i], kinds[i])
  BY <1>2, <1>3, <1>5, <1>6
<1>8. \A i, k \in 1 .. n : i # k => kinds[i] \cap kinds[k] = {}
  <2>1. \A i, k \in 1 .. n : i # k => B[i] # B[k]
    BY <1>1, <1>2 DEF Lists, OneEach
  <2>2. ASSUME NEW i \in 1 .. n, NEW r \in kinds[i]
        PROVE  r.transport = B[i]
    <3>1. r \in [transport : {B[i]}, shards : Rates!ToSet(knobs.shards),
                                  batch : Rates!ToSet(knobs.batch), native : Rates!ToSet(knobs.native)]
      BY <1>6, Zenon DEF ShardingsOf
    <3> HIDE DEF kinds, B
    <3>2. QED
      BY <3>1
  <2> HIDE DEF kinds, B
  <2>3. QED
    BY <2>1, <2>2
<1>9. UNION {kinds[i] : i \in 1 .. n} = Configurations
  <2>1. Rates!ToSet(B) = {B[i] : i \in 1 .. n}
    BY <1>2 DEF Rates!ToSet
  <2>2. \A i \in 1 .. n : kinds[i] = [transport : {B[i]}, shards : Rates!ToSet(knobs.shards),
                                  batch : Rates!ToSet(knobs.batch), native : Rates!ToSet(knobs.native)]
    BY <1>6 DEF ShardingsOf
  <2>3. Configurations = [transport : Rates!ToSet(B), shards : Rates!ToSet(knobs.shards),
                           batch : Rates!ToSet(knobs.batch), native : Rates!ToSet(knobs.native)]
    BY DEF Configurations
  <2> HIDE DEF kinds, B
  <2>4. ASSUME NEW i \in 1 .. n, NEW r \in kinds[i]
        PROVE  r \in Configurations
    <3>1. r \in [transport : {B[i]}, shards : Rates!ToSet(knobs.shards),
                                  batch : Rates!ToSet(knobs.batch), native : Rates!ToSet(knobs.native)]
      BY <2>2, Zenon
    <3>2. B[i] \in Rates!ToSet(B)
      BY <2>1
    <3>3. r \in [transport : Rates!ToSet(B), shards : Rates!ToSet(knobs.shards),
                           batch : Rates!ToSet(knobs.batch), native : Rates!ToSet(knobs.native)]
      BY <3>1, <3>2
    <3>4. QED
      BY <2>3, <3>3, Zenon
  <2>5. ASSUME NEW r \in Configurations
        PROVE  \E i \in 1 .. n : r \in kinds[i]
    <3>1. r \in [transport : Rates!ToSet(B), shards : Rates!ToSet(knobs.shards),
                           batch : Rates!ToSet(knobs.batch), native : Rates!ToSet(knobs.native)]
      BY <2>3, Zenon
    <3>2. PICK i \in 1 .. n : r.transport = B[i]
      BY <2>1, <3>1
    <3>3. r \in [transport : {B[i]}, shards : Rates!ToSet(knobs.shards),
                                  batch : Rates!ToSet(knobs.batch), native : Rates!ToSet(knobs.native)]
      BY <3>1, <3>2
    <3>4. r \in kinds[i]
      BY <2>2, <3>3, Zenon
    <3>5. QED
      BY <3>4
  <2>6. QED
    BY <2>4, <2>5
<1>10. Lists(Rates!FlattenSeq(rows), UNION {kinds[i] : i \in 1 .. Len(rows)})
  <2> HIDE DEF rows, kinds
  <2>1. QED
    BY <1>5, <1>7, <1>8, RatesFlattenLists, SMTT(20)
<1>11. QED
  BY <1>5, <1>9, <1>10 DEF Rates!Arms, Shardings, Batches, Natives, Rates!Swept

(* The function that RestrictLevels chooses. *)
Keep(s, level, picked) == IF level \in picked THEN Append(s, level) ELSE s

KeptOf(picked, n) ==
  CHOOSE kept : kept = [k \in 0 .. n |-> IF k = 0 THEN <<>>
                                         ELSE Keep(kept[k - 1], Concurrency[k], picked)]

LEMMA KeptDefined ==
  ASSUME NEW picked, NEW n \in Nat
  PROVE  KeptOf(picked, n) = [k \in 0 .. n |->
                                IF k = 0 THEN <<>>
                                ELSE Keep(KeptOf(picked, n)[k - 1], Concurrency[k], picked)]
<1> DEFINE P == {m \in Nat : \E f :
                    f = [k \in 0 .. m |-> IF k = 0 THEN <<>>
                                          ELSE Keep(f[k - 1], Concurrency[k], picked)]}
<1>1. 0 \in P
  <2>1. PICK f : f = [k \in 0 .. 0 |-> <<>>]
    OBVIOUS
  <2>2. f = [k \in 0 .. 0 |-> IF k = 0 THEN <<>> ELSE Keep(f[k - 1], Concurrency[k], picked)]
    BY <2>1
  <2>3. QED
    BY <2>2, Zenon
<1>2. ASSUME NEW m \in Nat, m \in P
      PROVE  m + 1 \in P
  <2>1. PICK f : f = [k \in 0 .. m |-> IF k = 0 THEN <<>>
                                       ELSE Keep(f[k - 1], Concurrency[k], picked)]
    BY <1>2, Zenon
  <2>2. PICK g : g = [k \in 0 .. m + 1 |->
                        IF k <= m THEN f[k] ELSE Keep(f[m], Concurrency[m + 1], picked)]
    OBVIOUS
  <2>3. ASSUME NEW k \in 0 .. m + 1
        PROVE  g[k] = IF k = 0 THEN <<>> ELSE Keep(g[k - 1], Concurrency[k], picked)
    <3>1. CASE k = 0
      BY <3>1, <2>1, <2>2
    <3>2. CASE k # 0
      <4>1. k - 1 \in 0 .. m /\ k - 1 \in 0 .. m + 1 /\ (k <= m \/ (k - 1 = m /\ k = m + 1))
        BY <3>2
      <4>2. g[k - 1] = f[k - 1]
        BY <4>1, <2>2
      <4>3. CASE k <= m
        <5>1. g[k] = f[k] /\ k \in 0 .. m
          BY <4>3, <2>2
        <5>2. f[k] = Keep(f[k - 1], Concurrency[k], picked)
          BY <5>1, <3>2, <2>1
        <5>3. QED
          BY <5>1, <5>2, <4>2, <3>2
      <4>4. CASE ~(k <= m)
        BY <4>1, <4>2, <4>4, <3>2, <2>2
      <4>5. QED
        BY <4>3, <4>4
    <3>3. QED
      BY <3>1, <3>2
  <2>4. g = [k \in 0 .. m + 1 |-> IF k = 0 THEN <<>> ELSE Keep(g[k - 1], Concurrency[k], picked)]
    BY <2>2, <2>3
  <2>5. m + 1 \in Nat
    OBVIOUS
  <2>6. QED
    BY <2>4, <2>5, Zenon
<1>3. n \in P
  <2> HIDE DEF P
  <2>1. QED
    BY <1>1, <1>2, SetInduction
<1>4. \E f : f = [k \in 0 .. n |-> IF k = 0 THEN <<>>
                                   ELSE Keep(f[k - 1], Concurrency[k], picked)]
  BY <1>3, Zenon
<1>5. QED
  BY <1>4, Zenon DEF KeptOf

(* A part of the levels is in their order, and each is in it once. *)
LEMMA RestrictedLevels ==
  ASSUME Rates!Sweepable, NEW picked
  PROVE  Lists(Rates!RestrictLevels(picked), Rates!ToSet(Concurrency) \cap picked)
<1>1. Lists(Concurrency, Rates!ToSet(Concurrency))
  BY RatesListsItself DEF Rates!Sweepable, IsSequence
<1>2. PICK n \in Nat : n = Len(Concurrency) /\ DOMAIN Concurrency = 1 .. n
  BY <1>1, RatesListedSet
<1> DEFINE f == KeptOf(picked, n)
           seen(k) == {Concurrency[i] : i \in 1 .. k} \cap picked
<1>3. Rates!RestrictLevels(picked) = f[n]
  BY <1>2, Zenon DEF Rates!RestrictLevels, KeptOf, Keep
<1>4. \A k \in 0 .. n : f[k] = IF k = 0 THEN <<>> ELSE Keep(f[k - 1], Concurrency[k], picked)
  <2>1. f = [k \in 0 .. n |-> IF k = 0 THEN <<>> ELSE Keep(f[k - 1], Concurrency[k], picked)]
    BY KeptDefined
  <2> HIDE DEF f
  <2>2. QED
    BY <2>1, Zenon
<1> HIDE DEF f
<1> DEFINE P == {k \in Nat : k <= n => Lists(f[k], seen(k))}
<1>5. 0 \in P
  <2>1. f[0] = <<>>
    BY <1>4
  <2>2. Lists(<<>>, {})
    BY DEF Lists, OneEach, IsSequence
  <2>3. seen(0) = {}
    OBVIOUS
  <2>4. QED
    BY <2>1, <2>2, <2>3
<1>6. ASSUME NEW k \in Nat, k \in P
      PROVE  k + 1 \in P
  <2> SUFFICES ASSUME k + 1 <= n
               PROVE  Lists(f[k + 1], seen(k + 1))
    OBVIOUS
  <2>1. Lists(f[k], seen(k))
    BY <1>6
  <2>2. k + 1 \in 0 .. n /\ k + 1 # 0 /\ (k + 1) - 1 = k /\ k + 1 \in 1 .. n
    OBVIOUS
  <2>3. f[k + 1] = Keep(f[k], Concurrency[k + 1], picked)
    BY <1>4, <2>2
  <2>4. {Concurrency[i] : i \in 1 .. k + 1} = {Concurrency[i] : i \in 1 .. k} \cup {Concurrency[k + 1]}
    <3>1. \A i \in 1 .. k + 1 : i \in 1 .. k \/ i = k + 1
      OBVIOUS
    <3>2. QED
      BY <3>1
  <2>5. Concurrency[k + 1] \notin {Concurrency[i] : i \in 1 .. k}
    BY <1>1, <1>2, <2>2 DEF Lists, OneEach
  <2>6. CASE Concurrency[k + 1] \in picked
    <3>1. seen(k + 1) = seen(k) \cup {Concurrency[k + 1]} /\ Concurrency[k + 1] \notin seen(k)
      BY <2>4, <2>5, <2>6
    <3> HIDE DEF seen
    <3>2. QED
      BY <2>1, <2>3, <2>6, <3>1, ListsMore DEF Keep
  <2>7. CASE Concurrency[k + 1] \notin picked
    <3>1. seen(k + 1) = seen(k)
      BY <2>4, <2>5, <2>7
    <3> HIDE DEF seen
    <3>2. QED
      BY <2>1, <2>3, <2>7, <3>1 DEF Keep
  <2>8. QED
    BY <2>6, <2>7
<1>7. Lists(f[n], seen(n))
  <2>1. n \in P
    <3> HIDE DEF P
    <3>1. QED
      BY <1>5, <1>6, SetInduction
  <2>2. QED
    BY <2>1
<1>8. seen(n) = Rates!ToSet(Concurrency) \cap picked
  BY <1>2 DEF Rates!ToSet
<1>9. QED
  BY <1>3, <1>7, <1>8

--------------------------------
(* The replays, in the order of the nested loops *)

RunsOf(arm, level) == [arm : {arm}, level : {level}, rep : 1 .. Repetitions]

Runs(arm, level) ==
  [r \in 1 .. Repetitions |-> [arm |-> arm, level |-> level, rep |-> r]]

AtLevels(arm) == Rates!FlattenSeq([l \in DOMAIN levels |-> Runs(arm, levels[l])])

LevelsOf(arm) == [arm : {arm}, level : Rates!ToSet(levels), rep : 1 .. Repetitions]

LEMMA RunsListed ==
  ASSUME Rates!Sweepable, NEW arm, NEW level
  PROVE  Lists(Runs(arm, level), RunsOf(arm, level))
<1> DEFINE s == Runs(arm, level)
<1>1. Repetitions \in Nat
  BY DEF Rates!Sweepable
<1>2. s \in [1 .. Repetitions -> RunsOf(arm, level)]
  BY DEF Runs, RunsOf
<1>3. IsSequence(s) /\ Len(s) = Repetitions
  <2> HIDE DEF s
  <2>1. QED
    BY <1>1, <1>2, FunctionIsSequence
<1>4. \A r \in 1 .. Repetitions : s[r] = [arm |-> arm, level |-> level, rep |-> r]
  BY DEF Runs
<1>5. \A r \in 1 .. Repetitions : s[r].rep = r
  <2> SUFFICES ASSUME NEW r \in 1 .. Repetitions PROVE s[r].rep = r
    OBVIOUS
  <2>1. s[r] = [arm |-> arm, level |-> level, rep |-> r]
    BY <1>4
  <2>2. [arm |-> arm, level |-> level, rep |-> r].rep = r
    OBVIOUS
  <2>3. QED
    BY <2>1, <2>2, Zenon
<1>6. ASSUME NEW c \in RunsOf(arm, level)
      PROVE  \E r \in 1 .. Repetitions : s[r] = c
  <2>1. c.rep \in 1 .. Repetitions /\ c = [arm |-> arm, level |-> level, rep |-> c.rep]
    BY DEF RunsOf
  <2>2. QED
    BY <1>4, <2>1
<1>7. OneEach(s)
  <2> HIDE DEF s
  <2>1. QED
    BY <1>3, <1>5 DEF OneEach
<1>8. QED
  BY <1>2, <1>3, <1>6, <1>7 DEF Lists

LEMMA LevelsListed ==
  ASSUME Rates!Sweepable, Lists(levels, Rates!ToSet(levels)), NEW arm
  PROVE  Lists(AtLevels(arm), LevelsOf(arm))
<1> DEFINE B == levels
           rows == [i \in DOMAIN B |-> Runs(arm, B[i])]
           kinds == [i \in DOMAIN B |-> RunsOf(arm, B[i])]
<1>1. Lists(B, Rates!ToSet(B))
  OBVIOUS
<1>2. PICK n \in Nat : Len(B) = n /\ DOMAIN B = 1 .. n
  BY <1>1, SequenceFacts DEF Lists
<1>3. \A i \in DOMAIN B : Lists(Runs(arm, B[i]), RunsOf(arm, B[i]))
  BY <1>1, RunsListed
<1>4. rows \in [1 .. n -> {Runs(arm, B[i]) : i \in DOMAIN B}]
  BY <1>2
<1>5. IsSequence(rows) /\ Len(rows) = n
  BY <1>4, FunctionIsSequence
<1>6. \A i \in 1 .. n : rows[i] = Runs(arm, B[i]) /\ kinds[i] = RunsOf(arm, B[i])
  BY <1>2
<1>7. \A i \in 1 .. Len(rows) : Lists(rows[i], kinds[i])
  BY <1>2, <1>3, <1>5, <1>6
<1>8. \A i, k \in 1 .. n : i # k => kinds[i] \cap kinds[k] = {}
  <2>1. \A i, k \in 1 .. n : i # k => B[i] # B[k]
    BY <1>1, <1>2 DEF Lists, OneEach
  <2>2. ASSUME NEW i \in 1 .. n, NEW r \in kinds[i]
        PROVE  r.level = B[i]
    <3>1. r \in [arm : {arm}, level : {B[i]}, rep : 1 .. Repetitions]
      BY <1>6, Zenon DEF RunsOf
    <3> HIDE DEF kinds, B
    <3>2. QED
      BY <3>1
  <2> HIDE DEF kinds, B
  <2>3. QED
    BY <2>1, <2>2
<1>9. UNION {kinds[i] : i \in 1 .. n} = LevelsOf(arm)
  <2>1. Rates!ToSet(B) = {B[i] : i \in 1 .. n}
    BY <1>2 DEF Rates!ToSet
  <2>2. \A i \in 1 .. n : kinds[i] = [arm : {arm}, level : {B[i]}, rep : 1 .. Repetitions]
    BY <1>6 DEF RunsOf
  <2>3. LevelsOf(arm) = [arm : {arm}, level : Rates!ToSet(B), rep : 1 .. Repetitions]
    BY DEF LevelsOf
  <2> HIDE DEF kinds, B
  <2>4. ASSUME NEW i \in 1 .. n, NEW r \in kinds[i]
        PROVE  r \in LevelsOf(arm)
    <3>1. r \in [arm : {arm}, level : {B[i]}, rep : 1 .. Repetitions]
      BY <2>2, Zenon
    <3>2. B[i] \in Rates!ToSet(B)
      BY <2>1
    <3>3. r \in [arm : {arm}, level : Rates!ToSet(B), rep : 1 .. Repetitions]
      BY <3>1, <3>2
    <3>4. QED
      BY <2>3, <3>3, Zenon
  <2>5. ASSUME NEW r \in LevelsOf(arm)
        PROVE  \E i \in 1 .. n : r \in kinds[i]
    <3>1. r \in [arm : {arm}, level : Rates!ToSet(B), rep : 1 .. Repetitions]
      BY <2>3, Zenon
    <3>2. PICK i \in 1 .. n : r.level = B[i]
      BY <2>1, <3>1
    <3>3. r \in [arm : {arm}, level : {B[i]}, rep : 1 .. Repetitions]
      BY <3>1, <3>2
    <3>4. r \in kinds[i]
      BY <2>2, <3>3, Zenon
    <3>5. QED
      BY <3>4
  <2>6. QED
    BY <2>4, <2>5
<1>10. Lists(Rates!FlattenSeq(rows), UNION {kinds[i] : i \in 1 .. Len(rows)})
  <2> HIDE DEF rows, kinds
  <2>1. QED
    BY <1>5, <1>7, <1>8, RatesFlattenLists, SMTT(20)
<1>11. QED
  BY <1>5, <1>9, <1>10 DEF AtLevels

LEMMA CellsListed ==
  ASSUME Rates!Sweepable, knobs \in Schemes, Lists(levels, Rates!ToSet(levels))
  PROVE  Lists(Rates!Cells, Replays)
<1> DEFINE B == Rates!Arms
           rows == [i \in DOMAIN B |-> AtLevels(B[i])]
           kinds == [i \in DOMAIN B |-> LevelsOf(B[i])]
<1>1. Lists(B, Rates!ToSet(B)) /\ Rates!ToSet(B) = Configurations
  BY ArmsListed, RatesListedSet
<1>2. PICK n \in Nat : Len(B) = n /\ DOMAIN B = 1 .. n
  BY <1>1, SequenceFacts DEF Lists
<1>3. \A i \in DOMAIN B : Lists(AtLevels(B[i]), LevelsOf(B[i]))
  BY <1>1, LevelsListed
<1>4. rows \in [1 .. n -> {AtLevels(B[i]) : i \in DOMAIN B}]
  BY <1>2
<1>5. IsSequence(rows) /\ Len(rows) = n
  BY <1>4, FunctionIsSequence
<1>6. \A i \in 1 .. n : rows[i] = AtLevels(B[i]) /\ kinds[i] = LevelsOf(B[i])
  BY <1>2
<1>7. \A i \in 1 .. Len(rows) : Lists(rows[i], kinds[i])
  BY <1>2, <1>3, <1>5, <1>6
<1>8. \A i, k \in 1 .. n : i # k => kinds[i] \cap kinds[k] = {}
  <2>1. \A i, k \in 1 .. n : i # k => B[i] # B[k]
    BY <1>1, <1>2 DEF Lists, OneEach
  <2>2. ASSUME NEW i \in 1 .. n, NEW r \in kinds[i]
        PROVE  r.arm = B[i]
    <3>1. r \in [arm : {B[i]}, level : Rates!ToSet(levels), rep : 1 .. Repetitions]
      BY <1>6, Zenon DEF LevelsOf
    <3> HIDE DEF kinds, B
    <3>2. QED
      BY <3>1
  <2> HIDE DEF kinds, B
  <2>3. QED
    BY <2>1, <2>2
<1>9. UNION {kinds[i] : i \in 1 .. n} = Replays
  <2>1. Rates!ToSet(B) = {B[i] : i \in 1 .. n}
    BY <1>2 DEF Rates!ToSet
  <2>2. \A i \in 1 .. n : kinds[i] = [arm : {B[i]}, level : Rates!ToSet(levels), rep : 1 .. Repetitions]
    BY <1>6 DEF LevelsOf
  <2>3. Replays = [arm : Rates!ToSet(B), level : Rates!ToSet(levels), rep : 1 .. Repetitions]
    BY <1>1 DEF Replays
  <2> HIDE DEF kinds, B
  <2>4. ASSUME NEW i \in 1 .. n, NEW r \in kinds[i]
        PROVE  r \in Replays
    <3>1. r \in [arm : {B[i]}, level : Rates!ToSet(levels), rep : 1 .. Repetitions]
      BY <2>2, Zenon
    <3>2. B[i] \in Rates!ToSet(B)
      BY <2>1
    <3>3. r \in [arm : Rates!ToSet(B), level : Rates!ToSet(levels), rep : 1 .. Repetitions]
      BY <3>1, <3>2
    <3>4. QED
      BY <2>3, <3>3, Zenon
  <2>5. ASSUME NEW r \in Replays
        PROVE  \E i \in 1 .. n : r \in kinds[i]
    <3>1. r \in [arm : Rates!ToSet(B), level : Rates!ToSet(levels), rep : 1 .. Repetitions]
      BY <2>3, Zenon
    <3>2. PICK i \in 1 .. n : r.arm = B[i]
      BY <2>1, <3>1
    <3>3. r \in [arm : {B[i]}, level : Rates!ToSet(levels), rep : 1 .. Repetitions]
      BY <3>1, <3>2
    <3>4. r \in kinds[i]
      BY <2>2, <3>3, Zenon
    <3>5. QED
      BY <3>4
  <2>6. QED
    BY <2>4, <2>5
<1>10. Lists(Rates!FlattenSeq(rows), UNION {kinds[i] : i \in 1 .. Len(rows)})
  <2> HIDE DEF rows, kinds
  <2>1. QED
    BY <1>5, <1>7, <1>8, RatesFlattenLists, SMTT(20)
<1>11. QED
  BY <1>5, <1>9, <1>10 DEF Rates!Cells, AtLevels, Runs

--------------------------------
(* The workers, as many as the highest level has *)

LEMMA WorkersAre ==
  ASSUME Rates!Sweepable
  PROVE  /\ IsFiniteSet(Rates!Workers)
         /\ \A l \in Rates!ToSet(Concurrency) : l \in Nat \ {0} /\ l \in Rates!Workers
         /\ 1 \in Rates!Workers
<1>1. Lists(Concurrency, Rates!ToSet(Concurrency))
  BY RatesListsItself DEF Rates!Sweepable, IsSequence
<1>2. PICK n \in Nat : n = Len(Concurrency) /\ DOMAIN Concurrency = 1 .. n
  BY <1>1, RatesListedSet
<1>3. n # 0 /\ \A i \in 1 .. n : Concurrency[i] \in Nat \ {0}
  BY <1>2 DEF Rates!Sweepable
<1> DEFINE P == {k \in Nat : k + 1 <= n =>
                    \E c \in 1 .. k + 1 : \A i \in 1 .. k + 1 : Concurrency[i] <= Concurrency[c]}
<1>4. 0 \in P
  BY <1>2, <1>3
<1>5. ASSUME NEW k \in Nat, k \in P
      PROVE  k + 1 \in P
  <2> SUFFICES ASSUME (k + 1) + 1 <= n
               PROVE  \E c \in 1 .. (k + 1) + 1 :
                        \A i \in 1 .. (k + 1) + 1 : Concurrency[i] <= Concurrency[c]
    OBVIOUS
  <2>1. PICK c \in 1 .. k + 1 : \A i \in 1 .. k + 1 : Concurrency[i] <= Concurrency[c]
    BY <1>5
  <2>2. PICK m \in Nat : m = (k + 1) + 1
    OBVIOUS
  <2>3. c \in 1 .. n /\ m \in 1 .. n /\ c \in 1 .. m
    BY <2>2
  <2>4. PICK x \in Nat, y \in Nat : x = Concurrency[c] /\ y = Concurrency[m]
    BY <1>3, <2>3
  <2>5. \A i \in 1 .. m : i = m \/ i \in 1 .. k + 1
    BY <2>2
  <2>6. \A i \in 1 .. k + 1 : Concurrency[i] \in Nat
    BY <1>3
  <2>7. CASE x <= y
    <3>1. \A i \in 1 .. m : Concurrency[i] <= Concurrency[m]
      BY <2>1, <2>4, <2>5, <2>6, <2>7
    <3>2. QED
      BY <2>2, <2>3, <3>1
  <2>8. CASE ~(x <= y)
    <3>1. \A i \in 1 .. m : Concurrency[i] <= Concurrency[c]
      BY <2>1, <2>4, <2>5, <2>6, <2>8
    <3>2. QED
      BY <2>2, <2>3, <3>1
  <2>9. QED
    BY <2>7, <2>8
<1>6. n - 1 \in P
  <2>1. n - 1 \in Nat
    BY <1>3
  <2> HIDE DEF P
  <2>2. QED
    BY <1>4, <1>5, <2>1, SetInduction
<1>7. PICK c \in 1 .. n : \A i \in 1 .. n : Concurrency[i] <= Concurrency[c]
  BY <1>6
<1> DEFINE most == CHOOSE l \in Rates!ToSet(Concurrency) : \A d \in Rates!ToSet(Concurrency) : d <= l
<1>8. Rates!ToSet(Concurrency) = {Concurrency[i] : i \in 1 .. n}
  BY <1>2 DEF Rates!ToSet
<1>9. Concurrency[c] \in Rates!ToSet(Concurrency) /\ \A d \in Rates!ToSet(Concurrency) : d <= Concurrency[c]
  BY <1>7, <1>8
<1>10. most \in Rates!ToSet(Concurrency) /\ \A d \in Rates!ToSet(Concurrency) : d <= most
  BY <1>9
<1>11. Rates!Workers = 1 .. most
  BY Zenon DEF Rates!Workers
<1> HIDE DEF most
<1>12. \A l \in Rates!ToSet(Concurrency) : l \in Nat \ {0}
  BY <1>3, <1>8
<1>13. most \in Nat \ {0} /\ \A l \in Rates!ToSet(Concurrency) : l <= most
  BY <1>10, <1>12
<1>14. IsFiniteSet(1 .. most)
  BY <1>13, FS_Interval
<1>15. QED
  BY <1>11, <1>12, <1>13, <1>14

--------------------------------
(* The invariant of experiment 1 *)

(* The sweep is fixed from the start, and lists each replay once. *)
SweepFixed ==
  /\ knobs \in Schemes
  /\ Rates!ToSet(levels) \subseteq Rates!ToSet(Concurrency)
  /\ Lists(cells, Replays)

RatesTyped ==
  /\ cell \in 0 .. Len(cells)
  /\ cursor \in Nat
  /\ drawn \in [Rates!Workers -> {"none", "drawing", "asking", "left"}]
  /\ tally \in [granted : Nat, denied : Nat, errors : Nat]
  /\ cancelled \in BOOLEAN /\ interrupted \in BOOLEAN
  /\ status \in {"on", "measuring", "done", "failed"}
  /\ IsSequence(opened) /\ IsSequence(measured) /\ IsSequence(base)

(* A replay has its cell and its point, and workers only while it lasts. *)
ReplayHasCell ==
  /\ status = "measuring" => cell # 0
  /\ status # "measuring" => \A w \in Rates!Workers : drawn[w] = "none"
  /\ Len(base) <= Len(measured)
  /\ Len(measured) <= IF status = "measuring" THEN cell - 1 ELSE cell

(* The scheme is in the configuration that is measured. *)
InConfiguration ==
  /\ system.transport \in Rates!ToSet(knobs.transport)
  /\ cell # 0 => \A k \in Rates!Applicable(Rates!Current.arm) : system[k] = Rates!Current.arm[k]

AskingWorkers == {w \in Rates!Workers : drawn[w] = "asking"}

Drawn == tally.granted + tally.denied + tally.errors + Cardinality(AskingWorkers)

(* Every request drawn is answered or being asked for; unless runCtx ends the
   workers draw the whole trace. *)
EveryRequestDrawn ==
  /\ Drawn <= TraceLen /\ Drawn <= cursor
  /\ cancelled => tally.errors # 0
  /\ status = "measuring" =>
       /\ drawn[1] # "none"
       /\ ~cancelled /\ ~interrupted =>
            /\ Drawn = cursor \/ (Drawn = TraceLen /\ TraceLen <= cursor)
            /\ \A w \in Rates!Workers : drawn[w] = "left" => TraceLen <= cursor

Labelled(p) ==
  /\ \A k \in Rates!Applicable(p.label) : p.measured[k] = p.label[k]
  /\ p.interrupted \/ p.answers.granted + p.answers.denied = TraceLen

PointsLabelled == \A i \in 1 .. Len(measured) : Labelled(measured[i])

(* A contract round is named by the cell that opened it and the request. *)
NamedBy(o, c) ==
  /\ o.transport # NotApplicable => cells[c].arm.transport = o.transport
  /\ o.tag = Rates!ReplayTag(cells[c])
  /\ c = cell => o.request < cursor /\ o.request \in Nat

RoundsNamed ==
  \A i \in 1 .. Len(opened) : \E c \in 1 .. cell : NamedBy(opened[i], c)

RoundsApart ==
  \A i, j \in 1 .. Len(opened) :
    opened[i] = opened[j] /\ opened[i].transport # NotApplicable => i = j

RatesInv ==
  /\ SweepFixed /\ RatesTyped /\ ReplayHasCell /\ InConfiguration
  /\ EveryRequestDrawn /\ PointsLabelled /\ RoundsNamed /\ RoundsApart

LEMMA KnobNamesAre == Rates!ToSet(Rates!KnobNames) = {"transport", "shards", "batch", "native"}
<1>1. DOMAIN Rates!KnobNames = 1 .. 4
  BY DEF Rates!KnobNames
<1>2. \A i \in 1 .. 4 : i = 1 \/ i = 2 \/ i = 3 \/ i = 4
  OBVIOUS
<1>3. /\ Rates!KnobNames[1] = "transport" /\ Rates!KnobNames[2] = "shards"
      /\ Rates!KnobNames[3] = "batch" /\ Rates!KnobNames[4] = "native"
  BY DEF Rates!KnobNames
<1>4. QED
  BY <1>1, <1>2, <1>3 DEF Rates!ToSet

LEMMA CellIs ==
  ASSUME SweepFixed, NEW c \in 1 .. Len(cells)
  PROVE  /\ cells[c].arm \in Configurations
         /\ cells[c].level \in Rates!ToSet(Concurrency)
         /\ cells[c].rep \in 1 .. Repetitions
         /\ cells[c] = [arm |-> cells[c].arm, level |-> cells[c].level, rep |-> cells[c].rep]
<1>1. cells[c] \in Replays
  BY DEF SweepFixed, Lists
<1>2. QED
  BY <1>1 DEF Replays, SweepFixed

(* A replay over a transport is named by it, the level and the repetition. *)
LEMMA ReplayNamed ==
  ASSUME Rates!Sweepable, SweepFixed, NEW c \in 1 .. Len(cells), NEW d \in 1 .. Len(cells),
         cells[c].arm.transport = cells[d].arm.transport,
         cells[c].arm.transport # NotApplicable,
         Rates!ReplayTag(cells[c]) = Rates!ReplayTag(cells[d])
  PROVE  c = d
<1>1. cells[c].level = cells[d].level /\ cells[c].rep = cells[d].rep
  BY DEF Rates!ReplayTag
<1>2. cells[c].arm \in Configurations /\ cells[d].arm \in Configurations
  BY CellIs
<1>3. knobs.transport # <<NotApplicable>>
  <2>1. cells[c].arm.transport \in Rates!ToSet(knobs.transport)
    BY <1>2 DEF Configurations
  <2>2. Rates!ToSet(<<NotApplicable>>) = {NotApplicable}
    BY DEF Rates!ToSet
  <2>3. QED
    BY <2>1, <2>2
<1>4. /\ knobs["shards"] = <<NotApplicable>> /\ knobs["batch"] = <<NotApplicable>>
      /\ knobs["native"] = <<NotApplicable>>
  <2>1. \A k \in Rates!ToSet(Rates!KnobNames) \ {"transport"} : knobs[k] = <<NotApplicable>>
    BY <1>3 DEF Rates!Sweepable, SweepFixed
  <2>2. QED
    BY <2>1, KnobNamesAre
<1>5. cells[c].arm = cells[d].arm
  <2>1. Rates!ToSet(<<NotApplicable>>) = {NotApplicable}
    BY DEF Rates!ToSet
  <2>2. /\ Rates!ToSet(knobs.shards) = {NotApplicable} /\ Rates!ToSet(knobs.batch) = {NotApplicable}
        /\ Rates!ToSet(knobs.native) = {NotApplicable}
    BY <1>4, <2>1
  <2>3. Configurations = [transport : Rates!ToSet(knobs.transport), shards : {NotApplicable},
                          batch : {NotApplicable}, native : {NotApplicable}]
    BY <2>2 DEF Configurations
  <2>4. QED
    BY <1>2, <2>3
<1>6. cells[c] = cells[d]
  <2>1. /\ cells[c] = [arm |-> cells[c].arm, level |-> cells[c].level, rep |-> cells[c].rep]
        /\ cells[d] = [arm |-> cells[d].arm, level |-> cells[d].level, rep |-> cells[d].rep]
    BY CellIs
  <2>2. QED
    BY <1>1, <1>5, <2>1, Zenon
<1>7. QED
  BY <1>6 DEF SweepFixed, Lists, OneEach

(* While it is measured, the transport of the scheme is that of the cell. *)
LEMMA TransportIs ==
  ASSUME Rates!Sweepable, SweepFixed, InConfiguration, cell \in 1 .. Len(cells),
         system.transport # NotApplicable
  PROVE  Rates!Current.arm.transport = system.transport
<1>1. Rates!Current.arm.transport \in Rates!ToSet(knobs.transport)
  BY CellIs DEF Rates!Current, Configurations
<1>2. NotApplicable \notin Rates!ToSet(knobs.transport)
  <2>1. "transport" \in Rates!ToSet(Rates!KnobNames)
    BY KnobNamesAre
  <2>2. knobs["transport"] = <<NotApplicable>> \/ NotApplicable \notin Rates!ToSet(knobs["transport"])
    BY <2>1 DEF Rates!Sweepable, SweepFixed
  <2>3. Rates!ToSet(<<NotApplicable>>) = {NotApplicable}
    BY DEF Rates!ToSet
  <2>4. QED
    BY <2>2, <2>3 DEF InConfiguration
<1>3. "transport" \in Rates!Applicable(Rates!Current.arm)
  BY <1>1, <1>2, KnobNamesAre DEF Rates!Applicable
<1>4. QED
  BY <1>3 DEF InConfiguration

LEMMA AskingFinite ==
  ASSUME Rates!Sweepable
  PROVE  IsFiniteSet(AskingWorkers) /\ Cardinality(AskingWorkers) \in Nat
<1>1. IsFiniteSet(AskingWorkers)
  BY WorkersAre, FS_Subset DEF AskingWorkers
<1>2. QED
  BY <1>1, FS_CardinalityType

LEMMA RatesInit ==
  ASSUME Rates!Sweepable, Rates!Init
  PROVE  RatesInv
<1>1. knobs \in Schemes
  BY DEF Rates!Init
<1>2. Lists(levels, Rates!ToSet(levels)) /\ Rates!ToSet(levels) \subseteq Rates!ToSet(Concurrency)
  <2>1. PICK picked \in Picks : levels = IF picked = {} THEN Concurrency ELSE Rates!RestrictLevels(picked)
    BY DEF Rates!Init
  <2>2. Lists(Concurrency, Rates!ToSet(Concurrency))
    BY RatesListsItself DEF Rates!Sweepable, IsSequence
  <2>3. Lists(Rates!RestrictLevels(picked), Rates!ToSet(Concurrency) \cap picked)
    BY RestrictedLevels
  <2>4. Rates!ToSet(Rates!RestrictLevels(picked)) = Rates!ToSet(Concurrency) \cap picked
    BY <2>3, RatesListedSet
  <2>5. CASE picked = {}
    BY <2>1, <2>2, <2>5
  <2>6. CASE picked # {}
    <3>1. levels = Rates!RestrictLevels(picked)
      BY <2>1, <2>6
    <3>2. QED
      BY <2>3, <2>4, <3>1
  <2>7. QED
    BY <2>5, <2>6
<1>3. SweepFixed
  <2>1. Lists(Rates!Cells, Replays)
    BY <1>1, <1>2, CellsListed
  <2>2. cells = Rates!Cells
    BY DEF Rates!Init
  <2>3. QED
    BY <1>1, <1>2, <2>1, <2>2, Zenon DEF SweepFixed
<1>4. IsSequence(<<>>) /\ Len(<<>>) = 0
  BY DEF IsSequence
<1>5. Len(cells) \in Nat
  BY <1>3, RatesListedSet DEF SweepFixed
<1>6. RatesTyped
  <2>1. IsSequence(opened) /\ IsSequence(measured) /\ IsSequence(base)
    BY <1>4 DEF Rates!Init
  <2>2. cell \in 0 .. Len(cells) /\ cursor \in Nat /\ cancelled \in BOOLEAN /\ interrupted \in BOOLEAN
    <3>1. cell = 0 /\ cursor = 0 /\ cancelled = FALSE /\ interrupted = FALSE
      BY DEF Rates!Init
    <3>2. cell \in 0 .. Len(cells) /\ cursor \in Nat
      BY <1>5, <3>1
    <3>3. cancelled \in BOOLEAN /\ interrupted \in BOOLEAN
      BY <3>1, Zenon
    <3>4. QED
      BY <3>2, <3>3
  <2>3. /\ drawn \in [Rates!Workers -> {"none", "drawing", "asking", "left"}]
        /\ tally \in [granted : Nat, denied : Nat, errors : Nat]
        /\ status \in {"on", "measuring", "done", "failed"}
    BY DEF Rates!Init, Rates!NoAnswers
  <2>4. QED
    BY <2>1, <2>2, <2>3 DEF RatesTyped
<1>7. ReplayHasCell
  BY <1>4 DEF Rates!Init, ReplayHasCell
<1>8. InConfiguration
  <2>1. knobs["transport"] \in Seq(Rates!ToSet(knobs["transport"])) /\ knobs["transport"] # <<>>
    BY <1>1, KnobNamesAre DEF Rates!Sweepable
  <2>2. Head(knobs.transport) \in Rates!ToSet(knobs.transport)
    BY <2>1
  <2>3. system.transport = Head(knobs.transport)
    BY KnobNamesAre DEF Rates!Init
  <2>4. QED
    BY <2>2, <2>3 DEF InConfiguration, Rates!Init
<1>9. EveryRequestDrawn
  <2>1. AskingWorkers = {}
    BY DEF Rates!Init, AskingWorkers
  <2>2. Cardinality(AskingWorkers) = 0
    BY <2>1, FS_EmptySet
  <2>3. Drawn = 0 /\ cursor = 0 /\ ~cancelled /\ status # "measuring"
    BY <2>2 DEF Drawn, Rates!Init, Rates!NoAnswers
  <2>4. QED
    BY <2>3 DEF EveryRequestDrawn, Rates!Sweepable
<1>10. PointsLabelled /\ RoundsNamed /\ RoundsApart
  BY <1>4 DEF Rates!Init, PointsLabelled, RoundsNamed, RoundsApart
<1>11. QED
  BY <1>3, <1>6, <1>7, <1>8, <1>9, <1>10 DEF RatesInv

LEMMA SweepStays ==
  ASSUME SweepFixed, UNCHANGED <<knobs, levels, cells>>
  PROVE  SweepFixed'
  BY Zenon DEF SweepFixed, Replays, Configurations

(* What has been measured and opened stays as it was when neither changes. *)
LEMMA RecordsStay ==
  ASSUME PointsLabelled, RoundsApart, UNCHANGED <<opened, measured>>
  PROVE  PointsLabelled' /\ RoundsApart'
<1>1. PointsLabelled'
  BY Zenon DEF PointsLabelled, Labelled, Rates!Applicable
<1>2. RoundsApart'
  BY Zenon DEF RoundsApart
<1>3. QED
  BY <1>1, <1>2

LEMMA NextCellKeeps ==
  ASSUME Rates!Sweepable, RatesInv, Rates!NextCell
  PROVE  RatesInv'
<1>1. SweepFixed'
  BY SweepStays, Zenon DEF RatesInv, Rates!NextCell
<1>2. PICK n \in Nat : n = Len(cells)
  BY RatesListedSet DEF RatesInv, SweepFixed
<1>3. cell \in 0 .. n /\ cell < n /\ cell' = cell + 1 /\ cell + 1 \in 1 .. n /\ cells' = cells
  BY <1>2 DEF RatesInv, RatesTyped, Rates!NextCell
<1> DEFINE now == cells[cell + 1]
<1>4. now.level \in Rates!ToSet(Concurrency) /\ now.arm \in Configurations
  BY <1>2, <1>3, CellIs DEF RatesInv
<1>5. /\ status' = "measuring" /\ cursor' = 0 /\ cancelled' = FALSE /\ tally' = Rates!NoAnswers
      /\ UNCHANGED <<knobs, levels, cells, interrupted, opened, measured, base>>
      /\ status = "on"
      /\ drawn' = [w \in Rates!Workers |-> IF w <= now.level THEN "drawing" ELSE "none"]
      /\ system' = Rates!Reconfigured(now.arm)
  BY DEF Rates!NextCell
<1>6. Rates!Current' = now
  BY <1>3, <1>5, Zenon DEF Rates!Current
<1> HIDE DEF now
<1>7. RatesTyped'
  <2>1. cell' \in 0 .. Len(cells')
    BY <1>2, <1>3
  <2>2. drawn' \in [Rates!Workers -> {"none", "drawing", "asking", "left"}]
    BY <1>5
  <2>3. tally' \in [granted : Nat, denied : Nat, errors : Nat]
    BY <1>5 DEF Rates!NoAnswers
  <2>4. /\ IsSequence(opened') /\ IsSequence(measured') /\ IsSequence(base')
        /\ interrupted' \in BOOLEAN
    BY <1>5, Zenon DEF RatesInv, RatesTyped
  <2>5. cursor' \in Nat /\ cancelled' \in BOOLEAN /\ status' \in {"on", "measuring", "done", "failed"}
    BY <1>5
  <2>6. QED
    BY <2>1, <2>2, <2>3, <2>4, <2>5 DEF RatesTyped
<1>8. ReplayHasCell'
  <2>1. Len(measured) <= cell /\ Len(base) <= Len(measured)
    BY <1>5 DEF RatesInv, ReplayHasCell
  <2>2. (cell + 1) - 1 = cell /\ cell + 1 # 0
    BY <1>3
  <2>3. QED
    BY <1>3, <1>5, <2>1, <2>2 DEF ReplayHasCell
<1>9. InConfiguration'
  <2>1. \A k \in Rates!Applicable(now.arm) : system'[k] = now.arm[k]
    BY <1>5 DEF Rates!Reconfigured, Rates!Applicable
  <2>2. system'.transport \in Rates!ToSet(knobs.transport)
    <3>1. "transport" \in Rates!ToSet(Rates!KnobNames)
      BY KnobNamesAre
    <3>2. system'["transport"] = IF "transport" \in Rates!Applicable(now.arm) THEN now.arm["transport"]
                                 ELSE system["transport"]
      BY <1>5, <3>1 DEF Rates!Reconfigured
    <3>3. now.arm.transport \in Rates!ToSet(knobs.transport)
      BY <1>4 DEF Configurations
    <3>4. QED
      BY <3>2, <3>3 DEF RatesInv, InConfiguration
  <2>3. Rates!Applicable(Rates!Current.arm)' = Rates!Applicable(now.arm)
    BY <1>6, Zenon DEF Rates!Applicable
  <2>4. QED
    BY <1>5, <1>6, <2>1, <2>2, <2>3 DEF InConfiguration
<1>10. EveryRequestDrawn'
  <2>1. AskingWorkers' = {}
    BY <1>5 DEF AskingWorkers
  <2>2. Cardinality(AskingWorkers') = 0
    BY <2>1, FS_EmptySet
  <2>3. Drawn' = 0
    BY <1>5, <2>2 DEF Drawn, Rates!NoAnswers
  <2>4. drawn'[1] # "none" /\ \A w \in Rates!Workers : drawn'[w] # "left"
    <3>1. 1 \in Rates!Workers /\ now.level \in Nat \ {0}
      BY <1>4, WorkersAre
    <3>2. QED
      BY <1>5, <3>1
  <2>5. QED
    BY <1>5, <2>3, <2>4 DEF EveryRequestDrawn, Rates!Sweepable
<1>11. PointsLabelled' /\ RoundsApart'
  BY <1>5, RecordsStay, Zenon DEF RatesInv
<1>12. RoundsNamed'
  <2> SUFFICES ASSUME NEW i \in 1 .. Len(opened)
               PROVE  \E c \in 1 .. cell + 1 : NamedBy(opened[i], c)'
    BY <1>3, <1>5 DEF RoundsNamed
  <2>1. PICK c \in 1 .. cell : NamedBy(opened[i], c)
    BY DEF RatesInv, RoundsNamed
  <2>2. c \in 1 .. cell + 1 /\ c # cell + 1
    BY <1>3
  <2>3. NamedBy(opened[i], c)'
    BY <1>3, <1>5, <2>1, <2>2 DEF NamedBy, Rates!ReplayTag
  <2>4. QED
    BY <2>2, <2>3
<1>13. QED
  BY <1>1, <1>7, <1>8, <1>9, <1>10, <1>11, <1>12 DEF RatesInv

(* A step of a worker leaves what is measured, and in which configuration. *)
LEMMA WorkerAside ==
  ASSUME RatesInv, status = "measuring",
         UNCHANGED <<knobs, levels, cells, system, cell, measured, base, status>>
  PROVE  SweepFixed' /\ ReplayHasCell' /\ InConfiguration' /\ PointsLabelled'
<1>1. SweepFixed'
  BY SweepStays, Zenon DEF RatesInv
<1>2. ReplayHasCell'
  BY Zenon DEF RatesInv, ReplayHasCell
<1>3. InConfiguration'
  BY Zenon DEF RatesInv, InConfiguration, Rates!Current, Rates!Applicable
<1>4. PointsLabelled'
  BY Zenon DEF RatesInv, PointsLabelled, Labelled, Rates!Applicable
<1>5. QED
  BY <1>1, <1>2, <1>3, <1>4

LEMMA WorkerTyped ==
  ASSUME RatesInv, NEW w \in Rates!Workers, NEW pc \in {"none", "drawing", "asking", "left"},
         drawn' = [drawn EXCEPT ![w] = pc]
  PROVE  /\ drawn' \in [Rates!Workers -> {"none", "drawing", "asking", "left"}]
         /\ drawn'[w] = pc /\ \A v \in Rates!Workers : v # w => drawn'[v] = drawn[v]
  BY DEF RatesInv, RatesTyped

LEMMA DrawKeeps ==
  ASSUME Rates!Sweepable, RatesInv, NEW w \in Rates!Workers, Rates!Draw(w)
  PROVE  RatesInv'
<1>1. /\ drawn[w] = "drawing" /\ cursor' = cursor + 1
      /\ UNCHANGED <<knobs, levels, cells, system, cell, tally, cancelled, interrupted, measured,
                     base, status>>
  BY DEF Rates!Draw
<1>2. status = "measuring"
  BY <1>1 DEF RatesInv, ReplayHasCell
<1>3. SweepFixed' /\ ReplayHasCell' /\ InConfiguration' /\ PointsLabelled'
  BY <1>1, <1>2, WorkerAside
<1>4. PICK n \in Nat : n = Len(cells)
  BY RatesListedSet DEF RatesInv, SweepFixed
<1>5. cell \in 1 .. n /\ cell \in Nat /\ cursor \in Nat
  BY <1>2, <1>4 DEF RatesInv, RatesTyped, ReplayHasCell
<1>6. PICK a \in Nat, b \in Nat, c \in Nat :
        a = tally.granted /\ b = tally.denied /\ c = tally.errors
  BY DEF RatesInv, RatesTyped
<1>7. PICK k \in Nat : k = Cardinality(AskingWorkers)
  BY AskingFinite
<1>8. TraceLen \in Nat
  BY DEF Rates!Sweepable
<1>9. /\ Drawn = a + b + c + k
      /\ a + b + c + k <= TraceLen /\ a + b + c + k <= cursor
      /\ cancelled => c # 0
      /\ drawn[1] # "none"
      /\ ~cancelled /\ ~interrupted =>
           /\ a + b + c + k = cursor \/ (a + b + c + k = TraceLen /\ TraceLen <= cursor)
           /\ \A v \in Rates!Workers : drawn[v] = "left" => TraceLen <= cursor
  BY <1>2, <1>6, <1>7 DEF RatesInv, EveryRequestDrawn, Drawn
<1>10. CASE cursor >= TraceLen \/ cancelled \/ interrupted
  <2>1. drawn' = [drawn EXCEPT ![w] = "left"] /\ opened' = opened
    BY <1>10 DEF Rates!Draw, Rates!Leave
  <2>2. /\ drawn' \in [Rates!Workers -> {"none", "drawing", "asking", "left"}]
        /\ drawn'[w] = "left" /\ \A v \in Rates!Workers : v # w => drawn'[v] = drawn[v]
    BY <2>1, WorkerTyped
  <2>3. RatesTyped'
    <3>1. /\ IsSequence(opened') /\ IsSequence(measured') /\ IsSequence(base')
          /\ cell' \in 0 .. Len(cells')
          /\ tally' \in [granted : Nat, denied : Nat, errors : Nat]
          /\ cancelled' \in BOOLEAN /\ interrupted' \in BOOLEAN /\ status' \in {"on", "measuring", "done", "failed"}
      BY <1>1, <2>1, Zenon DEF RatesInv, RatesTyped
    <3>2. cursor' \in Nat
      BY <1>1, <1>5
    <3>3. QED
      BY <2>2, <3>1, <3>2 DEF RatesTyped
  <2>4. AskingWorkers' = AskingWorkers
    BY <1>1, <2>2 DEF AskingWorkers
  <2>5. Drawn' = a + b + c + k
    BY <1>1, <1>6, <1>7, <2>4 DEF Drawn
  <2>6. EveryRequestDrawn'
    <3>1. drawn'[1] # "none"
      BY <1>9, <2>2, WorkersAre
    <3>2. cursor <= cursor + 1 /\ (~cancelled /\ ~interrupted => TraceLen <= cursor + 1)
      BY <1>5, <1>8, <1>10
    <3>3. ~cancelled /\ ~interrupted => a + b + c + k = TraceLen
      BY <1>5, <1>8, <1>9, <1>10
    <3>4. a + b + c + k <= TraceLen /\ a + b + c + k <= cursor + 1
      BY <1>5, <1>8, <1>9
    <3>5. /\ cancelled' = cancelled /\ interrupted' = interrupted
          /\ tally'.errors = c /\ cursor' = cursor + 1
      BY <1>1, <1>6
    <3>6. QED
      BY <1>9, <2>5, <3>1, <3>2, <3>3, <3>4, <3>5 DEF EveryRequestDrawn
  <2>7. RoundsApart'
    BY <1>1, <2>1, RecordsStay, Zenon DEF RatesInv
  <2>8. RoundsNamed'
    <3> SUFFICES ASSUME NEW i \in 1 .. Len(opened)
                 PROVE  \E d \in 1 .. cell : NamedBy(opened[i], d)'
      BY <1>1, <2>1 DEF RoundsNamed
    <3>1. PICK d \in 1 .. cell : NamedBy(opened[i], d)
      BY DEF RatesInv, RoundsNamed
    <3>2. NamedBy(opened[i], d)'
      BY <1>1, <1>5, <2>1, <3>1 DEF NamedBy, Rates!ReplayTag
    <3>3. QED
      BY <3>2
  <2>9. QED
    BY <1>3, <2>3, <2>6, <2>7, <2>8 DEF RatesInv
<1>11. CASE ~(cursor >= TraceLen \/ cancelled \/ interrupted)
  <2> DEFINE new == [transport |-> system.transport, tag |-> Rates!ReplayTag(Rates!Current),
                     request |-> cursor]
  <2>1. drawn' = [drawn EXCEPT ![w] = "asking"] /\ opened' = Append(opened, new)
    BY <1>11 DEF Rates!Draw
  <2>2. /\ drawn' \in [Rates!Workers -> {"none", "drawing", "asking", "left"}]
        /\ drawn'[w] = "asking" /\ \A v \in Rates!Workers : v # w => drawn'[v] = drawn[v]
    BY <2>1, WorkerTyped
  <2>3. PICK l \in Nat : l = Len(opened) /\ IsSequence(opened)
    BY SequenceFacts DEF RatesInv, RatesTyped
  <2>4. new.transport = system.transport /\ new.tag = Rates!ReplayTag(Rates!Current) /\ new.request = cursor
    OBVIOUS
  <2> HIDE DEF new
  <2>5. /\ IsSequence(opened') /\ Len(opened') = l + 1 /\ opened'[l + 1] = new
        /\ \A j \in 1 .. l : opened'[j] = opened[j]
    BY <2>1, <2>3, Appended
  <2>6. RatesTyped'
    <3>1. /\ IsSequence(measured') /\ IsSequence(base')
          /\ cell' \in 0 .. Len(cells')
          /\ tally' \in [granted : Nat, denied : Nat, errors : Nat]
          /\ cancelled' \in BOOLEAN /\ interrupted' \in BOOLEAN /\ status' \in {"on", "measuring", "done", "failed"}
      BY <1>1, Zenon DEF RatesInv, RatesTyped
    <3>2. cursor' \in Nat
      BY <1>1, <1>5
    <3>3. QED
      BY <2>2, <2>5, <3>1, <3>2 DEF RatesTyped
  <2>7. Cardinality(AskingWorkers') = k + 1
    <3>1. AskingWorkers' = AskingWorkers \cup {w} /\ w \notin AskingWorkers
      BY <1>1, <2>2 DEF AskingWorkers
    <3>2. QED
      BY <1>7, <3>1, AskingFinite, FS_AddElement
  <2>8. Drawn' = a + b + c + (k + 1)
    BY <1>1, <1>6, <2>7 DEF Drawn
  <2>9. EveryRequestDrawn'
    <3>1. drawn'[1] # "none"
      BY <1>9, <2>2, WorkersAre
    <3>2. cursor + 1 <= TraceLen /\ ~cancelled /\ ~interrupted
      BY <1>5, <1>8, <1>11
    <3>3. a + b + c + k = cursor /\ \A v \in Rates!Workers : drawn[v] # "left"
      BY <1>5, <1>8, <1>9, <1>11
    <3>4. a + b + c + (k + 1) = cursor + 1
      BY <1>5, <3>3
    <3>5. \A v \in Rates!Workers : drawn'[v] # "left"
      BY <2>2, <3>3
    <3>6. cancelled' = cancelled /\ interrupted' = interrupted /\ cursor' = cursor + 1
      BY <1>1
    <3>7. QED
      BY <1>5, <2>8, <3>1, <3>2, <3>4, <3>5, <3>6 DEF EveryRequestDrawn
  <2>10. \A i \in 1 .. l : \E d \in 1 .. cell : NamedBy(opened[i], d)
    BY <2>3 DEF RatesInv, RoundsNamed
  <2>11. system.transport # NotApplicable => Rates!Current.arm.transport = system.transport
    BY <1>4, <1>5, TransportIs DEF RatesInv
  <2>12. \A i \in 1 .. l + 1 : i \in 1 .. l \/ i = l + 1
    OBVIOUS
  <2>13. RoundsNamed'
    <3> SUFFICES ASSUME NEW i \in 1 .. l + 1
                 PROVE  \E d \in 1 .. cell : NamedBy(opened[i], d)'
      BY <1>1, <2>5 DEF RoundsNamed
    <3>1. CASE i \in 1 .. l
      <4>1. PICK d \in 1 .. cell : NamedBy(opened[i], d)
        BY <2>10, <3>1
      <4>2. opened'[i] = opened[i]
        BY <2>5, <3>1
      <4>3. NamedBy(opened[i], d)'
        BY <1>1, <1>5, <4>1, <4>2 DEF NamedBy, Rates!ReplayTag
      <4>4. QED
        BY <4>3
    <3>2. CASE i = l + 1
      <4>1. opened'[i] = new
        BY <2>5, <3>2
      <4>2. cursor < cursor + 1
        BY <1>5
      <4>3. NamedBy(opened[i], cell)'
        BY <1>1, <1>5, <2>4, <2>11, <4>1, <4>2 DEF NamedBy, Rates!ReplayTag, Rates!Current
      <4>4. cell \in 1 .. cell
        BY <1>5
      <4>5. QED
        BY <1>1, <4>3, <4>4
    <3>3. QED
      BY <2>12, <3>1, <3>2
  <2>14. ASSUME NEW i \in 1 .. l, new.transport # NotApplicable
         PROVE  opened[i] # new
    <3> SUFFICES ASSUME opened[i] = new PROVE FALSE
      OBVIOUS
    <3>1. PICK d \in 1 .. cell : NamedBy(opened[i], d)
      BY <2>10
    <3>2. /\ cells[d].arm.transport = new.transport /\ Rates!ReplayTag(cells[d]) = new.tag
          /\ d = cell => new.request < cursor
      BY <2>14, <3>1 DEF NamedBy
    <3>3. /\ cells[cell].arm.transport = new.transport /\ Rates!ReplayTag(cells[cell]) = new.tag
      BY <2>4, <2>11, <2>14 DEF Rates!Current
    <3>4. d \in 1 .. Len(cells) /\ cell \in 1 .. Len(cells)
      BY <1>4, <1>5
    <3>5. d = cell
      BY <2>14, <3>2, <3>3, <3>4, ReplayNamed DEF RatesInv
    <3>6. QED
      BY <1>5, <2>4, <3>2, <3>5
  <2>15. RoundsApart'
    <3> SUFFICES ASSUME NEW i \in 1 .. l + 1, NEW j \in 1 .. l + 1,
                        opened'[i] = opened'[j], opened'[i].transport # NotApplicable
                 PROVE  i = j
      BY <2>5 DEF RoundsApart
    <3>1. CASE i \in 1 .. l /\ j \in 1 .. l
      BY <2>3, <2>5, <3>1 DEF RatesInv, RoundsApart
    <3>2. CASE i = l + 1 /\ j \in 1 .. l
      BY <2>5, <2>14, <3>2
    <3>3. CASE j = l + 1 /\ i \in 1 .. l
      BY <2>5, <2>14, <3>3
    <3>4. QED
      BY <2>12, <3>1, <3>2, <3>3
  <2>16. QED
    BY <1>3, <2>6, <2>9, <2>13, <2>15 DEF RatesInv
<1>12. QED
  BY <1>10, <1>11

(* The opened rounds are named as before when the cursor stays. *)
LEMMA NamesStay ==
  ASSUME RatesInv, UNCHANGED <<cells, cell, cursor, opened>>
  PROVE  RoundsNamed' /\ RoundsApart'
<1>1. RoundsNamed'
  BY Zenon DEF RatesInv, RoundsNamed, NamedBy, Rates!ReplayTag
<1>2. RoundsApart'
  BY Zenon DEF RatesInv, RoundsApart
<1>3. QED
  BY <1>1, <1>2

LEMMA AnswerKeeps ==
  ASSUME Rates!Sweepable, RatesInv, NEW w \in Rates!Workers, NEW answer \in {"granted", "denied"},
         Rates!Answer(w, answer)
  PROVE  RatesInv'
<1>1. /\ drawn[w] = "asking" /\ drawn' = [drawn EXCEPT ![w] = "drawing"]
      /\ tally' = [tally EXCEPT ![answer] = @ + 1]
      /\ UNCHANGED <<knobs, levels, cells, system, cell, cursor, cancelled, interrupted, opened,
                     measured, base, status>>
  BY DEF Rates!Answer
<1>2. status = "measuring"
  BY <1>1 DEF RatesInv, ReplayHasCell
<1>3. SweepFixed' /\ ReplayHasCell' /\ InConfiguration' /\ PointsLabelled'
  BY <1>1, <1>2, WorkerAside
<1>4. /\ drawn' \in [Rates!Workers -> {"none", "drawing", "asking", "left"}]
      /\ drawn'[w] = "drawing" /\ \A v \in Rates!Workers : v # w => drawn'[v] = drawn[v]
  BY <1>1, WorkerTyped
<1>5. PICK a \in Nat, b \in Nat, c \in Nat :
        a = tally.granted /\ b = tally.denied /\ c = tally.errors
  BY DEF RatesInv, RatesTyped
<1>6. PICK k \in Nat : k = Cardinality(AskingWorkers)
  BY AskingFinite
<1>7. AskingWorkers' = AskingWorkers \ {w} /\ w \in AskingWorkers
  BY <1>1, <1>4 DEF AskingWorkers
<1>8. Cardinality(AskingWorkers') = k - 1 /\ k - 1 \in Nat
  <2>1. Cardinality(AskingWorkers') = k - 1
    BY <1>6, <1>7, AskingFinite, FS_RemoveElement
  <2>2. k # 0
    BY <1>6, <1>7, AskingFinite, FS_EmptySet
  <2>3. QED
    BY <2>1, <2>2
<1>9. /\ tally' \in [granted : Nat, denied : Nat, errors : Nat] /\ tally'.errors = c
      /\ tally'.granted + tally'.denied = a + b + 1
  <2>1. tally \in [granted : Nat, denied : Nat, errors : Nat]
    BY DEF RatesInv, RatesTyped
  <2>2. CASE answer = "granted"
    BY <1>1, <1>5, <2>1, <2>2
  <2>3. CASE answer = "denied"
    BY <1>1, <1>5, <2>1, <2>3
  <2>4. QED
    BY <2>2, <2>3
<1>10. Drawn' = Drawn
  <2>1. tally'.granted \in Nat /\ tally'.denied \in Nat
    BY <1>9
  <2>2. QED
    BY <1>5, <1>6, <1>8, <1>9, <2>1 DEF Drawn
<1>11. EveryRequestDrawn'
  <2>1. drawn'[1] # "none"
    BY <1>2, <1>4, WorkersAre DEF RatesInv, EveryRequestDrawn
  <2>2. \A v \in Rates!Workers : drawn'[v] = "left" => drawn[v] = "left"
    BY <1>4
  <2>3. tally'.errors = tally.errors
    BY <1>5, <1>9
  <2>4. QED
    BY <1>1, <1>2, <1>10, <2>1, <2>2, <2>3 DEF RatesInv, EveryRequestDrawn
<1>12. RatesTyped'
  <2>1. /\ IsSequence(opened') /\ IsSequence(measured') /\ IsSequence(base')
        /\ cell' \in 0 .. Len(cells') /\ cursor' \in Nat
        /\ cancelled' \in BOOLEAN /\ interrupted' \in BOOLEAN /\ status' \in {"on", "measuring", "done", "failed"}
    BY <1>1, Zenon DEF RatesInv, RatesTyped
  <2>2. QED
    BY <1>4, <1>9, <2>1 DEF RatesTyped
<1>13. RoundsNamed' /\ RoundsApart'
  BY <1>1, NamesStay
<1>14. QED
  BY <1>3, <1>11, <1>12, <1>13 DEF RatesInv

LEMMA FailsKeeps ==
  ASSUME Rates!Sweepable, RatesInv, NEW w \in Rates!Workers, Rates!Fails(w)
  PROVE  RatesInv'
<1>1. /\ drawn[w] = "asking" /\ drawn' = [drawn EXCEPT ![w] = "left"]
      /\ tally' = [tally EXCEPT !.errors = @ + 1] /\ cancelled' = TRUE
      /\ UNCHANGED <<knobs, levels, cells, system, cell, cursor, interrupted, opened, measured, base,
                     status>>
  BY DEF Rates!Fails, Rates!Leave
<1>2. status = "measuring"
  BY <1>1 DEF RatesInv, ReplayHasCell
<1>3. SweepFixed' /\ ReplayHasCell' /\ InConfiguration' /\ PointsLabelled'
  BY <1>1, <1>2, WorkerAside
<1>4. /\ drawn' \in [Rates!Workers -> {"none", "drawing", "asking", "left"}]
      /\ drawn'[w] = "left" /\ \A v \in Rates!Workers : v # w => drawn'[v] = drawn[v]
  BY <1>1, WorkerTyped
<1>5. PICK a \in Nat, b \in Nat, c \in Nat :
        a = tally.granted /\ b = tally.denied /\ c = tally.errors
  BY DEF RatesInv, RatesTyped
<1>6. PICK k \in Nat : k = Cardinality(AskingWorkers)
  BY AskingFinite
<1>7. AskingWorkers' = AskingWorkers \ {w} /\ w \in AskingWorkers
  BY <1>1, <1>4 DEF AskingWorkers
<1>8. Cardinality(AskingWorkers') = k - 1
  BY <1>6, <1>7, AskingFinite, FS_RemoveElement
<1>9. /\ tally' \in [granted : Nat, denied : Nat, errors : Nat] /\ tally'.errors = c + 1
      /\ tally'.granted = a /\ tally'.denied = b
  <2>1. tally \in [granted : Nat, denied : Nat, errors : Nat]
    BY DEF RatesInv, RatesTyped
  <2>2. QED
    BY <1>1, <1>5, <2>1
<1>10. Drawn' = Drawn
  BY <1>5, <1>6, <1>8, <1>9 DEF Drawn
<1>11. EveryRequestDrawn'
  <2>1. drawn'[1] # "none"
    BY <1>2, <1>4, WorkersAre DEF RatesInv, EveryRequestDrawn
  <2>2. tally'.errors # 0
    BY <1>9
  <2>3. QED
    BY <1>1, <1>10, <2>1, <2>2 DEF RatesInv, EveryRequestDrawn
<1>12. RatesTyped'
  <2>1. /\ IsSequence(opened') /\ IsSequence(measured') /\ IsSequence(base')
        /\ cell' \in 0 .. Len(cells') /\ cursor' \in Nat
        /\ cancelled' \in BOOLEAN /\ interrupted' \in BOOLEAN /\ status' \in {"on", "measuring", "done", "failed"}
    BY <1>1, Zenon DEF RatesInv, RatesTyped
  <2>2. QED
    BY <1>4, <1>9, <2>1 DEF RatesTyped
<1>13. RoundsNamed' /\ RoundsApart'
  BY <1>1, NamesStay
<1>14. QED
  BY <1>3, <1>11, <1>12, <1>13 DEF RatesInv

LEMMA MeasuredKeeps ==
  ASSUME Rates!Sweepable, RatesInv, Rates!Measured
  PROVE  RatesInv'
<1>1. /\ status = "measuring" /\ \A w \in Rates!Workers : drawn[w] \in {"left", "none"}
      /\ drawn' = [w \in Rates!Workers |-> "none"]
      /\ UNCHANGED <<knobs, levels, cells, system, cell, cursor, tally, cancelled, interrupted,
                     opened>>
  BY DEF Rates!Measured
<1>2. SweepFixed'
  BY <1>1, SweepStays, Zenon DEF RatesInv
<1>3. RoundsNamed' /\ RoundsApart'
  BY <1>1, NamesStay
<1>4. InConfiguration'
  BY <1>1, Zenon DEF RatesInv, InConfiguration, Rates!Current, Rates!Applicable
<1>5. PICK n \in Nat : n = Len(cells)
  BY RatesListedSet DEF RatesInv, SweepFixed
<1>6. cell \in 1 .. n /\ cell \in Nat /\ cursor \in Nat
  BY <1>1, <1>5 DEF RatesInv, RatesTyped, ReplayHasCell
<1>7. AskingWorkers = {} /\ AskingWorkers' = {}
  BY <1>1 DEF AskingWorkers
<1>8. PICK a \in Nat, b \in Nat, c \in Nat :
        a = tally.granted /\ b = tally.denied /\ c = tally.errors
  BY DEF RatesInv, RatesTyped
<1>9. Drawn = a + b + c /\ Drawn' = Drawn
  <2>1. Cardinality(AskingWorkers) = 0 /\ Cardinality(AskingWorkers') = 0
    BY <1>7, FS_EmptySet
  <2>2. QED
    BY <1>1, <1>8, <2>1 DEF Drawn
<1>10. status' \in {"on", "failed"} /\ status' # "measuring"
  BY DEF Rates!Measured
<1>11. EveryRequestDrawn'
  BY <1>1, <1>9, <1>10 DEF RatesInv, EveryRequestDrawn
<1>12. PICK l \in Nat, m \in Nat : l = Len(measured) /\ m = Len(base)
  BY SequenceFacts DEF RatesInv, RatesTyped
<1>13. m <= l /\ l <= cell - 1
  BY <1>1, <1>12 DEF RatesInv, ReplayHasCell
<1>14. /\ drawn' \in [Rates!Workers -> {"none", "drawing", "asking", "left"}]
       /\ \A w \in Rates!Workers : drawn'[w] = "none"
  BY <1>1
<1>15. /\ cell' \in 0 .. Len(cells') /\ cursor' \in Nat
       /\ tally' \in [granted : Nat, denied : Nat, errors : Nat]
       /\ cancelled' \in BOOLEAN /\ interrupted' \in BOOLEAN
  BY <1>1, Zenon DEF RatesInv, RatesTyped
<1>16. CASE UNCHANGED <<measured, base>>
  <2>1. RatesTyped'
    <3>1. IsSequence(measured') /\ IsSequence(base') /\ IsSequence(opened')
      BY <1>1, <1>16, Zenon DEF RatesInv, RatesTyped
    <3>2. QED
      BY <1>10, <1>14, <1>15, <3>1 DEF RatesTyped
  <2>2. ReplayHasCell'
    BY <1>1, <1>6, <1>10, <1>12, <1>13, <1>14, <1>16 DEF ReplayHasCell
  <2>3. PointsLabelled'
    BY <1>16, Zenon DEF RatesInv, PointsLabelled, Labelled, Rates!Applicable
  <2>4. QED
    BY <1>2, <1>3, <1>4, <1>11, <2>1, <2>2, <2>3 DEF RatesInv
<1>17. CASE /\ c = 0 /\ measured' = Append(measured, Rates!Point)
            /\ base' = IF Rates!IsBaseline(Rates!Current) THEN Append(base, Rates!Point.answers) ELSE base
  <2>1. IsSequence(measured) /\ IsSequence(base)
    BY DEF RatesInv, RatesTyped
  <2>2. /\ IsSequence(measured') /\ Len(measured') = l + 1 /\ measured'[l + 1] = Rates!Point
        /\ \A i \in 1 .. l : measured'[i] = measured[i]
    BY <1>12, <1>17, <2>1, Appended
  <2>3. IsSequence(base') /\ Len(base') <= m + 1
    <3>1. CASE Rates!IsBaseline(Rates!Current)
      BY <1>12, <1>17, <2>1, <3>1, Appended
    <3>2. CASE ~Rates!IsBaseline(Rates!Current)
      BY <1>12, <1>17, <2>1, <3>2
    <3>3. QED
      BY <3>1, <3>2
  <2>4. RatesTyped'
    <3>1. IsSequence(opened')
      BY <1>1, Zenon DEF RatesInv, RatesTyped
    <3>2. QED
      BY <1>10, <1>14, <1>15, <2>2, <2>3, <3>1 DEF RatesTyped
  <2>5. ReplayHasCell'
    <3>1. Len(base') \in Nat
      BY <2>3, SequenceFacts
    <3>2. Len(base') <= l + 1 /\ l + 1 <= cell
      BY <1>6, <1>13, <2>3, <3>1
    <3>3. QED
      BY <1>1, <1>10, <1>14, <2>2, <3>2 DEF ReplayHasCell
  <2>6. Labelled(Rates!Point)
    <3>1. \A k \in Rates!Applicable(Rates!Current.arm) : system[k] = Rates!Current.arm[k]
      BY <1>6 DEF RatesInv, InConfiguration
    <3>2. ~cancelled /\ drawn[1] = "left"
      BY <1>1, <1>8, <1>17, WorkersAre DEF RatesInv, EveryRequestDrawn
    <3>3. ~interrupted => /\ a + b + c <= TraceLen /\ TraceLen <= cursor
                          /\ a + b + c = cursor \/ a + b + c = TraceLen
      BY <1>1, <1>9, <3>2, WorkersAre DEF RatesInv, EveryRequestDrawn
    <3>4. interrupted \/ a + b = TraceLen
      BY <1>6, <1>17, <3>3 DEF Rates!Sweepable
    <3>5. /\ Rates!Point.label = Rates!Current.arm /\ Rates!Point.measured = system
          /\ Rates!Point.interrupted = interrupted
          /\ Rates!Point.answers.granted = a /\ Rates!Point.answers.denied = b
      BY <1>8 DEF Rates!Point
    <3>6. QED
      BY <3>1, <3>4, <3>5 DEF Labelled
  <2>7. PointsLabelled'
    <3> SUFFICES ASSUME NEW i \in 1 .. l + 1 PROVE Labelled(measured[i])'
      BY <2>2 DEF PointsLabelled
    <3>1. CASE i \in 1 .. l
      <4>1. Labelled(measured[i])
        BY <1>12, <3>1 DEF RatesInv, PointsLabelled
      <4>2. QED
        BY <2>2, <3>1, <4>1 DEF Labelled, Rates!Applicable
    <3>2. CASE i = l + 1
      BY <2>2, <2>6, <3>2 DEF Labelled, Rates!Applicable
    <3>3. QED
      BY <1>12, <3>1, <3>2
  <2>8. QED
    BY <1>2, <1>3, <1>4, <1>11, <2>4, <2>5, <2>7 DEF RatesInv
<1>18. UNCHANGED <<measured, base>>
       \/ (/\ c = 0 /\ measured' = Append(measured, Rates!Point)
           /\ base' = IF Rates!IsBaseline(Rates!Current) THEN Append(base, Rates!Point.answers) ELSE base)
  <2>1. ~(c > 0) => c = 0
    OBVIOUS
  <2>2. QED
    BY <1>8, <2>1 DEF Rates!Measured
<1>19. QED
  BY <1>16, <1>17, <1>18

(* A step that ends the run, or none, keeps everything but the status. *)
LEMMA EndKeeps ==
  ASSUME RatesInv, status # "measuring", status' \in {"on", "done", "failed"},
         UNCHANGED <<knobs, levels, cells, system, cell, cursor, drawn, tally, cancelled,
                     interrupted, opened, measured, base>>
  PROVE  RatesInv'
<1>1. SweepFixed'
  BY SweepStays, Zenon DEF RatesInv
<1>2. RoundsNamed' /\ RoundsApart'
  BY NamesStay, Zenon
<1>3. InConfiguration' /\ PointsLabelled'
  BY Zenon DEF RatesInv, InConfiguration, Rates!Current, Rates!Applicable, PointsLabelled, Labelled
<1>4. RatesTyped'
  <2>1. status' \in {"on", "measuring", "done", "failed"}
    OBVIOUS
  <2>2. QED
    BY <2>1, Zenon DEF RatesInv, RatesTyped
<1>5. status' # "measuring"
  OBVIOUS
<1>6. ReplayHasCell'
  BY <1>5, Zenon DEF RatesInv, ReplayHasCell
<1>7. EveryRequestDrawn'
  BY <1>5, Zenon DEF RatesInv, EveryRequestDrawn, Drawn, AskingWorkers
<1>8. QED
  BY <1>1, <1>2, <1>3, <1>4, <1>6, <1>7 DEF RatesInv

(* The context ends, whatever is going on. *)
LEMMA InterruptKeeps ==
  ASSUME RatesInv, Rates!Interrupt
  PROVE  RatesInv'
<1>1. /\ UNCHANGED <<knobs, levels, cells, system, cell, cursor, drawn, tally, cancelled, opened,
                     measured, base, status>>
      /\ interrupted' = TRUE
  BY DEF Rates!Interrupt
<1>2. SweepFixed'
  BY <1>1, SweepStays, Zenon DEF RatesInv
<1>3. RoundsNamed' /\ RoundsApart'
  BY <1>1, NamesStay, Zenon
<1>4. InConfiguration' /\ PointsLabelled' /\ ReplayHasCell'
  BY <1>1, Zenon DEF RatesInv, InConfiguration, Rates!Current, Rates!Applicable, PointsLabelled,
     Labelled, ReplayHasCell
<1>5. RatesTyped' /\ EveryRequestDrawn'
  BY <1>1, Zenon DEF RatesInv, RatesTyped, EveryRequestDrawn, Drawn, AskingWorkers
<1>6. QED
  BY <1>2, <1>3, <1>4, <1>5 DEF RatesInv

LEMMA RatesStep ==
  ASSUME Rates!Sweepable, RatesInv, Rates!Next
  PROVE  RatesInv'
<1>1. CASE Rates!NextCell
  BY <1>1, NextCellKeeps
<1>2. CASE Rates!SwitchFails \/ Rates!Finish
  <2>1. /\ status # "measuring" /\ status' \in {"on", "done", "failed"}
        /\ UNCHANGED <<knobs, levels, cells, system, cell, cursor, drawn, tally, cancelled,
                       interrupted, opened, measured, base>>
    BY <1>2 DEF Rates!SwitchFails, Rates!Finish
  <2>2. QED
    BY <2>1, EndKeeps
<1>3. CASE Rates!Measured
  BY <1>3, MeasuredKeeps
<1>4. CASE \E w \in Rates!Workers : Rates!Draw(w)
  BY <1>4, DrawKeeps
<1>5. CASE \E w \in Rates!Workers : Rates!Fails(w)
  BY <1>5, FailsKeeps
<1>6. CASE \E w \in Rates!Workers, answer \in {"granted", "denied"} : Rates!Answer(w, answer)
  BY <1>6, AnswerKeeps
<1>7. CASE Rates!Interrupt
  BY <1>7, InterruptKeeps
<1>8. QED
  BY <1>1, <1>2, <1>3, <1>4, <1>5, <1>6, <1>7 DEF Rates!Next

LEMMA RatesImplies ==
  ASSUME Rates!Sweepable, RatesInv
  PROVE  Rates!PointsAsLabelled /\ Rates!TypeOK
<1>1. Rates!PointsAsLabelled
  <2>1. DOMAIN measured = 1 .. Len(measured) /\ DOMAIN opened = 1 .. Len(opened)
    BY SequenceFacts DEF RatesInv, RatesTyped
  <2>2. \A i \in DOMAIN measured : Labelled(measured[i])
    BY <2>1 DEF RatesInv, PointsLabelled
  <2>3. RoundsApart
    BY DEF RatesInv
  <2>4. QED
    BY <2>1, <2>2, <2>3 DEF Rates!PointsAsLabelled, Labelled, RoundsApart
<1>2. Rates!TypeOK
  <2>1. PICK a \in Nat, b \in Nat, c \in Nat :
          a = tally.granted /\ b = tally.denied /\ c = tally.errors
    BY DEF RatesInv, RatesTyped
  <2>2. PICK k \in Nat : k = Cardinality(AskingWorkers)
    BY AskingFinite
  <2>3. a + b + c + k <= TraceLen
    BY <2>1, <2>2 DEF RatesInv, EveryRequestDrawn, Drawn
  <2>4. a \in 0 .. TraceLen /\ b \in 0 .. TraceLen /\ c \in 0 .. TraceLen
    BY <2>3 DEF Rates!Sweepable
  <2>5. DOMAIN Rates!NoAnswers = {"granted", "denied", "errors"}
    BY DEF Rates!NoAnswers
  <2>6. tally \in [DOMAIN Rates!NoAnswers -> 0 .. TraceLen]
    <3>1. tally \in [{"granted", "denied", "errors"} -> Nat]
      BY DEF RatesInv, RatesTyped
    <3>2. QED
      BY <2>1, <2>4, <2>5, <3>1
  <2>7. Len(measured) <= cell /\ Len(base) <= Len(measured)
    <3>1. Len(measured) \in Nat /\ Len(cells) \in Nat
      BY SequenceFacts, RatesListedSet DEF RatesInv, RatesTyped, SweepFixed
    <3>2. cell \in Nat
      BY <3>1 DEF RatesInv, RatesTyped
    <3>3. QED
      BY <3>1, <3>2 DEF RatesInv, ReplayHasCell
  <2>8. QED
    BY <2>6, <2>7 DEF RatesInv, RatesTyped, Rates!TypeOK
<1>3. QED
  BY <1>1, <1>2

LEMMA RatesStill ==
  ASSUME RatesInv, UNCHANGED Rates!vars
  PROVE  RatesInv'
<1>1. UNCHANGED <<knobs, levels, cells, system, cell, cursor, drawn, tally, cancelled, interrupted,
                  opened, measured, base, status, claims>>
  BY DEF Rates!vars
<1>2. SweepFixed' /\ RatesTyped' /\ PointsLabelled' /\ RoundsApart'
  <2>1. SweepFixed'
    BY <1>1, SweepStays, Zenon DEF RatesInv
  <2>2. RatesTyped'
    BY <1>1, Zenon DEF RatesInv, RatesTyped
  <2>3. QED
    BY <1>1, <2>1, <2>2, RecordsStay, Zenon DEF RatesInv
<1>3. ReplayHasCell'
  BY <1>1, Zenon DEF RatesInv, ReplayHasCell
<1>4. InConfiguration'
  BY <1>1, Zenon DEF RatesInv, InConfiguration, Rates!Applicable, Rates!Current
<1>5. EveryRequestDrawn'
  BY <1>1, Zenon DEF RatesInv, EveryRequestDrawn, Drawn, AskingWorkers
<1>6. RoundsNamed'
  BY <1>1, NamesStay, Zenon DEF RatesInv
<1>7. QED
  BY <1>2, <1>3, <1>4, <1>5, <1>6, Zenon DEF RatesInv

--------------------------------
(* The trees that are updated *)

Merkle == INSTANCE MerkleUpdates WITH Values <- {Original, Changed}, Initial <- Original

(* The tree that is checked is made and updated as in MerkleTree. *)
LEMMA SameTrees ==
  /\ \A data : Merkle!New(data) = New(data)
  /\ \A mt, i, hash : Merkle!UpdateLeafHash(mt, i, hash) = UpdateLeafHash(mt, i, hash)
  /\ \A mt : Merkle!Root(mt) = Root(mt) /\ Merkle!LeafCount(mt) = LeafCount(mt)
  /\ \A mt, i : Merkle!Proof(mt, i) = Proof(mt, i)
  /\ \A r, hash, proof : Merkle!VerifyHash(r, hash, proof) = VerifyHash(r, hash, proof)
  /\ \A data : Merkle!HashLeaf(data) = HashLeaf(data)
<1> USE DEF Merkle!HashLeaf, HashLeaf, Merkle!HashInternal, HashInternal, Merkle!LeafCount, LeafCount,
            Merkle!Root, Root
<1>1. \A data : Merkle!New(data) = New(data)
  BY Zenon DEF Merkle!New, New, Merkle!NewFromHashes, NewFromHashes, Merkle!NextLevel, NextLevel,
     Merkle!Depth, Depth, Merkle!Widths, Widths
<1>2. \A mt, i, hash : Merkle!UpdateLeafHash(mt, i, hash) = UpdateLeafHash(mt, i, hash)
  BY Zenon DEF Merkle!UpdateLeafHash, UpdateLeafHash, Merkle!Path, Path, Merkle!ParentOf, ParentOf
<1>3. \A mt, i : Merkle!Proof(mt, i) = Proof(mt, i)
  BY Zenon DEF Merkle!Proof, Proof, Merkle!Sibling, Sibling, Merkle!Path, Path
<1>4. \A r, hash, proof : Merkle!VerifyHash(r, hash, proof) = VerifyHash(r, hash, proof)
  BY Zenon DEF Merkle!VerifyHash, VerifyHash, Merkle!Climb, Climb, Merkle!Joined, Joined
<1>5. QED
  BY <1>1, <1>2, <1>3, <1>4

(* The tree of the leaves, of which there are some. *)
MerkleInv ==
  /\ IsSequence(leaves) /\ Len(leaves) # 0 /\ tree = New(leaves)
  /\ \A i \in 1 .. Len(leaves) : leaves[i] \in {Original, Changed}

LEMMA InitRebuilt ==
  ASSUME Merkle!Init
  PROVE  MerkleInv
<1>1. PICK n \in 1 .. MaxLeaves : leaves = [i \in 1 .. n |-> Original]
  BY DEF Merkle!Init
<1>2. n \in Nat /\ leaves \in [1 .. n -> {Original}] /\ n # 0
  BY <1>1
<1>3. IsSequence(leaves) /\ Len(leaves) = n
  BY <1>2, FunctionIsSequence
<1>4. \A i \in 1 .. Len(leaves) : leaves[i] \in {Original, Changed}
  BY <1>1, <1>3
<1>5. QED
  BY <1>2, <1>3, <1>4, SameTrees DEF Merkle!Init, MerkleInv

LEMMA UpdateRebuilt ==
  ASSUME MerkleInv, Merkle!Next
  PROVE  MerkleInv'
<1>1. PICK i \in 0 .. Len(leaves) - 1, value \in {Original, Changed} : Merkle!Update(i, value)
  BY DEF Merkle!Next
<1> DEFINE x == LeafHashes(leaves)
           y == LeafHashes(leaves')
<1>2. /\ leaves' = Overwritten(leaves, i + 1, value)
      /\ tree' = UpdateLeafHash(New(leaves), i, HashLeaf(value))
  BY <1>1, SameTrees DEF Merkle!Update, MerkleInv, Overwritten
<1>3. PICK n \in Nat : n = Len(leaves) /\ i + 1 \in 1 .. n
  BY SequenceFacts DEF MerkleInv
<1>4. /\ IsSequence(leaves') /\ Len(leaves') = n /\ leaves'[i + 1] = value
      /\ \A j \in 1 .. n : j # i + 1 => leaves'[j] = leaves[j]
  BY <1>2, <1>3, WrittenFacts DEF MerkleInv
<1>5. /\ IsSequence(x) /\ Len(x) = n /\ \A j \in 1 .. n : x[j] = HashLeaf(leaves[j])
      /\ New(leaves) = NewFromHashes(x)
      /\ IsSequence(y) /\ Len(y) = n /\ \A j \in 1 .. n : y[j] = HashLeaf(leaves'[j])
      /\ New(leaves') = NewFromHashes(y)
  BY <1>3, <1>4, LeafHashesFacts DEF MerkleInv
<1> HIDE DEF x, y
<1>6. y = Overwritten(x, i + 1, HashLeaf(value))
  <2>1. PICK z : z = Overwritten(x, i + 1, HashLeaf(value))
    OBVIOUS
  <2>2. /\ IsSequence(z) /\ Len(z) = n /\ z[i + 1] = HashLeaf(value)
        /\ \A j \in 1 .. n : j # i + 1 => z[j] = x[j]
    BY <2>1, <1>3, <1>5, WrittenFacts
  <2>3. \A j \in 1 .. n : y[j] = z[j]
    BY <1>4, <1>5, <2>2
  <2>4. QED
    BY <2>1, <2>2, <2>3, <1>5, SameSequence
<1>7. UpdateLeafHash(NewFromHashes(x), i, HashLeaf(value)) = NewFromHashes(y)
  <2>1. y = [x EXCEPT ![i + 1] = HashLeaf(value)]
    BY <1>6 DEF Overwritten
  <2>2. i \in 0 .. Len(x) - 1
    BY <1>3, <1>5
  <2>3. QED
    BY <1>5, <2>1, <2>2, UpdateIsRebuild
<1>8. \A j \in 1 .. Len(leaves') : leaves'[j] \in {Original, Changed}
  BY <1>1, <1>3, <1>4 DEF MerkleInv
<1>9. QED
  BY <1>2, <1>3, <1>4, <1>5, <1>7, <1>8 DEF MerkleInv

LEMMA MerkleTyped ==
  ASSUME MerkleInv
  PROVE  Merkle!TypeOK
<1> DEFINE x == LeafHashes(leaves)
<1>1. PICK n \in Nat : n = Len(leaves) /\ n # 0
  BY SequenceFacts DEF MerkleInv
<1>2. IsSequence(x) /\ Len(x) = n /\ tree = NewFromHashes(x)
  BY <1>1, LeafHashesFacts DEF MerkleInv
<1> HIDE DEF x
<1>3. Len(tree) = Depth(n) /\ tree[1] = x
  BY <1>1, <1>2, TreeFacts
<1>4. Len(tree) = Merkle!Depth(n)
  BY <1>3, Zenon DEF Merkle!Depth, Depth, Merkle!Widths, Widths
<1>5. Merkle!LeafCount(tree) = n
  BY <1>2, <1>3 DEF Merkle!LeafCount
<1>6. leaves \in Seq({Original, Changed})
  <2>1. leaves = [i \in 1 .. n |-> leaves[i]]
    BY <1>1 DEF MerkleInv, IsSequence
  <2>2. \A i \in 1 .. n : leaves[i] \in {Original, Changed}
    BY <1>1 DEF MerkleInv
  <2>3. leaves \in [1 .. n -> {Original, Changed}]
    BY <2>1, <2>2
  <2>4. QED
    BY <1>1, <2>3
<1>7. QED
  BY <1>1, <1>4, <1>5, <1>6 DEF Merkle!TypeOK

LEMMA LeavesNamed ==
  ASSUME MerkleInv
  PROVE  Merkle!UpdateMatchesRebuild
<1> DEFINE x == LeafHashes(leaves)
<1>1. PICK n \in Nat : n = Len(leaves) /\ n # 0
  BY SequenceFacts DEF MerkleInv
<1>2. /\ IsSequence(x) /\ Len(x) = n /\ \A j \in 1 .. n : x[j] = HashLeaf(leaves[j])
      /\ tree = NewFromHashes(x)
  BY <1>1, LeafHashesFacts DEF MerkleInv
<1> HIDE DEF x
<1>3. ASSUME NEW i \in 0 .. n - 1, NEW value
      PROVE  VerifyHash(Root(tree), HashLeaf(value), Proof(tree, i)) <=> value = leaves[i + 1]
  <2>1. i + 1 \in 1 .. n
    OBVIOUS
  <2>2. VerifyHash(Root(tree), HashLeaf(leaves[i + 1]), Proof(tree, i))
    BY <1>2, <2>1, LeavesProved
  <2>3. PICK proof : proof = Proof(tree, i)
    OBVIOUS
  <2>4. Len(proof) \in Nat
    <3>1. IsSequence(tree) /\ Len(tree) # 0
      BY <1>1, <1>2, TreeFacts
    <3>2. QED
      BY <2>3, <3>1, ProofFacts
  <2>5. ASSUME VerifyHash(Root(tree), HashLeaf(value), proof)
        PROVE  value = leaves[i + 1]
    <3>1. Climb(HashLeaf(value), proof) = Climb(HashLeaf(leaves[i + 1]), proof)
      BY <2>2, <2>3, <2>5 DEF VerifyHash
    <3>2. HashLeaf(value) = HashLeaf(leaves[i + 1])
      BY <2>4, <3>1, ProofBinds
    <3>3. QED
      BY <3>2 DEF HashLeaf
  <2>6. QED
    BY <2>2, <2>3, <2>5
<1>4. ASSUME NEW more
      PROVE  Root(New(Append(leaves, more))) # Root(tree)
  <2>1. PICK S : leaves \in Seq(S)
    BY DEF MerkleInv, IsSequence
  <2>2. Append(leaves, more) \in Seq(S \cup {more}) /\ Len(Append(leaves, more)) = n + 1
    BY <1>1, <2>1
  <2>3. PICK longer : longer = Append(leaves, more)
    OBVIOUS
  <2>4. IsSequence(longer) /\ Len(longer) = n + 1
    BY <2>2, <2>3 DEF IsSequence
  <2>5. Root(New(longer)) # Root(New(leaves))
    BY <1>1, <2>4, RootNames DEF MerkleInv
  <2>6. QED
    BY <2>3, <2>5 DEF MerkleInv
<1>5. Merkle!SameAsRebuilt
  BY SameTrees DEF Merkle!SameAsRebuilt, MerkleInv
<1>6. Merkle!RootNamesLeaves
  BY <1>1, <1>3, <1>4, SameTrees DEF Merkle!RootNamesLeaves
<1>7. QED
  BY <1>5, <1>6 DEF Merkle!UpdateMatchesRebuild

--------------------------------
(* Pooled documents *)

Merge == INSTANCE ResultMerge WITH
    Experiments <- Documents, experiment <- pooledOf, points <- pool

(* Documents are pooled one by one. *)
MergeTyped == Merge!TypeOK /\ Len(shards) \in Nat

LEMMA MergeTypes ==
  /\ Merge!Init => MergeTyped
  /\ MergeTyped /\ Merge!Next => MergeTyped'
<1>1. ASSUME Merge!Init
      PROVE  MergeTyped
  <2>1. PICK n \in 1 .. MaxDocuments : shards \in [1 .. n -> Documents[pooledOf]]
    BY <1>1 DEF Merge!Init
  <2>2. n \in Nat
    BY <2>1
  <2>3. Len(shards) \in Nat
    BY <2>1, <2>2
  <2>4. QED
    BY <1>1, <2>3 DEF Merge!Init, MergeTyped, Merge!TypeOK
<1>2. ASSUME MergeTyped, Merge!Next
      PROVE  MergeTyped'
  <2>1. CASE Merge!Pool
    BY <1>2, <2>1 DEF Merge!Pool, MergeTyped, Merge!TypeOK
  <2>2. CASE Merge!Write
    BY <1>2, <2>2 DEF Merge!Write, MergeTyped, Merge!TypeOK
  <2>3. CASE Merge!Refuse
    BY <1>2, <2>3 DEF Merge!Refuse, MergeTyped, Merge!TypeOK
  <2>4. QED
    BY <1>2, <2>1, <2>2, <2>3 DEF Merge!Next
<1>3. QED
  BY <1>1, <1>2

(* v is what a set of verdicts comes to: broken if one of them is, and else
   the one with the largest ratio. *)
Worst(v, V) ==
  /\ v \in V
  /\ v.holds <=> \A u \in V : u.holds
  /\ v.holds => \A u \in V : u.ratio <= v.ratio

(* What the documents pooled so far say of a scheme. *)
Heard(s) == {shards[k].extras[s] : k \in {j \in 1 .. pooled : s \in DOMAIN shards[j].extras}}

(* Every scheme heard of has an entry, the worst of what was heard, and what
   is written is written when all documents are pooled. *)
MergeInv ==
  pooledOf = "exp3" =>
    /\ pooled \in 0 .. Len(shards)
    /\ shards \in Seq(Documents["exp3"])
    /\ \A k \in 1 .. pooled : DOMAIN shards[k].extras \subseteq DOMAIN extras
    /\ \A s \in DOMAIN extras : Worst(extras[s], Heard(s))
    /\ outcome = "written" => pooled = Len(shards) /\ document.extras = extras

(* worseScaling carries the worst verdict over to one document more. *)
LEMMA WorseOfTwo ==
  ASSUME NEW V \in SUBSET Merge!ScalingVerdict, NEW a, Worst(a, V), NEW b \in Merge!ScalingVerdict
  PROVE  Worst(Merge!WorseScaling(a, b), V \cup {b})
<1>1. a \in Merge!ScalingVerdict /\ a \in V
  BY DEF Worst
<1>2. CASE ~a.holds
  <2>1. Merge!WorseScaling(a, b) = a
    BY <1>2 DEF Merge!WorseScaling
  <2>2. QED
    BY <2>1, <1>1, <1>2 DEF Worst
<1>3. CASE a.holds /\ ~b.holds
  <2>1. Merge!WorseScaling(a, b) = b
    BY <1>3 DEF Merge!WorseScaling
  <2>2. QED
    BY <2>1, <1>3 DEF Worst
<1>4. CASE a.holds /\ b.holds
  <2>1. Merge!WorseScaling(a, b) = IF b.ratio > a.ratio THEN b ELSE a
    BY <1>4 DEF Merge!WorseScaling
  <2>2. /\ a.ratio \in Nat /\ b.ratio \in Nat
        /\ \A u \in V : u.ratio \in Nat /\ u.ratio <= a.ratio /\ u.holds
    BY <1>1, <1>4 DEF Worst, Merge!ScalingVerdict
  <2>3. CASE b.ratio > a.ratio
    <3>1. \A u \in V \cup {b} : u.ratio <= b.ratio /\ u.holds
      BY <2>2, <2>3, <1>4
    <3>2. QED
      BY <2>1, <2>3, <3>1, <1>4 DEF Worst
  <2>4. CASE ~(b.ratio > a.ratio)
    <3>1. \A u \in V \cup {b} : u.ratio <= a.ratio /\ u.holds
      BY <2>2, <2>4, <1>4
    <3>2. QED
      BY <2>1, <2>4, <3>1, <1>1, <1>4 DEF Worst
  <2>5. QED
    BY <2>3, <2>4
<1>5. QED
  BY <1>2, <1>3, <1>4

LEMMA InitMerges ==
  ASSUME Merge!Init
  PROVE  MergeInv
<1> SUFFICES ASSUME pooledOf = "exp3"
             PROVE  MergeInv
  BY DEF MergeInv
<1>1. PICK n \in 1 .. MaxDocuments : shards \in [1 .. n -> Documents["exp3"]]
  BY DEF Merge!Init
<1>2. n \in Nat
  BY <1>1
<1>3. shards \in Seq(Documents["exp3"])
  BY <1>1, <1>2
<1>4. /\ pooled = 0 /\ outcome = "pooling"
      /\ DOMAIN extras = {}
  BY DEF Merge!Init
<1>5. Len(shards) \in Nat
  BY <1>3
<1>6. QED
  BY <1>3, <1>4, <1>5 DEF MergeInv

(* One document more. *)
LEMMA PoolMerges ==
  ASSUME MergeInv, Merge!CarryVerdicts, pooledOf \in DOMAIN Documents, Merge!Pool
  PROVE  MergeInv'
<1> SUFFICES ASSUME pooledOf = "exp3"
             PROVE  MergeInv'
  BY DEF MergeInv, Merge!Pool
<1> DEFINE next == shards[pooled + 1].extras
<1>1. /\ pooled \in 0 .. Len(shards) /\ shards \in Seq(Documents["exp3"])
      /\ \A k \in 1 .. pooled : DOMAIN shards[k].extras \subseteq DOMAIN extras
      /\ \A s \in DOMAIN extras : Worst(extras[s], Heard(s))
  BY DEF MergeInv
<1>2. /\ pooled < Len(shards) /\ pooled' = pooled + 1 /\ extras' = Merge!MergeExtras(next)
      /\ pooledOf' = pooledOf /\ shards' = shards /\ outcome' = "pooling"
  BY DEF Merge!Pool, Merge!Carried
<1>3. pooled \in Nat /\ Len(shards) \in Nat /\ pooled + 1 \in 1 .. Len(shards)
  BY <1>1, <1>2
<1>4. \A k \in 1 .. pooled + 1 :
        shards[k].extras \in [DOMAIN shards[k].extras -> Merge!ScalingVerdict]
  <2>1. \A k \in 1 .. pooled + 1 : shards[k] \in Documents["exp3"]
    BY <1>1, <1>3
  <2>2. QED
    BY <2>1 DEF Merge!CarryVerdicts
<1>5. /\ DOMAIN extras' = DOMAIN extras \cup DOMAIN next
      /\ \A s \in DOMAIN extras' :
            extras'[s] = IF s \notin DOMAIN next THEN extras[s]
                         ELSE IF s \notin DOMAIN extras \/ extras[s] = next[s] THEN next[s]
                         ELSE Merge!WorseScaling(extras[s], next[s])
  BY <1>2 DEF Merge!MergeExtras
<1>6. \A k \in 1 .. pooled' : DOMAIN shards'[k].extras \subseteq DOMAIN extras'
  <2>1. \A k \in 1 .. pooled + 1 : k \in 1 .. pooled \/ k = pooled + 1
    BY <1>3
  <2>2. QED
    BY <2>1, <1>1, <1>2, <1>5
<1>7. ASSUME NEW s \in DOMAIN extras'
      PROVE  Worst(extras'[s], Heard(s)')
  <2>1. \A j : j \in 1 .. pooled + 1 <=> (j \in 1 .. pooled \/ j = pooled + 1)
    BY <1>3
  <2>2. Heard(s)' = IF s \in DOMAIN next THEN Heard(s) \cup {next[s]} ELSE Heard(s)
    BY <2>1, <1>2 DEF Heard
  <2>3. Heard(s) \in SUBSET Merge!ScalingVerdict
    BY <1>3, <1>4 DEF Heard
  <2>4. s \notin DOMAIN extras => Heard(s) = {}
    BY <1>1 DEF Heard
  <2>5. CASE s \notin DOMAIN next
    BY <2>5, <2>2, <1>1, <1>5
  <2>6. CASE s \in DOMAIN next /\ s \notin DOMAIN extras
    <3>1. extras'[s] = next[s] /\ Heard(s)' = {next[s]}
      BY <2>6, <2>2, <2>4, <1>5
    <3>2. next[s] \in Merge!ScalingVerdict
      BY <2>6, <1>3, <1>4
    <3>3. next[s].ratio \in Nat
      BY <3>2 DEF Merge!ScalingVerdict
    <3>4. QED
      BY <3>1, <3>3 DEF Worst
  <2>7. CASE s \in DOMAIN next /\ s \in DOMAIN extras
    <3>1. next[s] \in Merge!ScalingVerdict
      BY <2>7, <1>3, <1>4
    <3>2. Worst(Merge!WorseScaling(extras[s], next[s]), Heard(s) \cup {next[s]})
      BY <3>1, <2>3, <2>7, <1>1, WorseOfTwo
    <3>3. CASE extras[s] = next[s]
      <4>1. Heard(s) \cup {next[s]} = Heard(s)
        BY <3>3, <2>7, <1>1 DEF Worst
      <4>2. QED
        BY <4>1, <3>3, <2>2, <2>7, <1>1, <1>5
    <3>4. CASE extras[s] # next[s]
      BY <3>4, <3>2, <2>2, <2>7, <1>5
    <3>5. QED
      BY <3>3, <3>4
  <2>8. QED
    BY <2>5, <2>6, <2>7
<1>8. QED
  BY <1>1, <1>2, <1>3, <1>6, <1>7 DEF MergeInv

LEMMA MergeStep ==
  ASSUME MergeInv, pooledOf \in DOMAIN Documents, Merge!CarryVerdicts, Merge!Next
  PROVE  MergeInv' /\ pooledOf' \in DOMAIN Documents
<1>1. CASE Merge!Pool
  BY <1>1, PoolMerges DEF Merge!Pool
<1>2. CASE Merge!Write
  <2>1. /\ outcome = "pooling" /\ pooled = Len(shards)
        /\ UNCHANGED <<pooledOf, shards, pooled, extras>>
        /\ pooledOf = "exp3" => document'.extras = extras
    BY <1>2 DEF Merge!Write
  <2>2. QED
    BY <2>1 DEF MergeInv, Heard
<1>3. CASE Merge!Refuse
  BY <1>3 DEF Merge!Refuse, MergeInv, Heard
<1>4. QED
  BY <1>1, <1>2, <1>3 DEF Merge!Next

LEMMA ClaimSurvives ==
  ASSUME MergeInv
  PROVE  Merge!BrokenClaimSurvives
<1> SUFFICES ASSUME outcome = "written", pooledOf = "exp3", NEW s \in DOMAIN document.extras
             PROVE  Worst(document.extras[s], Merge!Verdicts(s))
  BY DEF Merge!BrokenClaimSurvives, Worst
<1>1. /\ pooled = Len(shards) /\ document.extras = extras
      /\ shards \in Seq(Documents["exp3"])
      /\ Worst(extras[s], Heard(s))
  BY DEF MergeInv
<1>2. Heard(s) = Merge!Verdicts(s)
  <2>1. DOMAIN shards = 1 .. Len(shards)
    BY <1>1
  <2>2. QED
    BY <1>1, <2>1 DEF Heard, Merge!Verdicts, Merge!ToSet
<1>3. QED
  BY <1>1, <1>2

--------------------------------
(* The policies that are parsed *)

\* Policies that a few more tokens complete to one with a parenthesis.
Beginnings == {<<>>, <<Open, False, And>>, <<Open, True, Or>>, <<True, Or, Open>>}

Policy == INSTANCE PolicyLanguage WITH Seeds <- Beginnings

--------------------------------
(* The parser *)

PolicyRules == {"or", "and", "term"}

(* The parser is a recursive function over rules and positions. *)
ParseOf(toks) ==
    LET parse[k \in {"or", "and", "term"} \X (1 .. Len(toks) + 2)] ==
            IF k[1] = "term" THEN Policy!ParseTerm(parse, toks, k[2])
            ELSE Policy!ParseChain(parse, k[1], toks, k[2])
    IN  parse

AtSpot(p, toks, rule, x) ==
    IF rule = "term" THEN Policy!ParseTerm(p, toks, x) ELSE Policy!ParseChain(p, rule, toks, x)

Outcomes == [ok : BOOLEAN, value : BOOLEAN, pos : Nat]

(* A rule that succeeds has read a token, and no more than there are. *)
Advances(result, x, n) == result \in Outcomes /\ (result.ok => result.pos \in x + 1 .. n + 1)

LEMMA OperandRules ==
  /\ Policy!Operand("or") = "and" /\ Policy!Operand("and") = "term"
  /\ \A rule \in {"or", "and"} : Policy!Operand(rule) \in PolicyRules /\ rule \in PolicyRules
  BY DEF Policy!Operand, PolicyRules

LEMMA OutcomeFacts ==
  /\ Policy!Error \in Outcomes /\ Policy!Error.ok = FALSE
  /\ \A value \in BOOLEAN, pos \in Nat :
        /\ Policy!Parsed(value, pos) \in Outcomes /\ Policy!Parsed(value, pos).ok = TRUE
        /\ Policy!Parsed(value, pos).value = value /\ Policy!Parsed(value, pos).pos = pos
  BY DEF Policy!Error, Policy!Parsed, Outcomes

LEMMA JoinedBoolean ==
  ASSUME NEW rule, NEW a, NEW b
  PROVE  Policy!Joined(rule, a, b) \in BOOLEAN
<1>1. (a \/ b) \in BOOLEAN /\ (a /\ b) \in BOOLEAN
  OBVIOUS
<1>2. QED
  BY <1>1 DEF Policy!Joined

(* Two tables agree on what is parsed behind a position, or at one. *)
AgreeAt(p, o, n, r, y) == p[<<r, y>>] = o[<<r, y>>] /\ Advances(p[<<r, y>>], y, n)

AgreeBehind(p, o, n, x) == \A r \in PolicyRules : \A y \in 1 .. n + 2 : y > x => AgreeAt(p, o, n, r, y)

(* What a rule finds at a position depends on what is found behind it and,
   for a chain, on its operand. *)
LEMMA SameTerm ==
  ASSUME NEW toks, NEW n \in Nat, n = Len(toks), NEW p, NEW o, NEW x \in 1 .. n + 2,
         AgreeBehind(p, o, n, x)
  PROVE  /\ AtSpot(p, toks, "term", x) = AtSpot(o, toks, "term", x)
         /\ Advances(AtSpot(p, toks, "term", x), x, n)
<1>1. AtSpot(p, toks, "term", x) = Policy!ParseTerm(p, toks, x) /\ AtSpot(o, toks, "term", x) = Policy!ParseTerm(o, toks, x)
  BY DEF AtSpot
<1>2. CASE x > n
  <2>1. Policy!ParseTerm(p, toks, x) = Policy!Error /\ Policy!ParseTerm(o, toks, x) = Policy!Error
    BY <1>2 DEF Policy!ParseTerm
  <2>2. QED
    BY <1>1, <2>1, OutcomeFacts DEF Advances
<1>3. CASE ~(x > n) /\ toks[x] = Open
  <2> DEFINE inner == p[<<"or", x + 1>>]
  <2>1. "or" \in PolicyRules /\ x + 1 \in 1 .. n + 2 /\ x + 1 > x
    BY <1>3 DEF PolicyRules
  <2>2. inner = o[<<"or", x + 1>>] /\ Advances(inner, x + 1, n)
    BY <2>1 DEF AgreeBehind, AgreeAt
  <2> HIDE DEF inner
  <2>3. Policy!ParseTerm(p, toks, x) = IF inner.ok /\ Policy!Peeks(toks, inner.pos, Close)
                                THEN Policy!Parsed(inner.value, inner.pos + 1) ELSE Policy!Error
    BY <1>3 DEF Policy!ParseTerm, inner
  <2>4. Policy!ParseTerm(o, toks, x) = IF inner.ok /\ Policy!Peeks(toks, inner.pos, Close)
                                THEN Policy!Parsed(inner.value, inner.pos + 1) ELSE Policy!Error
    BY <1>3, <2>2 DEF Policy!ParseTerm
  <2>5. CASE inner.ok /\ Policy!Peeks(toks, inner.pos, Close)
    <3>1. inner.pos \in x + 2 .. n /\ inner.value \in BOOLEAN
      BY <2>2, <2>5 DEF Advances, Outcomes, Policy!Peeks
    <3>2. inner.pos + 1 \in Nat /\ inner.pos + 1 \in x + 1 .. n + 1
      BY <3>1
    <3>3. QED
      BY <1>1, <2>3, <2>4, <2>5, <3>1, <3>2, OutcomeFacts DEF Advances
  <2>6. CASE ~(inner.ok /\ Policy!Peeks(toks, inner.pos, Close))
    BY <1>1, <2>3, <2>4, <2>6, OutcomeFacts DEF Advances
  <2>7. QED
    BY <2>5, <2>6
<1>4. CASE ~(x > n) /\ toks[x] # Open /\ toks[x] \in {True, False}
  <2>1. /\ Policy!ParseTerm(p, toks, x) = Policy!Parsed(toks[x] = True, x + 1)
        /\ Policy!ParseTerm(o, toks, x) = Policy!Parsed(toks[x] = True, x + 1)
    BY <1>4 DEF Policy!ParseTerm
  <2>2. (toks[x] = True) \in BOOLEAN /\ x + 1 \in Nat /\ x + 1 \in x + 1 .. n + 1
    BY <1>4
  <2>3. QED
    <3>1. AtSpot(p, toks, "term", x) = AtSpot(o, toks, "term", x)
      BY <1>1, <2>1, Zenon
    <3>2. PICK result : result = Policy!Parsed(toks[x] = True, x + 1)
      OBVIOUS
    <3>3. result \in Outcomes /\ result.pos = x + 1
      BY <2>2, <3>2, OutcomeFacts
    <3>4. Advances(result, x, n)
      BY <2>2, <3>3 DEF Advances
    <3>5. QED
      BY <1>1, <2>1, <3>1, <3>2, <3>4, Zenon
<1>5. CASE ~(x > n) /\ toks[x] # Open /\ toks[x] \notin {True, False}
  <2>1. Policy!ParseTerm(p, toks, x) = Policy!Error /\ Policy!ParseTerm(o, toks, x) = Policy!Error
    BY <1>5 DEF Policy!ParseTerm
  <2>2. QED
    BY <1>1, <2>1, OutcomeFacts DEF Advances
<1>6. QED
  BY <1>2, <1>3, <1>4, <1>5

LEMMA SameChain ==
  ASSUME NEW toks, NEW n \in Nat, n = Len(toks), NEW p, NEW o, NEW rule \in {"or", "and"},
         NEW x \in 1 .. n + 2, AgreeBehind(p, o, n, x), AgreeAt(p, o, n, Policy!Operand(rule), x)
  PROVE  /\ AtSpot(p, toks, rule, x) = AtSpot(o, toks, rule, x)
         /\ Advances(AtSpot(p, toks, rule, x), x, n)
<1> DEFINE first == p[<<Policy!Operand(rule), x>>]
<1>1. /\ AtSpot(p, toks, rule, x) = Policy!ParseChain(p, rule, toks, x)
      /\ AtSpot(o, toks, rule, x) = Policy!ParseChain(o, rule, toks, x)
  BY DEF AtSpot
<1>2. first = o[<<Policy!Operand(rule), x>>] /\ Advances(first, x, n)
  BY DEF AgreeAt
<1> HIDE DEF first
<1>3. CASE ~first.ok \/ ~Policy!Peeks(toks, first.pos, Policy!Operator(rule))
  <2>1. Policy!ParseChain(p, rule, toks, x) = first
    BY <1>3 DEF Policy!ParseChain, first
  <2>2. Policy!ParseChain(o, rule, toks, x) = first
    BY <1>2, <1>3 DEF Policy!ParseChain
  <2>3. QED
    BY <1>1, <1>2, <2>1, <2>2
<1>4. CASE first.ok /\ Policy!Peeks(toks, first.pos, Policy!Operator(rule))
  <2>1. first.pos \in x + 1 .. n
    BY <1>2, <1>4 DEF Advances, Outcomes, Policy!Peeks
  <2> DEFINE rest == p[<<rule, first.pos + 1>>]
  <2>2. first.pos + 1 \in 1 .. n + 2 /\ first.pos + 1 > x
    BY <2>1
  <2>3. rest = o[<<rule, first.pos + 1>>] /\ Advances(rest, first.pos + 1, n)
    BY <2>2, OperandRules DEF AgreeBehind, AgreeAt
  <2> HIDE DEF rest
  <2>4. Policy!ParseChain(p, rule, toks, x) =
           IF rest.ok THEN Policy!Parsed(Policy!Joined(rule, first.value, rest.value), rest.pos) ELSE Policy!Error
    BY <1>4 DEF Policy!ParseChain, first, rest
  <2>5. Policy!ParseChain(o, rule, toks, x) =
           IF rest.ok THEN Policy!Parsed(Policy!Joined(rule, first.value, rest.value), rest.pos) ELSE Policy!Error
    BY <1>2, <1>4, <2>3 DEF Policy!ParseChain
  <2>6. Policy!Joined(rule, first.value, rest.value) \in BOOLEAN
    BY JoinedBoolean
  <2>7. CASE rest.ok
    <3>1. rest.pos \in Nat /\ rest.pos \in x + 1 .. n + 1
      BY <2>1, <2>3, <2>7 DEF Advances, Outcomes
    <3>2. QED
      BY <1>1, <2>4, <2>5, <2>6, <2>7, <3>1, OutcomeFacts DEF Advances
  <2>8. CASE ~rest.ok
    BY <1>1, <2>4, <2>5, <2>8, OutcomeFacts DEF Advances
  <2>9. QED
    BY <2>7, <2>8
<1>5. QED
  BY <1>3, <1>4

(* The parts of a pair. *)
LEMMA PairAt ==
  ASSUME NEW A, NEW B, NEW a \in A, NEW b \in B
  PROVE  <<a, b>> \in A \X B /\ <<a, b>>[1] = a /\ <<a, b>>[2] = b
  OBVIOUS

(* What p says a rule finds at a position is what it finds. *)
Settled(p, toks, n, r, y) == p[<<r, y>>] = AtSpot(p, toks, r, y) /\ Advances(p[<<r, y>>], y, n)

ParsesBehind(p, toks, n, x) ==
    \A r \in PolicyRules : \A y \in 1 .. n + 2 : y > x => Settled(p, toks, n, r, y)

LEMMA StaysSettled ==
  ASSUME NEW toks, NEW n \in Nat, n = Len(toks), NEW p, NEW o, NEW r \in PolicyRules,
         NEW y \in 1 .. n + 2, AgreeBehind(p, o, n, y), AgreeAt(p, o, n, r, y),
         r # "term" => AgreeAt(p, o, n, Policy!Operand(r), y), Settled(p, toks, n, r, y)
  PROVE  Settled(o, toks, n, r, y)
<1>1. AtSpot(p, toks, r, y) = AtSpot(o, toks, r, y)
  <2>1. CASE r = "term"
    <3>1. AtSpot(p, toks, "term", y) = AtSpot(o, toks, "term", y)
      BY SameTerm
    <3>2. QED
      BY <2>1, <3>1
  <2>2. CASE r # "term"
    <3>1. r \in {"or", "and"}
      BY <2>2 DEF PolicyRules
    <3>2. AgreeAt(p, o, n, Policy!Operand(r), y)
      BY <2>2
    <3>3. QED
      BY <3>1, <3>2, SameChain
  <2>3. QED
    BY <2>1, <2>2
<1>2. QED
  BY <1>1, Zenon DEF Settled, AgreeAt

(* What is found with the other rules and without this one stays found. *)
Keeps(p, o, toks, n, rule, x) ==
    \A r \in PolicyRules :
        /\ r # rule /\ Settled(p, toks, n, r, x)
        /\ r # "term" => Policy!Operand(r) # rule /\ Settled(p, toks, n, Policy!Operand(r), x)
        => Settled(o, toks, n, r, x)

(* One rule more at a position. *)
LEMMA ParseOneRule ==
  ASSUME NEW toks, NEW n \in Nat, n = Len(toks), NEW x \in 1 .. n + 2, NEW rule \in PolicyRules,
         NEW p \in [PolicyRules \X (1 .. n + 2) -> Outcomes], ParsesBehind(p, toks, n, x),
         rule # "term" => Settled(p, toks, n, Policy!Operand(rule), x) /\ Policy!Operand(rule) # rule
  PROVE  \E o \in [PolicyRules \X (1 .. n + 2) -> Outcomes] :
            /\ ParsesBehind(o, toks, n, x) /\ Settled(o, toks, n, rule, x)
            /\ Keeps(p, o, toks, n, rule, x)
<1>1. PICK a : a = AtSpot(p, toks, rule, x)
  OBVIOUS
<1>2. AgreeBehind(p, p, n, x)
  BY DEF AgreeBehind, AgreeAt, ParsesBehind, Settled
<1>3. Advances(a, x, n)
  <2>1. CASE rule = "term"
    <3>1. Advances(AtSpot(p, toks, "term", x), x, n)
      BY <1>2, SameTerm
    <3>2. QED
      BY <1>1, <2>1, <3>1
  <2>2. CASE rule # "term"
    <3>1. rule \in {"or", "and"}
      BY <2>2 DEF PolicyRules
    <3>2. AgreeAt(p, p, n, Policy!Operand(rule), x)
      BY <2>2 DEF AgreeAt, Settled
    <3>3. Advances(AtSpot(p, toks, rule, x), x, n)
      BY <1>2, <3>1, <3>2, SameChain
    <3>4. QED
      BY <1>1, <3>3
  <2>3. QED
    BY <2>1, <2>2
<1>4. a \in Outcomes /\ <<rule, x>> \in PolicyRules \X (1 .. n + 2)
  BY <1>3 DEF Advances
<1>5. PICK o \in [PolicyRules \X (1 .. n + 2) -> Outcomes] : o = [p EXCEPT ![<<rule, x>>] = a]
  BY <1>4
<1>6. /\ o[<<rule, x>>] = a
      /\ \A r \in PolicyRules : \A y \in 1 .. n + 2 : y # x \/ r # rule => o[<<r, y>>] = p[<<r, y>>]
  BY <1>4, <1>5
<1>7. AgreeBehind(p, o, n, x)
  <2> SUFFICES ASSUME NEW r \in PolicyRules, NEW y \in 1 .. n + 2, y > x
               PROVE  AgreeAt(p, o, n, r, y)
    BY DEF AgreeBehind
  <2>1. Settled(p, toks, n, r, y)
    BY DEF ParsesBehind
  <2>2. y # x
    OBVIOUS
  <2>3. o[<<r, y>>] = p[<<r, y>>]
    BY <1>6, <2>2
  <2>4. QED
    BY <2>1, <2>3 DEF Settled, AgreeAt
<1>8. ASSUME NEW r \in PolicyRules, r # rule, Settled(p, toks, n, r, x),
             r # "term" => Policy!Operand(r) # rule /\ Settled(p, toks, n, Policy!Operand(r), x)
      PROVE  Settled(o, toks, n, r, x)
  <2>1. \A s \in PolicyRules : s # rule /\ Settled(p, toks, n, s, x) => AgreeAt(p, o, n, s, x)
    BY <1>6 DEF Settled, AgreeAt
  <2>2. AgreeAt(p, o, n, r, x)
    BY <1>8, <2>1
  <2>3. r # "term" => Policy!Operand(r) \in PolicyRules
    BY OperandRules DEF PolicyRules
  <2>4. r # "term" => AgreeAt(p, o, n, Policy!Operand(r), x)
    BY <1>8, <2>1, <2>3
  <2>5. QED
    BY <1>7, <1>8, <2>2, <2>4, StaysSettled
<1>9. Settled(o, toks, n, rule, x)
  <2>1. CASE rule = "term"
    <3>1. AtSpot(p, toks, "term", x) = AtSpot(o, toks, "term", x)
      BY <1>7, SameTerm
    <3>2. QED
      BY <1>1, <1>3, <1>6, <2>1, <3>1 DEF Settled
  <2>2. CASE rule # "term"
    <3>1. rule \in {"or", "and"} /\ Policy!Operand(rule) \in PolicyRules /\ Policy!Operand(rule) # rule
      BY <2>2, OperandRules DEF PolicyRules
    <3>2. AgreeAt(p, o, n, Policy!Operand(rule), x)
      BY <1>6, <2>2, <3>1 DEF AgreeAt, Settled
    <3>3. AtSpot(p, toks, rule, x) = AtSpot(o, toks, rule, x)
      BY <1>7, <3>1, <3>2, SameChain
    <3>4. QED
      BY <1>1, <1>3, <1>6, <3>3 DEF Settled
  <2>3. QED
    BY <2>1, <2>2
<1>10. ParsesBehind(o, toks, n, x)
  <2> SUFFICES ASSUME NEW r \in PolicyRules, NEW y \in 1 .. n + 2, y > x
               PROVE  Settled(o, toks, n, r, y)
    BY DEF ParsesBehind
  <2>1. Settled(p, toks, n, r, y)
    BY DEF ParsesBehind
  <2>2. AgreeBehind(p, o, n, y)
    BY <1>7 DEF AgreeBehind
  <2>3. AgreeAt(p, o, n, r, y)
    BY <1>7 DEF AgreeBehind
  <2>4. r # "term" => Policy!Operand(r) \in PolicyRules
    BY OperandRules DEF PolicyRules
  <2>5. r # "term" => AgreeAt(p, o, n, Policy!Operand(r), y)
    BY <1>7, <2>4 DEF AgreeBehind
  <2>6. QED
    BY <2>1, <2>2, <2>3, <2>5, StaysSettled
<1>11. Keeps(p, o, toks, n, rule, x)
  BY <1>8 DEF Keeps
<1>12. QED
  BY <1>9, <1>10, <1>11, Zenon

(* One position more, rule by rule. *)
LEMMA ParseOneMore ==
  ASSUME NEW toks, NEW n \in Nat, n = Len(toks), NEW x \in 1 .. n + 2,
         NEW p \in [PolicyRules \X (1 .. n + 2) -> Outcomes], ParsesBehind(p, toks, n, x)
  PROVE  \E o \in [PolicyRules \X (1 .. n + 2) -> Outcomes] : ParsesBehind(o, toks, n, x - 1)
<1>1. /\ "term" \in PolicyRules /\ "and" \in PolicyRules /\ "or" \in PolicyRules
      /\ \A r \in PolicyRules : r = "term" \/ r = "and" \/ r = "or"
      /\ Policy!Operand("or") = "and" /\ Policy!Operand("and") = "term"
      /\ "and" # "term" /\ "or" # "and" /\ "or" # "term"
  BY OperandRules DEF PolicyRules
<1>2. PICK pa \in [PolicyRules \X (1 .. n + 2) -> Outcomes] :
        ParsesBehind(pa, toks, n, x) /\ Settled(pa, toks, n, "term", x)
  BY <1>1, ParseOneRule
<1>3. PICK pb \in [PolicyRules \X (1 .. n + 2) -> Outcomes] :
        /\ ParsesBehind(pb, toks, n, x) /\ Settled(pb, toks, n, "and", x)
        /\ Keeps(pa, pb, toks, n, "and", x)
  <2>1. "and" # "term" => Settled(pa, toks, n, Policy!Operand("and"), x) /\ Policy!Operand("and") # "and"
    BY <1>1, <1>2
  <2>2. QED
    BY <1>1, <1>2, <2>1, ParseOneRule
<1>4. Settled(pb, toks, n, "term", x)
  BY <1>1, <1>2, <1>3 DEF Keeps
<1>5. PICK pc \in [PolicyRules \X (1 .. n + 2) -> Outcomes] :
        /\ ParsesBehind(pc, toks, n, x) /\ Settled(pc, toks, n, "or", x)
        /\ Keeps(pb, pc, toks, n, "or", x)
  <2>1. "or" # "term" => Settled(pb, toks, n, Policy!Operand("or"), x) /\ Policy!Operand("or") # "or"
    BY <1>1, <1>3
  <2>2. QED
    BY <1>1, <1>3, <2>1, ParseOneRule
<1>6. Settled(pc, toks, n, "term", x) /\ Settled(pc, toks, n, "and", x)
  BY <1>1, <1>3, <1>4, <1>5 DEF Keeps
<1>7. ParsesBehind(pc, toks, n, x - 1)
  <2> SUFFICES ASSUME NEW r \in PolicyRules, NEW y \in 1 .. n + 2, y > x - 1
               PROVE  Settled(pc, toks, n, r, y)
    BY DEF ParsesBehind
  <2>1. y = x \/ y > x
    OBVIOUS
  <2>2. CASE y = x
    BY <1>1, <1>5, <1>6, <2>2
  <2>3. CASE y > x
    BY <1>5, <2>3 DEF ParsesBehind
  <2>4. QED
    BY <2>1, <2>2, <2>3
<1>8. QED
  BY <1>7

(* From n down to 0. *)
LEMMA CountedDown ==
  ASSUME NEW n \in Nat, NEW S, n \in S, \A x \in 1 .. n : x \in S => x - 1 \in S
  PROVE  \A x \in 0 .. n : x \in S
<1> DEFINE Q == {m \in Nat : m <= n => n - m \in S}
<1>1. 0 \in Q
  OBVIOUS
<1>2. ASSUME NEW m \in Nat, m \in Q
      PROVE  m + 1 \in Q
  <2> SUFFICES ASSUME m + 1 <= n PROVE n - (m + 1) \in S
    OBVIOUS
  <2>1. n - m \in 1 .. n /\ (n - m) - 1 = n - (m + 1) /\ n - m \in S
    BY <1>2
  <2>2. QED
    BY <2>1
<1>3. Nat \subseteq Q
  <2> HIDE DEF Q
  <2>1. QED
    BY <1>1, <1>2, SetInduction
<1>4. ASSUME NEW x \in 0 .. n
      PROVE  x \in S
  <2>1. n - x \in Nat /\ n - x <= n /\ n - (n - x) = x
    OBVIOUS
  <2>2. QED
    BY <1>3, <2>1
<1>5. QED
  BY <1>4

(* The parser is what its definition says, and advances. *)
LEMMA ParseDefined ==
  ASSUME NEW toks, NEW n \in Nat, n = Len(toks)
  PROVE  \A r \in PolicyRules : \A x \in 1 .. n + 2 : Settled(ParseOf(toks), toks, n, r, x)
<1> DEFINE Spots == PolicyRules \X (1 .. n + 2)
           Equation(p) == p = [k \in Spots |-> IF k[1] = "term" THEN Policy!ParseTerm(p, toks, k[2])
                                               ELSE Policy!ParseChain(p, k[1], toks, k[2])]
           Q == {x \in Nat : \E p \in [Spots -> Outcomes] : ParsesBehind(p, toks, n, x)}
<1>1. n + 2 \in Q
  <2>1. PICK p : p = [k \in Spots |-> Policy!Error]
    OBVIOUS
  <2>2. p \in [Spots -> Outcomes]
    BY <2>1, OutcomeFacts
  <2>3. ParsesBehind(p, toks, n, n + 2)
    BY DEF ParsesBehind
  <2>4. QED
    BY <2>2, <2>3
<1>2. ASSUME NEW x \in 1 .. n + 2, x \in Q
      PROVE  x - 1 \in Q
  <2>1. PICK p \in [Spots -> Outcomes] : ParsesBehind(p, toks, n, x)
    BY <1>2
  <2>2. \E o \in [Spots -> Outcomes] : ParsesBehind(o, toks, n, x - 1)
    BY <2>1, ParseOneMore
  <2>3. x - 1 \in Nat
    OBVIOUS
  <2>4. QED
    BY <2>2, <2>3
<1>3. 0 \in Q
  <2> HIDE DEF Q
  <2>1. n + 2 \in Nat /\ 0 \in 0 .. n + 2
    OBVIOUS
  <2>2. QED
    BY <1>1, <1>2, <2>1, CountedDown
<1>4. PICK p \in [Spots -> Outcomes] : ParsesBehind(p, toks, n, 0)
  BY <1>3
<1>5. \A r \in PolicyRules, x \in 1 .. n + 2 : p[<<r, x>>] = AtSpot(p, toks, r, x)
  <2>1. \A x \in 1 .. n + 2 : x > 0
    OBVIOUS
  <2>2. \A r \in PolicyRules, x \in 1 .. n + 2 : Settled(p, toks, n, r, x)
    BY <1>4, <2>1 DEF ParsesBehind
  <2>3. QED
    BY <2>2, Zenon DEF Settled
<1>6. Equation(p)
  <2>1. ASSUME NEW k \in Spots
        PROVE  p[k] = IF k[1] = "term" THEN Policy!ParseTerm(p, toks, k[2]) ELSE Policy!ParseChain(p, k[1], toks, k[2])
    <3>1. PICK r \in PolicyRules, x \in 1 .. n + 2 : k = <<r, x>>
      OBVIOUS
    <3>2. k[1] = r /\ k[2] = x
      BY <3>1
    <3>3. p[<<r, x>>] = AtSpot(p, toks, r, x)
      BY <1>5
    <3>4. QED
      BY <3>1, <3>2, <3>3 DEF AtSpot
  <2>2. QED
    BY <2>1
<1>7. \E f : Equation(f)
  BY <1>6
<1>8. ParseOf(toks) = CHOOSE f : Equation(f)
  BY DEF ParseOf, PolicyRules
<1> DEFINE P == ParseOf(toks)
<1>9. Equation(P)
  <2> HIDE DEF Equation
  <2>1. QED
    BY <1>7, <1>8
<1> HIDE DEF P
<1>10. \A r \in PolicyRules, x \in 1 .. n + 2 : P[<<r, x>>] = AtSpot(P, toks, r, x)
  <2>1. ASSUME NEW r \in PolicyRules, NEW x \in 1 .. n + 2
        PROVE  P[<<r, x>>] = AtSpot(P, toks, r, x)
    <3> DEFINE k == <<r, x>>
    <3>1. k \in Spots /\ k[1] = r /\ k[2] = x
      BY PairAt, Zenon
    <3> HIDE DEF k
    <3>2. P[k] = IF k[1] = "term" THEN Policy!ParseTerm(P, toks, k[2]) ELSE Policy!ParseChain(P, k[1], toks, k[2])
      BY <1>9, <3>1
    <3>3. P[k] = AtSpot(P, toks, r, x)
      BY <3>1, <3>2, Zenon DEF AtSpot
    <3>4. QED
      BY <3>3, Zenon DEF k
  <2>2. QED
    BY <2>1, Zenon
<1> DEFINE A == {x \in Nat : ParsesBehind(P, toks, n, x)}
<1>11. n + 2 \in A
  BY DEF ParsesBehind
<1>12. ASSUME NEW x \in 1 .. n + 2, x \in A
       PROVE  x - 1 \in A
  <2>1. AgreeBehind(P, P, n, x)
    BY <1>12 DEF ParsesBehind, Settled, AgreeBehind, AgreeAt
  <2>2. "term" \in PolicyRules /\ "and" \in PolicyRules /\ "or" \in PolicyRules
        /\ (\A r \in PolicyRules : r = "term" \/ r = "and" \/ r = "or")
        /\ Policy!Operand("or") = "and" /\ Policy!Operand("and") = "term"
    BY OperandRules DEF PolicyRules
  <2>3. Settled(P, toks, n, "term", x)
    <3>1. Advances(AtSpot(P, toks, "term", x), x, n)
      BY <2>1, SameTerm
    <3>2. QED
      BY <1>10, <2>2, <3>1 DEF Settled
  <2>4. Settled(P, toks, n, "and", x)
    <3>1. AgreeAt(P, P, n, Policy!Operand("and"), x)
      BY <2>2, <2>3 DEF AgreeAt, Settled
    <3>2. Advances(AtSpot(P, toks, "and", x), x, n)
      BY <2>1, <3>1, SameChain
    <3>3. QED
      BY <1>10, <2>2, <3>2 DEF Settled
  <2>5. Settled(P, toks, n, "or", x)
    <3>1. AgreeAt(P, P, n, Policy!Operand("or"), x)
      BY <2>2, <2>4 DEF AgreeAt, Settled
    <3>2. Advances(AtSpot(P, toks, "or", x), x, n)
      BY <2>1, <3>1, SameChain
    <3>3. QED
      BY <1>10, <2>2, <3>2 DEF Settled
  <2>6. \A y \in 1 .. n + 2 : y > x - 1 => y > x \/ y = x
    OBVIOUS
  <2>7. ASSUME NEW r \in PolicyRules, NEW y \in 1 .. n + 2, y > x - 1
        PROVE  Settled(P, toks, n, r, y)
    <3>1. CASE y = x
      BY <2>2, <2>3, <2>4, <2>5, <3>1
    <3>2. CASE y > x
      BY <1>12, <3>2 DEF ParsesBehind
    <3>3. QED
      BY <2>6, <2>7, <3>1, <3>2
  <2>8. x - 1 \in Nat /\ ParsesBehind(P, toks, n, x - 1)
    BY <2>7 DEF ParsesBehind
  <2>9. QED
    BY <2>8
<1>13. 0 \in A
  <2> HIDE DEF A
  <2>1. n + 2 \in Nat /\ 0 \in 0 .. n + 2
    OBVIOUS
  <2>2. QED
    BY <1>11, <1>12, <2>1, CountedDown
<1>14. ParsesBehind(P, toks, n, 0)
  BY <1>13
<1>15. \A r \in PolicyRules : \A x \in 1 .. n + 2 : Settled(P, toks, n, r, x)
  <2>1. \A x \in 1 .. n + 2 : x > 0
    OBVIOUS
  <2>2. QED
    BY <1>14, <2>1 DEF ParsesBehind
<1>16. QED
  BY <1>15 DEF P

--------------------------------
(* The grammar *)

(* What the spans of a policy may stand for. *)
MeansOf(toks) ==
    LET means[k \in {"or", "and", "term"} \X (0 .. Len(toks)) \X (0 .. Len(toks) + 1)] ==
            LET i == k[2]  j == k[3]
                joins(rule, operator, operand) ==
                    means[<<operand, i, j>>]
                      \cup {Policy!Joined(rule, v[1], v[2]) : v \in
                            UNION {means[<<rule, i, m - 1>>] \X means[<<operand, m + 1, j>>] :
                                    m \in {n \in i + 1 .. j - 1 : toks[n] = operator}}}
            IN  IF i = 0 \/ i > j \/ j > Len(toks) THEN {}
                ELSE IF k[1] = "or" THEN joins("or", Or, "and")
                ELSE IF k[1] = "and" THEN joins("and", And, "term")
                ELSE IF i = j THEN {toks[i] = True : b \in {t \in {toks[i]} : t \in {True, False}}}
                ELSE IF toks[i] = Open /\ toks[j] = Close THEN means[<<"or", i + 1, j - 1>>]
                ELSE {}
    IN  means

(* Operands of a rule with its operator between them, the last one apart. *)
Chains(g, toks, rule, i, j) ==
    g[<<Policy!Operand(rule), i, j>>]
      \cup {Policy!Joined(rule, v[1], v[2]) : v \in
            UNION {g[<<rule, i, m - 1>>] \X g[<<Policy!Operand(rule), m + 1, j>>] :
                    m \in {n \in i + 1 .. j - 1 : toks[n] = Policy!Operator(rule)}}}

Terms(g, toks, i, j) ==
    IF i = j THEN {toks[i] = True : b \in {t \in {toks[i]} : t \in {True, False}}}
    ELSE IF toks[i] = Open /\ toks[j] = Close THEN g[<<"or", i + 1, j - 1>>]
    ELSE {}

OfSpan(g, toks, rule, i, j) ==
    IF i = 0 \/ i > j \/ j > Len(toks) THEN {}
    ELSE IF rule = "term" THEN Terms(g, toks, i, j) ELSE Chains(g, toks, rule, i, j)

(* v joins a last operand to the chain before it. *)
LastApart(g, toks, rule, i, j, v) ==
    \E m \in i + 1 .. j - 1 :
        /\ toks[m] = Policy!Operator(rule)
        /\ \E a \in g[<<rule, i, m - 1>>], b \in g[<<Policy!Operand(rule), m + 1, j>>] :
              v = Policy!Joined(rule, a, b)

LEMMA InChains ==
  ASSUME NEW g, NEW toks, NEW rule, NEW i \in Nat, NEW j \in Nat, NEW v
  PROVE  v \in Chains(g, toks, rule, i, j) <=>
            \/ v \in g[<<Policy!Operand(rule), i, j>>]
            \/ LastApart(g, toks, rule, i, j, v)
<1> DEFINE Pairs(m) == g[<<rule, i, m - 1>>] \X g[<<Policy!Operand(rule), m + 1, j>>]
           Middles == {n \in i + 1 .. j - 1 : toks[n] = Policy!Operator(rule)}
           Both == UNION {Pairs(m) : m \in Middles}
<1>1. Chains(g, toks, rule, i, j) =
         g[<<Policy!Operand(rule), i, j>>] \cup {Policy!Joined(rule, w[1], w[2]) : w \in Both}
  BY DEF Chains
<1>2. \A w : w \in Both <=> \E m \in Middles : w \in Pairs(m)
  BY Zenon
<1>3. \A m, w : w \in Pairs(m) <=>
         \E a \in g[<<rule, i, m - 1>>], b \in g[<<Policy!Operand(rule), m + 1, j>>] : w = <<a, b>>
  OBVIOUS
<1>4. \A m : m \in Middles <=> m \in i + 1 .. j - 1 /\ toks[m] = Policy!Operator(rule)
  OBVIOUS
<1> HIDE DEF Pairs, Middles, Both
<1>5. v \in Chains(g, toks, rule, i, j) <=>
         v \in g[<<Policy!Operand(rule), i, j>>] \/ \E w \in Both : v = Policy!Joined(rule, w[1], w[2])
  BY <1>1
<1>6. ASSUME NEW w \in Both, v = Policy!Joined(rule, w[1], w[2])
      PROVE  LastApart(g, toks, rule, i, j, v)
  <2>1. PICK m \in Middles : w \in Pairs(m)
    BY <1>2, <1>6
  <2>2. PICK a \in g[<<rule, i, m - 1>>], b \in g[<<Policy!Operand(rule), m + 1, j>>] : w = <<a, b>>
    BY <1>3, <2>1
  <2>3. w[1] = a /\ w[2] = b
    BY <2>2
  <2>4. v = Policy!Joined(rule, a, b)
    BY <1>6, <2>3
  <2>5. QED
    BY <1>4, <2>1, <2>2, <2>4 DEF LastApart
<1>7. ASSUME NEW m \in i + 1 .. j - 1, toks[m] = Policy!Operator(rule),
             NEW a \in g[<<rule, i, m - 1>>], NEW b \in g[<<Policy!Operand(rule), m + 1, j>>],
             v = Policy!Joined(rule, a, b)
      PROVE  \E w \in Both : v = Policy!Joined(rule, w[1], w[2])
  <2>1. <<a, b>> \in Pairs(m) /\ m \in Middles
    BY <1>3, <1>4, <1>7
  <2>2. <<a, b>> \in Both /\ <<a, b>>[1] = a /\ <<a, b>>[2] = b
    BY <1>2, <2>1
  <2>3. QED
    BY <1>7, <2>2
<1>8. LastApart(g, toks, rule, i, j, v) => \E w \in Both : v = Policy!Joined(rule, w[1], w[2])
  BY <1>7 DEF LastApart
<1>9. QED
  BY <1>5, <1>6, <1>8

(* The meanings of a span depend on those of shorter ones and of the rules
   below. *)
AgreeShorter(g, h, n, i, j) ==
    \A r \in PolicyRules : \A x \in 0 .. n : \A y \in 0 .. n + 1 :
        y + i < j + x => g[<<r, x, y>>] = h[<<r, x, y>>]

LEMMA SameTermSpan ==
  ASSUME NEW toks, NEW n \in Nat, n = Len(toks), NEW g, NEW h,
         NEW i \in 0 .. n, NEW j \in 0 .. n + 1, AgreeShorter(g, h, n, i, j)
  PROVE  OfSpan(g, toks, "term", i, j) = OfSpan(h, toks, "term", i, j)
<1>1. CASE i = 0 \/ i > j \/ j > n
  BY <1>1 DEF OfSpan
<1>2. CASE ~(i = 0 \/ i > j \/ j > n)
  <2>1. OfSpan(g, toks, "term", i, j) = Terms(g, toks, i, j) /\ OfSpan(h, toks, "term", i, j) = Terms(h, toks, i, j)
    BY <1>2 DEF OfSpan
  <2>2. CASE i = j
    BY <2>1, <2>2 DEF Terms
  <2>3. CASE i # j
    <3>1. "or" \in PolicyRules /\ i + 1 \in 0 .. n /\ j - 1 \in 0 .. n + 1 /\ j - 1 + i < j + (i + 1)
      BY <1>2, <2>3 DEF PolicyRules
    <3>2. g[<<"or", i + 1, j - 1>>] = h[<<"or", i + 1, j - 1>>]
      BY <3>1 DEF AgreeShorter
    <3>3. /\ Terms(g, toks, i, j) =
                IF toks[i] = Open /\ toks[j] = Close THEN g[<<"or", i + 1, j - 1>>] ELSE {}
          /\ Terms(h, toks, i, j) =
                IF toks[i] = Open /\ toks[j] = Close THEN h[<<"or", i + 1, j - 1>>] ELSE {}
      BY <2>3, Zenon DEF Terms
    <3>4. QED
      BY <2>1, <3>2, <3>3, Zenon
  <2>4. QED
    BY <2>2, <2>3
<1>3. QED
  BY <1>1, <1>2

LEMMA SameChainSpan ==
  ASSUME NEW toks, NEW n \in Nat, n = Len(toks), NEW g, NEW h, NEW rule \in {"or", "and"},
         NEW i \in 0 .. n, NEW j \in 0 .. n + 1, AgreeShorter(g, h, n, i, j),
         g[<<Policy!Operand(rule), i, j>>] = h[<<Policy!Operand(rule), i, j>>]
  PROVE  OfSpan(g, toks, rule, i, j) = OfSpan(h, toks, rule, i, j)
<1>1. CASE i = 0 \/ i > j \/ j > n
  BY <1>1 DEF OfSpan
<1>2. CASE ~(i = 0 \/ i > j \/ j > n)
  <2>1. /\ OfSpan(g, toks, rule, i, j) = Chains(g, toks, rule, i, j)
        /\ OfSpan(h, toks, rule, i, j) = Chains(h, toks, rule, i, j)
    BY <1>2 DEF OfSpan
  <2>2. i \in Nat /\ j \in Nat /\ Policy!Operand(rule) \in PolicyRules /\ rule \in PolicyRules
    BY OperandRules
  <2>3. \A m \in i + 1 .. j - 1 : g[<<rule, i, m - 1>>] = h[<<rule, i, m - 1>>]
                               /\ g[<<Policy!Operand(rule), m + 1, j>>] = h[<<Policy!Operand(rule), m + 1, j>>]
    <3> SUFFICES ASSUME NEW m \in i + 1 .. j - 1
                 PROVE  /\ g[<<rule, i, m - 1>>] = h[<<rule, i, m - 1>>]
                        /\ g[<<Policy!Operand(rule), m + 1, j>>] = h[<<Policy!Operand(rule), m + 1, j>>]
      OBVIOUS
    <3>1. m - 1 \in 0 .. n + 1 /\ m - 1 + i < j + i /\ m + 1 \in 0 .. n /\ j + i < j + (m + 1)
      BY <1>2
    <3>2. QED
      BY <2>2, <3>1 DEF AgreeShorter
  <2>4. ASSUME NEW v
        PROVE  LastApart(g, toks, rule, i, j, v) <=> LastApart(h, toks, rule, i, j, v)
    BY <2>3, Zenon DEF LastApart
  <2>5. ASSUME NEW v
        PROVE  v \in Chains(g, toks, rule, i, j) <=> v \in Chains(h, toks, rule, i, j)
    <3>1. v \in Chains(g, toks, rule, i, j) <=>
            v \in g[<<Policy!Operand(rule), i, j>>] \/ LastApart(g, toks, rule, i, j, v)
      BY <2>2, InChains
    <3>2. v \in Chains(h, toks, rule, i, j) <=>
            v \in h[<<Policy!Operand(rule), i, j>>] \/ LastApart(h, toks, rule, i, j, v)
      BY <2>2, InChains
    <3>3. QED
      BY <2>4, <3>1, <3>2, Zenon
  <2>6. PICK C, D : C = Chains(g, toks, rule, i, j) /\ D = Chains(h, toks, rule, i, j)
    OBVIOUS
  <2>7. \A v : v \in C <=> v \in D
    BY <2>5, <2>6, Zenon
  <2>8. C = D
    BY <2>7
  <2>9. QED
    BY <2>1, <2>6, <2>8, Zenon
<1>3. QED
  BY <1>1, <1>2

(* g is what the spans shorter than s stand for. *)
MeansShort(g, toks, n, s) ==
    \A r \in PolicyRules, i \in 0 .. n, j \in 0 .. n + 1 :
        j < i + s => g[<<r, i, j>>] = OfSpan(g, toks, r, i, j)

SpansTable(g, n) == g = [k \in PolicyRules \X (0 .. n) \X (0 .. n + 1) |-> g[k]]

(* The parts of a triple. *)
LEMMA TripleAt ==
  ASSUME NEW A, NEW B, NEW C, NEW a \in A, NEW b \in B, NEW c \in C
  PROVE  /\ <<a, b, c>> \in A \X B \X C
         /\ <<a, b, c>>[1] = a /\ <<a, b, c>>[2] = b /\ <<a, b, c>>[3] = c
  OBVIOUS

(* The spans of one length more, rule by rule. *)
LEMMA MeansOneMore ==
  ASSUME NEW toks, NEW n \in Nat, n = Len(toks), NEW s \in Nat, NEW g, MeansShort(g, toks, n, s)
  PROVE  \E h : MeansShort(h, toks, n, s + 1) /\ SpansTable(h, n)
<1> DEFINE Keys == PolicyRules \X (0 .. n) \X (0 .. n + 1)
           With(f, r) == [k \in Keys |-> IF k[1] = r /\ k[3] = k[2] + s
                                         THEN OfSpan(f, toks, r, k[2], k[3]) ELSE f[k]]
           FilledAt(f, w, r) == \A o \in PolicyRules : \A i \in 0 .. n : \A j \in 0 .. n + 1 :
                w[<<o, i, j>>] =
                    IF o = r /\ j = i + s THEN OfSpan(f, toks, r, i, j) ELSE f[<<o, i, j>>]
<1>1. ASSUME NEW f, NEW r \in PolicyRules
      PROVE  FilledAt(f, With(f, r), r)
  <2>1. ASSUME NEW o \in PolicyRules, NEW i \in 0 .. n, NEW j \in 0 .. n + 1
        PROVE  With(f, r)[<<o, i, j>>] =
                 IF o = r /\ j = i + s THEN OfSpan(f, toks, r, i, j) ELSE f[<<o, i, j>>]
    <3> DEFINE k == <<o, i, j>>
    <3>1. k \in Keys /\ k[1] = o /\ k[2] = i /\ k[3] = j
      BY TripleAt, Zenon
    <3> HIDE DEF k
    <3>2. With(f, r)[k] = IF k[1] = r /\ k[3] = k[2] + s
                          THEN OfSpan(f, toks, r, k[2], k[3]) ELSE f[k]
      BY <3>1
    <3>3. QED
      BY <3>1, <3>2 DEF k
  <2> HIDE DEF With
  <2>2. QED
    BY <2>1, Zenon
<1> DEFINE ga == With(g, "term")
           gb == With(ga, "and")
           gc == With(gb, "or")
<1>2. gc = [k \in Keys |-> gc[k]]
  <2>1. PICK f : f = gb
    OBVIOUS
  <2>2. With(f, "or") = [k \in Keys |-> With(f, "or")[k]]
    OBVIOUS
  <2>3. QED
    BY <2>1, <2>2
<1> HIDE DEF With, FilledAt
<1>3. /\ "term" \in PolicyRules /\ "and" \in PolicyRules /\ "or" \in PolicyRules
      /\ \A r \in PolicyRules : r = "term" \/ r = "and" \/ r = "or"
      /\ Policy!Operand("and") = "term" /\ Policy!Operand("or") = "and"
  BY OperandRules DEF PolicyRules
<1>4. \A o \in PolicyRules : \A i \in 0 .. n : \A j \in 0 .. n + 1 :
         ga[<<o, i, j>>] = IF o = "term" /\ j = i + s THEN OfSpan(g, toks, "term", i, j) ELSE g[<<o, i, j>>]
  <2>1. FilledAt(g, ga, "term")
    BY <1>1, <1>3, Zenon
  <2>2. QED
    BY <2>1, Zenon DEF FilledAt
<1> HIDE DEF ga
<1>5. \A o \in PolicyRules : \A i \in 0 .. n : \A j \in 0 .. n + 1 :
         gb[<<o, i, j>>] = IF o = "and" /\ j = i + s THEN OfSpan(ga, toks, "and", i, j) ELSE ga[<<o, i, j>>]
  <2>1. FilledAt(ga, gb, "and")
    BY <1>1, <1>3, Zenon
  <2>2. QED
    BY <2>1, Zenon DEF FilledAt
<1> HIDE DEF gb
<1>6. \A o \in PolicyRules : \A i \in 0 .. n : \A j \in 0 .. n + 1 :
         gc[<<o, i, j>>] = IF o = "or" /\ j = i + s THEN OfSpan(gb, toks, "or", i, j) ELSE gb[<<o, i, j>>]
  <2>1. FilledAt(gb, gc, "or")
    BY <1>1, <1>3, Zenon
  <2>2. QED
    BY <2>1, Zenon DEF FilledAt
<1> HIDE DEF gc
<1>7. \A r \in PolicyRules : \A x \in 0 .. n : \A y \in 0 .. n + 1 :
         y < x + s => /\ ga[<<r, x, y>>] = g[<<r, x, y>>] /\ gb[<<r, x, y>>] = g[<<r, x, y>>]
                      /\ gc[<<r, x, y>>] = g[<<r, x, y>>]
  <2> SUFFICES ASSUME NEW r \in PolicyRules, NEW x \in 0 .. n, NEW y \in 0 .. n + 1, y < x + s
               PROVE  ga[<<r, x, y>>] = g[<<r, x, y>>] /\ gb[<<r, x, y>>] = g[<<r, x, y>>]
                      /\ gc[<<r, x, y>>] = g[<<r, x, y>>]
    OBVIOUS
  <2>1. y # x + s
    OBVIOUS
  <2>2. QED
    BY <2>1, <1>4, <1>5, <1>6
<1>8. ASSUME NEW i \in 0 .. n, NEW j \in 0 .. n + 1, j < i + (s + 1)
      PROVE  AgreeShorter(g, gc, n, i, j) /\ AgreeShorter(ga, gc, n, i, j) /\ AgreeShorter(gb, gc, n, i, j)
  <2>1. ASSUME NEW o \in PolicyRules, NEW x \in 0 .. n, NEW y \in 0 .. n + 1, y + i < j + x
        PROVE  /\ g[<<o, x, y>>] = gc[<<o, x, y>>] /\ ga[<<o, x, y>>] = gc[<<o, x, y>>]
               /\ gb[<<o, x, y>>] = gc[<<o, x, y>>]
    <3>1. y < x + s
      BY <1>8, <2>1
    <3>2. QED
      BY <3>1, <1>7
  <2>2. QED
    BY <2>1 DEF AgreeShorter
<1>9. ASSUME NEW r \in PolicyRules, NEW i \in 0 .. n, NEW j \in 0 .. n + 1, j < i + s
      PROVE  gc[<<r, i, j>>] = OfSpan(gc, toks, r, i, j)
  <2>1. j < i + (s + 1) /\ AgreeShorter(g, gc, n, i, j)
    BY <1>8, <1>9
  <2>2. OfSpan(g, toks, r, i, j) = OfSpan(gc, toks, r, i, j)
    <3>1. CASE r = "term"
      <4>1. OfSpan(g, toks, "term", i, j) = OfSpan(gc, toks, "term", i, j)
        BY <2>1, SameTermSpan
      <4>2. QED
        BY <3>1, <4>1
    <3>2. CASE r # "term"
      <4>1. r \in {"or", "and"} /\ Policy!Operand(r) \in PolicyRules
        BY <3>2, OperandRules DEF PolicyRules
      <4>2. g[<<Policy!Operand(r), i, j>>] = gc[<<Policy!Operand(r), i, j>>]
        BY <1>7, <1>9, <4>1
      <4>3. QED
        BY <2>1, <4>1, <4>2, SameChainSpan
    <3>3. QED
      BY <3>1, <3>2
  <2>3. g[<<r, i, j>>] = OfSpan(g, toks, r, i, j)
    BY <1>9 DEF MeansShort
  <2>4. gc[<<r, i, j>>] = g[<<r, i, j>>]
    BY <1>7, <1>9
  <2>5. QED
    BY <2>2, <2>3, <2>4, Zenon
<1>10. ASSUME NEW r \in PolicyRules, NEW i \in 0 .. n, NEW j \in 0 .. n + 1, j = i + s
       PROVE  gc[<<r, i, j>>] = OfSpan(gc, toks, r, i, j)
  <2>1. /\ j < i + (s + 1) /\ AgreeShorter(g, gc, n, i, j)
        /\ AgreeShorter(ga, gc, n, i, j) /\ AgreeShorter(gb, gc, n, i, j)
    BY <1>8, <1>10
  <2>2. "and" # "term" /\ "or" # "and" /\ "or" # "term" /\ "and" \in {"or", "and"} /\ "or" \in {"or", "and"}
    OBVIOUS
  <2>3. ga[<<"term", i, j>>] = OfSpan(g, toks, "term", i, j) /\ gc[<<"term", i, j>>] = ga[<<"term", i, j>>]
    BY <1>3, <1>4, <1>5, <1>6, <1>10, <2>2
  <2>4. gb[<<"and", i, j>>] = OfSpan(ga, toks, "and", i, j) /\ gc[<<"and", i, j>>] = gb[<<"and", i, j>>]
    BY <1>3, <1>5, <1>6, <1>10, <2>2
  <2>5. gc[<<"or", i, j>>] = OfSpan(gb, toks, "or", i, j)
    BY <1>3, <1>6, <1>10
  <2>6. OfSpan(g, toks, "term", i, j) = OfSpan(gc, toks, "term", i, j)
    BY <2>1, SameTermSpan
  <2>7. OfSpan(ga, toks, "and", i, j) = OfSpan(gc, toks, "and", i, j)
    <3>1. ga[<<Policy!Operand("and"), i, j>>] = gc[<<Policy!Operand("and"), i, j>>]
      BY <1>3, <2>3
    <3>2. QED
      BY <2>1, <2>2, <3>1, SameChainSpan
  <2>8. OfSpan(gb, toks, "or", i, j) = OfSpan(gc, toks, "or", i, j)
    <3>1. gb[<<Policy!Operand("or"), i, j>>] = gc[<<Policy!Operand("or"), i, j>>]
      BY <1>3, <2>4
    <3>2. QED
      BY <2>1, <2>2, <3>1, SameChainSpan
  <2>9. QED
    BY <1>3, <2>3, <2>4, <2>5, <2>6, <2>7, <2>8
<1>11. \A i \in 0 .. n : \A j \in 0 .. n + 1 : j < i + (s + 1) => j < i + s \/ j = i + s
  OBVIOUS
<1>12. MeansShort(gc, toks, n, s + 1)
  <2> SUFFICES ASSUME NEW r \in PolicyRules, NEW i \in 0 .. n, NEW j \in 0 .. n + 1, j < i + (s + 1)
               PROVE  gc[<<r, i, j>>] = OfSpan(gc, toks, r, i, j)
    BY Zenon DEF MeansShort
  <2>1. j < i + s \/ j = i + s
    BY <1>11
  <2>2. QED
    BY <1>9, <1>10, <2>1
<1>13. SpansTable(gc, n)
  BY <1>2 DEF SpansTable
<1>14. QED
  BY <1>12, <1>13

(* The grammar is what its definition says. *)
IsGrammar(M, toks, n) ==
    \A r \in PolicyRules, i \in 0 .. n, j \in 0 .. n + 1 :
        M[<<r, i, j>>] = OfSpan(M, toks, r, i, j)

LEMMA MeansDefined ==
  ASSUME NEW toks, NEW n \in Nat, n = Len(toks)
  PROVE  IsGrammar(MeansOf(toks), toks, n)
<1> DEFINE Keys == PolicyRules \X (0 .. n) \X (0 .. n + 1)
           Equation(g) == g = [k \in Keys |-> OfSpan(g, toks, k[1], k[2], k[3])]
           Q == {s \in Nat : \E g : MeansShort(g, toks, n, s) /\ SpansTable(g, n)}
<1>1. 0 \in Q
  <2>1. PICK g : g = [k \in Keys |-> {}]
    OBVIOUS
  <2>2. ASSUME NEW r \in PolicyRules, NEW i \in 0 .. n, NEW j \in 0 .. n + 1, j < i + 0
        PROVE  g[<<r, i, j>>] = OfSpan(g, toks, r, i, j)
    <3>1. g[<<r, i, j>>] = {}
      BY <2>1
    <3>2. OfSpan(g, toks, r, i, j) = {}
      BY <2>2 DEF OfSpan
    <3>3. QED
      BY <3>1, <3>2
  <2>3. MeansShort(g, toks, n, 0)
    BY <2>2 DEF MeansShort
  <2>4. SpansTable(g, n)
    BY <2>1 DEF SpansTable
  <2>5. QED
    BY <2>3, <2>4
<1>2. ASSUME NEW s \in Nat, s \in Q
      PROVE  s + 1 \in Q
  <2>1. PICK g : MeansShort(g, toks, n, s)
    BY <1>2
  <2>2. PICK h : MeansShort(h, toks, n, s + 1) /\ SpansTable(h, n)
    BY <2>1, MeansOneMore
  <2>3. QED
    BY <2>2
<1>3. n + 2 \in Q
  <2> HIDE DEF Q
  <2>1. QED
    BY <1>1, <1>2, SetInduction
<1>4. PICK g : MeansShort(g, toks, n, n + 2) /\ g = [k \in Keys |-> g[k]]
  BY <1>3 DEF SpansTable
<1>5. Equation(g)
  <2>1. ASSUME NEW k \in Keys
        PROVE  g[k] = OfSpan(g, toks, k[1], k[2], k[3])
    <3>1. PICK r \in PolicyRules, i \in 0 .. n, j \in 0 .. n + 1 : k = <<r, i, j>>
      OBVIOUS
    <3>2. k[1] = r /\ k[2] = i /\ k[3] = j /\ j < i + (n + 2)
      BY <3>1
    <3>3. g[<<r, i, j>>] = OfSpan(g, toks, r, i, j)
      BY <1>4, <3>2 DEF MeansShort
    <3>4. QED
      BY <3>1, <3>2, <3>3
  <2>2. [k \in Keys |-> g[k]] = [k \in Keys |-> OfSpan(g, toks, k[1], k[2], k[3])]
    BY <2>1
  <2>3. QED
    BY <1>4, <2>2
<1>6. \E f : Equation(f)
  BY <1>5
<1>7. MeansOf(toks) = CHOOSE f : Equation(f)
  <2> DEFINE Body(f, k) ==
        LET i == k[2]  j == k[3]
            joins(rule, operator, operand) ==
                f[<<operand, i, j>>]
                  \cup {Policy!Joined(rule, v[1], v[2]) : v \in
                        UNION {f[<<rule, i, m - 1>>] \X f[<<operand, m + 1, j>>] :
                                m \in {o \in i + 1 .. j - 1 : toks[o] = operator}}}
        IN  IF i = 0 \/ i > j \/ j > Len(toks) THEN {}
            ELSE IF k[1] = "or" THEN joins("or", Or, "and")
            ELSE IF k[1] = "and" THEN joins("and", And, "term")
            ELSE IF i = j THEN {toks[i] = True : b \in {t \in {toks[i]} : t \in {True, False}}}
            ELSE IF toks[i] = Open /\ toks[j] = Close THEN f[<<"or", i + 1, j - 1>>]
            ELSE {}
  <2>1. MeansOf(toks) = CHOOSE f : f = [k \in Keys |-> Body(f, k)]
    BY Zenon DEF MeansOf, PolicyRules
  <2>2. ASSUME NEW f, NEW k \in Keys
        PROVE  Body(f, k) = OfSpan(f, toks, k[1], k[2], k[3])
    <3>1. k[1] = "or" \/ k[1] = "and" \/ k[1] = "term"
      BY DEF PolicyRules
    <3>2. CASE k[1] = "or"
      <4>1. Policy!Operand("or") = "and" /\ Policy!Operator("or") = Or
        BY DEF Policy!Operand, Policy!Operator
      <4>2. QED
        BY <3>2, <4>1, Zenon DEF OfSpan, Chains
    <3>3. CASE k[1] = "and"
      <4>1. Policy!Operand("and") = "term" /\ Policy!Operator("and") = And /\ "and" # "or" /\ "and" # "term"
        BY DEF Policy!Operand, Policy!Operator
      <4>2. QED
        BY <3>3, <4>1, Zenon DEF OfSpan, Chains
    <3>4. CASE k[1] = "term"
      <4>1. "term" # "or" /\ "term" # "and"
        OBVIOUS
      <4>2. QED
        BY <3>4, <4>1, Zenon DEF OfSpan, Terms
    <3>5. QED
      BY <3>1, <3>2, <3>3, <3>4
  <2> HIDE DEF Body
  <2>3. \A f : [k \in Keys |-> Body(f, k)] = [k \in Keys |-> OfSpan(f, toks, k[1], k[2], k[3])]
    BY <2>2
  <2>4. \A f : f = [k \in Keys |-> Body(f, k)] <=> Equation(f)
    BY <2>3
  <2> HIDE DEF Equation
  <2>5. QED
    BY <2>1, <2>4
<1> DEFINE M == MeansOf(toks)
<1>8. Equation(M)
  <2> HIDE DEF Equation
  <2>1. QED
    BY <1>6, <1>7
<1> HIDE DEF M
<1>9. ASSUME NEW r \in PolicyRules, NEW i \in 0 .. n, NEW j \in 0 .. n + 1
      PROVE  M[<<r, i, j>>] = OfSpan(M, toks, r, i, j)
  <2> DEFINE k == <<r, i, j>>
  <2>1. k \in Keys /\ k[1] = r /\ k[2] = i /\ k[3] = j
    BY TripleAt, Zenon
  <2> HIDE DEF k
  <2>2. M[k] = OfSpan(M, toks, k[1], k[2], k[3])
    BY <1>8, <2>1
  <2>3. M[k] = OfSpan(M, toks, r, i, j)
    BY <2>1, <2>2, Zenon
  <2>4. QED
    BY <2>3, Zenon DEF k
<1>10. IsGrammar(M, toks, n)
  BY <1>9, Zenon DEF IsGrammar
<1>11. QED
  BY <1>10 DEF M

IsParser(P, toks, n) ==
    \A r \in PolicyRules : \A x \in 1 .. n + 2 : Settled(P, toks, n, r, x)

LEMMA SpanOfChain ==
  ASSUME NEW toks, NEW n \in Nat, n = Len(toks), NEW M, IsGrammar(M, toks, n),
         NEW rule \in {"or", "and"}, NEW i \in 1 .. n, NEW j \in i .. n, NEW v
  PROVE  v \in M[<<rule, i, j>>] <=>
            \/ v \in M[<<Policy!Operand(rule), i, j>>]
            \/ LastApart(M, toks, rule, i, j, v)
<1>1. rule \in PolicyRules /\ rule # "term" /\ i \in 0 .. n /\ j \in 0 .. n + 1
      /\ i \in Nat /\ j \in Nat /\ ~(i = 0 \/ i > j \/ j > n)
  BY DEF PolicyRules
<1>2. M[<<rule, i, j>>] = Chains(M, toks, rule, i, j)
  BY <1>1 DEF IsGrammar, OfSpan
<1>3. v \in Chains(M, toks, rule, i, j) <=>
            \/ v \in M[<<Policy!Operand(rule), i, j>>]
            \/ LastApart(M, toks, rule, i, j, v)
  BY <1>1, InChains
<1>4. QED
  BY <1>2, <1>3, Zenon

LEMMA ChainGrows ==
  ASSUME NEW toks, NEW n \in Nat, n = Len(toks), NEW M, IsGrammar(M, toks, n),
         NEW rule \in {"or", "and"}, NEW i \in 1 .. n, NEW j \in i .. n, NEW v,
         LastApart(M, toks, rule, i, j, v)
  PROVE  v \in M[<<rule, i, j>>]
  BY SpanOfChain

LEMMA SpanOfTerm ==
  ASSUME NEW toks, NEW n \in Nat, n = Len(toks), NEW M, IsGrammar(M, toks, n),
         NEW i \in 1 .. n, NEW j \in i .. n, NEW v
  PROVE  v \in M[<<"term", i, j>>] <=>
            \/ i = j /\ toks[i] \in {True, False} /\ v = (toks[i] = True)
            \/ i < j /\ toks[i] = Open /\ toks[j] = Close /\ v \in M[<<"or", i + 1, j - 1>>]
<1>1. "term" \in PolicyRules /\ i \in 0 .. n /\ j \in 0 .. n + 1 /\ ~(i = 0 \/ i > j \/ j > n)
  BY DEF PolicyRules
<1>2. M[<<"term", i, j>>] = Terms(M, toks, i, j)
  BY <1>1 DEF IsGrammar, OfSpan
<1>3. CASE i = j
  <2>1. Terms(M, toks, i, j) = {toks[i] = True : b \in {t \in {toks[i]} : t \in {True, False}}}
    BY <1>3 DEF Terms
  <2>2. v \in {toks[i] = True : b \in {t \in {toks[i]} : t \in {True, False}}}
           <=> toks[i] \in {True, False} /\ v = (toks[i] = True)
    <3> DEFINE worth == (toks[i] = True)
               S == {t \in {toks[i]} : t \in {True, False}}
    <3>1. v \in {worth : b \in S} <=> (\E b \in S : v = worth)
      BY Zenon
    <3>2. (\E b \in S : TRUE) <=> toks[i] \in {True, False}
      OBVIOUS
    <3> HIDE DEF worth, S
    <3>3. v \in {worth : b \in S} <=> toks[i] \in {True, False} /\ v = worth
      BY <3>1, <3>2
    <3>4. QED
      BY <3>3 DEF worth, S
  <2>3. QED
    BY <1>2, <1>3, <2>1, <2>2
<1>4. CASE i # j
  <2>1. i < j
    BY <1>4
  <2>2. QED
    BY <1>2, <1>4, <2>1 DEF Terms
<1>5. QED
  BY <1>3, <1>4

LEMMA NoSpan ==
  ASSUME NEW toks, NEW n \in Nat, n = Len(toks), NEW M, IsGrammar(M, toks, n),
         NEW r \in PolicyRules, NEW i \in 0 .. n, NEW j \in 0 .. n + 1, i = 0 \/ i > j \/ j > n
  PROVE  M[<<r, i, j>>] = {}
  BY DEF IsGrammar, OfSpan

LEMMA JoinedTwice ==
  ASSUME NEW rule, NEW a, NEW b, NEW c
  PROVE  Policy!Joined(rule, a, Policy!Joined(rule, b, c)) = Policy!Joined(rule, Policy!Joined(rule, a, b), c)
<1>1. (a \/ (b \/ c)) = ((a \/ b) \/ c) /\ (a /\ (b /\ c)) = ((a /\ b) /\ c)
  OBVIOUS
<1>2. QED
  BY <1>1 DEF Policy!Joined

(* An operand before a chain makes a chain. *)
LEMMA FirstOperand ==
  ASSUME NEW toks, NEW n \in Nat, n = Len(toks), NEW M, IsGrammar(M, toks, n),
         NEW rule \in {"or", "and"}, NEW i \in 1 .. n, NEW m \in i + 1 .. n,
         toks[m] = Policy!Operator(rule), NEW a \in M[<<Policy!Operand(rule), i, m - 1>>]
  PROVE  \A j \in m + 1 .. n : \A b \in M[<<rule, m + 1, j>>] : Policy!Joined(rule, a, b) \in M[<<rule, i, j>>]
<1> DEFINE Q == {d \in Nat : \A j \in m + 1 .. n : j <= m + d =>
                    \A b \in M[<<rule, m + 1, j>>] : Policy!Joined(rule, a, b) \in M[<<rule, i, j>>]}
<1>1. 0 \in Q
  OBVIOUS
<1>2. ASSUME NEW d \in Nat, d \in Q
      PROVE  d + 1 \in Q
  <2> SUFFICES ASSUME NEW j \in m + 1 .. n, j <= m + (d + 1), NEW b \in M[<<rule, m + 1, j>>]
               PROVE  Policy!Joined(rule, a, b) \in M[<<rule, i, j>>]
    OBVIOUS
  <2>1. m + 1 \in 1 .. n /\ j \in (m + 1) .. n /\ j \in i .. n /\ m - 1 \in i .. n /\ m \in i + 1 .. j - 1
        /\ j \in Nat /\ m \in Nat
    OBVIOUS
  <2>2. a \in M[<<rule, i, m - 1>>]
    BY <2>1, SpanOfChain
  <2>3. CASE b \in M[<<Policy!Operand(rule), m + 1, j>>]
    <3>1. LastApart(M, toks, rule, i, j, Policy!Joined(rule, a, b))
      BY <2>1, <2>2, <2>3 DEF LastApart
    <3>2. QED
      BY <2>1, <3>1, ChainGrows, Zenon
  <2>4. CASE b \notin M[<<Policy!Operand(rule), m + 1, j>>]
    <3>0. LastApart(M, toks, rule, m + 1, j, b)
      BY <2>1, <2>4, SpanOfChain
    <3>1. PICK k \in (m + 1) + 1 .. j - 1 :
             /\ toks[k] = Policy!Operator(rule)
             /\ \E x \in M[<<rule, m + 1, k - 1>>], y \in M[<<Policy!Operand(rule), k + 1, j>>] :
                   b = Policy!Joined(rule, x, y)
      BY <3>0 DEF LastApart
    <3>2. PICK x \in M[<<rule, m + 1, k - 1>>], y \in M[<<Policy!Operand(rule), k + 1, j>>] :
             b = Policy!Joined(rule, x, y)
      BY <3>1
    <3>3. k - 1 \in m + 1 .. n /\ k - 1 <= m + d /\ k \in i + 1 .. j - 1
      BY <2>1
    <3>4. Policy!Joined(rule, a, x) \in M[<<rule, i, k - 1>>]
      BY <1>2, <3>3
    <3>5. Policy!Joined(rule, a, b) = Policy!Joined(rule, Policy!Joined(rule, a, x), y)
      BY <3>2, JoinedTwice
    <3>6. LastApart(M, toks, rule, i, j, Policy!Joined(rule, a, b))
      BY <3>1, <3>2, <3>3, <3>4, <3>5 DEF LastApart
    <3>7. QED
      BY <2>1, <3>6, ChainGrows, Zenon
  <2>5. QED
    BY <2>3, <2>4
<1>3. n \in Q
  <2> HIDE DEF Q
  <2>1. QED
    BY <1>1, <1>2, SetInduction
<1>4. QED
  BY <1>3

(* A chain is one operand, or begins with one. *)
FirstApart(M, toks, rule, i, j, v) ==
    \E m \in i + 1 .. j - 1 :
        /\ toks[m] = Policy!Operator(rule)
        /\ \E a \in M[<<Policy!Operand(rule), i, m - 1>>], b \in M[<<rule, m + 1, j>>] :
              v = Policy!Joined(rule, a, b)

LEMMA ChainBegins ==
  ASSUME NEW toks, NEW n \in Nat, n = Len(toks), NEW M, IsGrammar(M, toks, n),
         NEW rule \in {"or", "and"}, NEW i \in 1 .. n
  PROVE  \A j \in i .. n : \A v \in M[<<rule, i, j>>] :
            v \in M[<<Policy!Operand(rule), i, j>>] \/ FirstApart(M, toks, rule, i, j, v)
<1> DEFINE Begins(j) == \A v \in M[<<rule, i, j>>] :
               v \in M[<<Policy!Operand(rule), i, j>>] \/ FirstApart(M, toks, rule, i, j, v)
           Q == {d \in Nat : \A j \in i .. n : j <= d => Begins(j)}
<1>1. 0 \in Q
  OBVIOUS
<1>2. ASSUME NEW d \in Nat, \A j \in i .. n : j <= d => Begins(j)
      PROVE  \A j \in i .. n : j <= d + 1 => Begins(j)
  <2> SUFFICES ASSUME NEW j \in i .. n, j <= d + 1
               PROVE  Begins(j)
    BY Zenon
  <2> SUFFICES ASSUME NEW v \in M[<<rule, i, j>>], v \notin M[<<Policy!Operand(rule), i, j>>]
               PROVE  FirstApart(M, toks, rule, i, j, v)
    BY Zenon
  <2>0. LastApart(M, toks, rule, i, j, v)
    BY SpanOfChain
  <2>1. PICK k \in i + 1 .. j - 1 :
           /\ toks[k] = Policy!Operator(rule)
           /\ \E x \in M[<<rule, i, k - 1>>], y \in M[<<Policy!Operand(rule), k + 1, j>>] :
                 v = Policy!Joined(rule, x, y)
    BY <2>0 DEF LastApart
  <2>2. PICK x \in M[<<rule, i, k - 1>>], y \in M[<<Policy!Operand(rule), k + 1, j>>] : v = Policy!Joined(rule, x, y)
    BY <2>1
  <2>3. k - 1 \in i .. n /\ k - 1 <= d /\ k + 1 \in 1 .. n /\ j \in k + 1 .. n /\ k \in Nat
    OBVIOUS
  <2>4. Begins(k - 1)
    BY <1>2, <2>3
  <2>5. CASE x \in M[<<Policy!Operand(rule), i, k - 1>>]
    <3>1. y \in M[<<rule, k + 1, j>>]
      BY <2>3, SpanOfChain
    <3>2. QED
      BY <2>1, <2>2, <2>5, <3>1 DEF FirstApart
  <2>6. CASE x \notin M[<<Policy!Operand(rule), i, k - 1>>]
    <3>0. FirstApart(M, toks, rule, i, k - 1, x)
      BY <2>4, <2>6
    <3>1. PICK m \in i + 1 .. (k - 1) - 1 :
             /\ toks[m] = Policy!Operator(rule)
             /\ \E a \in M[<<Policy!Operand(rule), i, m - 1>>], b \in M[<<rule, m + 1, k - 1>>] :
                   x = Policy!Joined(rule, a, b)
      BY <3>0 DEF FirstApart
    <3>2. PICK a \in M[<<Policy!Operand(rule), i, m - 1>>], b \in M[<<rule, m + 1, k - 1>>] :
             x = Policy!Joined(rule, a, b)
      BY <3>1
    <3>3. m + 1 \in 1 .. n /\ j \in m + 1 .. n /\ k \in (m + 1) + 1 .. j - 1 /\ m \in i + 1 .. j - 1
      BY <2>3
    <3>4. LastApart(M, toks, rule, m + 1, j, Policy!Joined(rule, b, y))
      BY <2>1, <3>3 DEF LastApart
    <3>5. Policy!Joined(rule, b, y) \in M[<<rule, m + 1, j>>]
      BY <3>3, <3>4, ChainGrows, Zenon
    <3>6. v = Policy!Joined(rule, a, Policy!Joined(rule, b, y))
      BY <2>2, <3>2, JoinedTwice
    <3>7. QED
      BY <3>1, <3>3, <3>5, <3>6 DEF FirstApart
  <2>7. QED
    BY <2>5, <2>6
<1> HIDE DEF Begins
<1>3. \A d \in Nat : d \in Q => d + 1 \in Q
  BY <1>2
<1>4. n \in Q
  <2> HIDE DEF Q
  <2>1. QED
    BY <1>1, <1>3, SetInduction
<1>5. QED
  BY <1>4 DEF Begins

--------------------------------
(* The parser finds what the grammar derives *)

(* No operator follows that would continue what the rule has read. *)
Free(toks, rule, j) ==
    /\ rule # "term" => ~Policy!Peeks(toks, j + 1, And)
    /\ rule = "or" => ~Policy!Peeks(toks, j + 1, Or)

(* From a position the parser reads exactly the spans of the grammar that
   no operator continues. *)
Reads(P, M, toks, n, rule, x) ==
    \A j \in 0 .. n : \A v :
        P[<<rule, x>>].ok /\ P[<<rule, x>>].pos = j + 1 /\ P[<<rule, x>>].value = v
            <=> x <= j /\ v \in M[<<rule, x, j>>] /\ Free(toks, rule, j)

LEMMA ReadsTerm ==
  ASSUME NEW toks, NEW n \in Nat, n = Len(toks), Policy!TokensDiffer,
         NEW M, IsGrammar(M, toks, n), NEW P, IsParser(P, toks, n),
         NEW x \in 1 .. n, x < n => Reads(P, M, toks, n, "or", x + 1)
  PROVE  Reads(P, M, toks, n, "term", x)
<1> SUFFICES ASSUME NEW j \in 0 .. n, NEW v
             PROVE  P[<<"term", x>>].ok /\ P[<<"term", x>>].pos = j + 1 /\ P[<<"term", x>>].value = v
                       <=> x <= j /\ v \in M[<<"term", x, j>>]
  BY DEF Reads, Free
<1>1. "term" \in PolicyRules /\ "or" \in PolicyRules /\ x \in 1 .. n + 2 /\ x + 1 \in 1 .. n + 2
      /\ x \in Nat /\ j \in Nat /\ ~(x > n)
  BY DEF PolicyRules
<1>2. P[<<"term", x>>] = Policy!ParseTerm(P, toks, x) /\ Advances(P[<<"term", x>>], x, n)
  BY <1>1 DEF IsParser, Settled, AtSpot
<1>3. x <= j => (v \in M[<<"term", x, j>>] <=>
            \/ x = j /\ toks[x] \in {True, False} /\ v = (toks[x] = True)
            \/ x < j /\ toks[x] = Open /\ toks[j] = Close /\ v \in M[<<"or", x + 1, j - 1>>])
  <2>1. x <= j => j \in x .. n
    OBVIOUS
  <2>2. QED
    BY <2>1, SpanOfTerm
<1>4. CASE toks[x] = Open
  <2>1. toks[x] \notin {True, False}
    BY <1>4 DEF Policy!TokensDiffer
  <2>2. x <= j /\ v \in M[<<"term", x, j>>] <=>
           x < j /\ toks[j] = Close /\ v \in M[<<"or", x + 1, j - 1>>]
    BY <1>1, <1>3, <1>4, <2>1
  <2> DEFINE inner == P[<<"or", x + 1>>]
  <2>3. Advances(inner, x + 1, n)
    BY <1>1 DEF IsParser, Settled
  <2>4. Policy!ParseTerm(P, toks, x) = IF inner.ok /\ Policy!Peeks(toks, inner.pos, Close)
                                THEN Policy!Parsed(inner.value, inner.pos + 1) ELSE Policy!Error
    BY <1>1, <1>4 DEF Policy!ParseTerm
  <2>5. x < n => \A k \in 0 .. n : \A u : inner.ok /\ inner.pos = k + 1 /\ inner.value = u
           <=> x + 1 <= k /\ u \in M[<<"or", x + 1, k>>] /\ Free(toks, "or", k)
    BY DEF Reads
  <2> HIDE DEF inner
  <2>6. inner.ok \in BOOLEAN /\ inner.value \in BOOLEAN /\ inner.pos \in Nat
        /\ (inner.ok => inner.pos \in x + 2 .. n + 1)
    BY <2>3 DEF Advances, Outcomes
  <2>7. ASSUME x < j, toks[j] = Close, v \in M[<<"or", x + 1, j - 1>>]
        PROVE  P[<<"term", x>>].ok /\ P[<<"term", x>>].pos = j + 1 /\ P[<<"term", x>>].value = v
    <3>1. x + 1 <= j - 1
      <4> SUFFICES ASSUME x + 1 > j - 1 PROVE FALSE
        OBVIOUS
      <4>1. x + 1 \in 0 .. n /\ j - 1 \in 0 .. n + 1
        BY <2>7
      <4>2. M[<<"or", x + 1, j - 1>>] = {}
        BY <1>1, <4>1, NoSpan
      <4>3. QED
        BY <2>7, <4>2
    <3>2. Free(toks, "or", j - 1)
      <4>1. (j - 1) + 1 = j
        OBVIOUS
      <4>2. ~Policy!Peeks(toks, j, And) /\ ~Policy!Peeks(toks, j, Or)
        BY <2>7 DEF Policy!Peeks, Policy!TokensDiffer
      <4>3. QED
        BY <4>1, <4>2 DEF Free
    <3>3. j - 1 \in 0 .. n /\ x < n /\ (j - 1) + 1 = j
      BY <3>1
    <3>4. inner.ok /\ inner.pos = j /\ inner.value = v
      BY <2>5, <2>7, <3>1, <3>2, <3>3
    <3>5. Policy!Peeks(toks, inner.pos, Close)
      BY <2>7, <3>4 DEF Policy!Peeks
    <3>6. P[<<"term", x>>] = Policy!Parsed(inner.value, inner.pos + 1)
      BY <1>2, <2>4, <3>4, <3>5
    <3>7. inner.pos + 1 \in Nat
      BY <2>6
    <3>8. QED
      BY <2>6, <3>4, <3>6, <3>7, OutcomeFacts
  <2>8. ASSUME P[<<"term", x>>].ok, P[<<"term", x>>].pos = j + 1, P[<<"term", x>>].value = v
        PROVE  x < j /\ toks[j] = Close /\ v \in M[<<"or", x + 1, j - 1>>]
    <3>1. inner.ok /\ Policy!Peeks(toks, inner.pos, Close) /\ P[<<"term", x>>] = Policy!Parsed(inner.value, inner.pos + 1)
      BY <1>2, <2>4, <2>8, OutcomeFacts
    <3>2. inner.pos + 1 \in Nat
      BY <2>6
    <3>3. inner.value = v /\ inner.pos + 1 = j + 1
      BY <2>6, <2>8, <3>1, <3>2, OutcomeFacts
    <3>4. inner.pos = j /\ j - 1 \in 0 .. n /\ x < n /\ x < j
      BY <2>6, <3>1, <3>3
    <3>5. inner.pos = (j - 1) + 1
      BY <3>4
    <3>6. v \in M[<<"or", x + 1, j - 1>>]
      BY <2>5, <3>1, <3>3, <3>4, <3>5
    <3>7. QED
      BY <3>1, <3>4, <3>6 DEF Policy!Peeks
  <2>9. QED
    BY <2>2, <2>7, <2>8
<1>5. CASE toks[x] # Open /\ toks[x] \in {True, False}
  <2>1. P[<<"term", x>>] = Policy!Parsed(toks[x] = True, x + 1)
    BY <1>1, <1>2, <1>5 DEF Policy!ParseTerm
  <2>2. (toks[x] = True) \in BOOLEAN /\ x + 1 \in Nat
    BY <1>1
  <2>3. P[<<"term", x>>].ok = TRUE /\ P[<<"term", x>>].pos = x + 1
        /\ P[<<"term", x>>].value = (toks[x] = True)
    <3>1. PICK worth \in BOOLEAN : worth = (toks[x] = True)
      BY <2>2
    <3>2. /\ Policy!Parsed(worth, x + 1).ok = TRUE /\ Policy!Parsed(worth, x + 1).pos = x + 1
          /\ Policy!Parsed(worth, x + 1).value = worth
      BY DEF Policy!Parsed
    <3>3. P[<<"term", x>>] = Policy!Parsed(worth, x + 1)
      BY <2>1, <3>1, Zenon
    <3>4. QED
      BY <3>1, <3>2, <3>3, Zenon
  <2>4. x <= j /\ v \in M[<<"term", x, j>>] <=> x = j /\ v = (toks[x] = True)
    BY <1>1, <1>3, <1>5
  <2>5. j + 1 = x + 1 <=> x = j
    OBVIOUS
  <2>6. QED
    BY <2>3, <2>4, <2>5, Zenon
<1>6. CASE toks[x] # Open /\ toks[x] \notin {True, False}
  <2>1. P[<<"term", x>>] = Policy!Error
    BY <1>1, <1>2, <1>6 DEF Policy!ParseTerm
  <2>2. ~(x <= j /\ v \in M[<<"term", x, j>>])
    BY <1>3, <1>6
  <2>3. QED
    BY <2>1, <2>2, OutcomeFacts
<1>7. QED
  BY <1>4, <1>5, <1>6

(* A span of a rule is free where its operand is and no operator follows. *)
LEMMA FreeOfOperand ==
  ASSUME NEW toks, Policy!TokensDiffer, NEW rule \in {"or", "and"}, NEW j \in Nat
  PROVE  /\ Free(toks, rule, j) <=> Free(toks, Policy!Operand(rule), j) /\ ~Policy!Peeks(toks, j + 1, Policy!Operator(rule))
         /\ Policy!Peeks(toks, j + 1, Policy!Operator(rule)) => Free(toks, Policy!Operand(rule), j)
<1>1. CASE rule = "or"
  <2>1. Policy!Operand(rule) = "and" /\ Policy!Operator(rule) = Or
    BY <1>1 DEF Policy!Operand, Policy!Operator
  <2>2. QED
    BY <1>1, <2>1 DEF Free, Policy!Peeks, Policy!TokensDiffer
<1>2. CASE rule = "and"
  <2>1. Policy!Operand(rule) = "term" /\ Policy!Operator(rule) = And
    BY <1>2 DEF Policy!Operand, Policy!Operator
  <2>2. QED
    BY <1>2, <2>1 DEF Free, Policy!Peeks, Policy!TokensDiffer
<1>3. QED
  BY <1>1, <1>2

LEMMA ReadsChain ==
  ASSUME NEW toks, NEW n \in Nat, n = Len(toks), Policy!TokensDiffer,
         NEW M, IsGrammar(M, toks, n), NEW P, IsParser(P, toks, n),
         NEW rule \in {"or", "and"}, NEW x \in 1 .. n,
         Reads(P, M, toks, n, Policy!Operand(rule), x),
         \A y \in 1 .. n : y > x => Reads(P, M, toks, n, rule, y)
  PROVE  Reads(P, M, toks, n, rule, x)
<1> SUFFICES ASSUME NEW j \in 0 .. n, NEW v
             PROVE  P[<<rule, x>>].ok /\ P[<<rule, x>>].pos = j + 1 /\ P[<<rule, x>>].value = v
                       <=> x <= j /\ v \in M[<<rule, x, j>>] /\ Free(toks, rule, j)
  BY DEF Reads
<1> DEFINE first == P[<<Policy!Operand(rule), x>>]
<1>1. rule \in PolicyRules /\ rule # "term" /\ Policy!Operand(rule) \in PolicyRules /\ x \in 1 .. n + 2
      /\ x \in Nat /\ j \in Nat
  BY OperandRules
<1>2. P[<<rule, x>>] = Policy!ParseChain(P, rule, toks, x)
  BY <1>1 DEF IsParser, Settled, AtSpot
<1>3. Advances(first, x, n)
  BY <1>1 DEF IsParser, Settled
<1>4. \A k \in 0 .. n : \A u : first.ok /\ first.pos = k + 1 /\ first.value = u
         <=> x <= k /\ u \in M[<<Policy!Operand(rule), x, k>>] /\ Free(toks, Policy!Operand(rule), k)
  BY DEF Reads
<1>5. ~first.ok \/ ~Policy!Peeks(toks, first.pos, Policy!Operator(rule)) => P[<<rule, x>>] = first
  BY <1>2 DEF Policy!ParseChain
<1>6. first.ok /\ Policy!Peeks(toks, first.pos, Policy!Operator(rule)) =>
         P[<<rule, x>>] = IF P[<<rule, first.pos + 1>>].ok
                          THEN Policy!Parsed(Policy!Joined(rule, first.value, P[<<rule, first.pos + 1>>].value),
                                      P[<<rule, first.pos + 1>>].pos) ELSE Policy!Error
  BY <1>2 DEF Policy!ParseChain
<1> HIDE DEF first
<1>7. first.ok \in BOOLEAN /\ first.value \in BOOLEAN /\ first.pos \in Nat
      /\ (first.ok => first.pos \in x + 1 .. n + 1)
  BY <1>3 DEF Advances, Outcomes
<1>8. ASSUME P[<<rule, x>>].ok, P[<<rule, x>>].pos = j + 1, P[<<rule, x>>].value = v
      PROVE  x <= j /\ v \in M[<<rule, x, j>>] /\ Free(toks, rule, j)
  <2>1. CASE ~first.ok \/ ~Policy!Peeks(toks, first.pos, Policy!Operator(rule))
    <3>1. first.ok /\ first.pos = j + 1 /\ first.value = v
      BY <1>5, <1>8, <2>1
    <3>2. x <= j /\ v \in M[<<Policy!Operand(rule), x, j>>] /\ Free(toks, Policy!Operand(rule), j)
      BY <1>4, <3>1
    <3>3. ~Policy!Peeks(toks, j + 1, Policy!Operator(rule))
      BY <2>1, <3>1
    <3>4. j \in x .. n
      BY <3>2
    <3>5. v \in M[<<rule, x, j>>]
      BY <3>2, <3>4, SpanOfChain
    <3>6. Free(toks, rule, j) <=> Free(toks, Policy!Operand(rule), j) /\ ~Policy!Peeks(toks, j + 1, Policy!Operator(rule))
      BY <1>1, FreeOfOperand
    <3>7. QED
      BY <3>2, <3>3, <3>5, <3>6, Zenon
  <2>2. CASE first.ok /\ Policy!Peeks(toks, first.pos, Policy!Operator(rule))
    <3>1. PICK m \in x + 1 .. n : m = first.pos /\ toks[m] = Policy!Operator(rule)
      BY <1>7, <2>2 DEF Policy!Peeks
    <3> DEFINE rest == P[<<rule, m + 1>>]
    <3>2. m + 1 \in 1 .. n + 2 /\ m \in Nat /\ m - 1 \in 0 .. n /\ m = (m - 1) + 1
      BY <3>1
    <3>3. Advances(rest, m + 1, n)
      BY <1>1, <3>2 DEF IsParser, Settled
    <3>4. P[<<rule, x>>] = IF rest.ok THEN Policy!Parsed(Policy!Joined(rule, first.value, rest.value), rest.pos) ELSE Policy!Error
      BY <1>6, <2>2, <3>1
    <3>5. m + 1 <= n => \A k \in 0 .. n : \A u : rest.ok /\ rest.pos = k + 1 /\ rest.value = u
             <=> m + 1 <= k /\ u \in M[<<rule, m + 1, k>>] /\ Free(toks, rule, k)
      <4>1. m + 1 <= n => m + 1 \in 1 .. n /\ m + 1 > x
        BY <3>2
      <4>2. m + 1 <= n => Reads(P, M, toks, n, rule, m + 1)
        BY <4>1
      <4>3. QED
        BY <4>2 DEF Reads
    <3> HIDE DEF rest
    <3>6. rest.ok \in BOOLEAN /\ rest.value \in BOOLEAN /\ rest.pos \in Nat
          /\ (rest.ok => rest.pos \in m + 2 .. n + 1)
      BY <3>3 DEF Advances, Outcomes
    <3>7. rest.ok /\ P[<<rule, x>>] = Policy!Parsed(Policy!Joined(rule, first.value, rest.value), rest.pos)
      BY <1>8, <3>4, OutcomeFacts
    <3>8. rest.pos = j + 1 /\ v = Policy!Joined(rule, first.value, rest.value)
      BY <1>8, <3>6, <3>7, JoinedBoolean, OutcomeFacts
    <3>9. m + 1 <= n /\ m + 1 <= j
      BY <3>6, <3>7, <3>8
    <3>10. rest.value \in M[<<rule, m + 1, j>>] /\ Free(toks, rule, j)
      BY <3>5, <3>7, <3>8, <3>9
    <3>11. first.value \in M[<<Policy!Operand(rule), x, m - 1>>]
      BY <1>4, <2>2, <3>1, <3>2
    <3>12. j \in m + 1 .. n
      BY <3>9
    <3>13. Policy!Joined(rule, first.value, rest.value) \in M[<<rule, x, j>>]
      BY <3>1, <3>10, <3>11, <3>12, FirstOperand
    <3>14. QED
      BY <3>8, <3>9, <3>10, <3>13, <3>1
  <2>3. QED
    BY <2>1, <2>2
<1>9. ASSUME x <= j, v \in M[<<rule, x, j>>], Free(toks, rule, j)
      PROVE  P[<<rule, x>>].ok /\ P[<<rule, x>>].pos = j + 1 /\ P[<<rule, x>>].value = v
  <2>1. j \in x .. n
    BY <1>9
  <2>2. CASE v \in M[<<Policy!Operand(rule), x, j>>]
    <3>1. Free(toks, Policy!Operand(rule), j) /\ ~Policy!Peeks(toks, j + 1, Policy!Operator(rule))
      BY <1>1, <1>9, FreeOfOperand
    <3>2. first.ok /\ first.pos = j + 1 /\ first.value = v
      BY <1>4, <1>9, <2>2, <3>1
    <3>3. QED
      BY <1>5, <3>1, <3>2
  <2>3. CASE v \notin M[<<Policy!Operand(rule), x, j>>]
    <3>1. PICK m \in x + 1 .. j - 1 :
             /\ toks[m] = Policy!Operator(rule)
             /\ \E a \in M[<<Policy!Operand(rule), x, m - 1>>], b \in M[<<rule, m + 1, j>>] :
                   v = Policy!Joined(rule, a, b)
      <4>1. FirstApart(M, toks, rule, x, j, v)
        BY <1>9, <2>1, <2>3, ChainBegins
      <4>2. QED
        BY <4>1 DEF FirstApart
    <3>2. PICK a \in M[<<Policy!Operand(rule), x, m - 1>>], b \in M[<<rule, m + 1, j>>] : v = Policy!Joined(rule, a, b)
      BY <3>1
    <3>3. m \in Nat /\ m - 1 \in Nat /\ m - 1 \in 0 .. n /\ (m - 1) + 1 = m /\ x <= m - 1 /\ m <= n
          /\ m + 1 \in 1 .. n /\ m + 1 > x /\ m + 1 <= j
      BY <3>1
    <3>4. Policy!Peeks(toks, m, Policy!Operator(rule))
      BY <3>1, <3>3 DEF Policy!Peeks
    <3>5. Free(toks, Policy!Operand(rule), m - 1)
      BY <3>3, <3>4, FreeOfOperand
    <3>6. first.ok /\ first.pos = m /\ first.value = a
      BY <1>4, <3>3, <3>5
    <3> DEFINE rest == P[<<rule, m + 1>>]
    <3>7. \A k \in 0 .. n : \A u : rest.ok /\ rest.pos = k + 1 /\ rest.value = u
             <=> m + 1 <= k /\ u \in M[<<rule, m + 1, k>>] /\ Free(toks, rule, k)
      BY <3>3 DEF Reads
    <3>8. P[<<rule, x>>] = IF rest.ok THEN Policy!Parsed(Policy!Joined(rule, first.value, rest.value), rest.pos) ELSE Policy!Error
      BY <1>6, <3>4, <3>6
    <3> HIDE DEF rest
    <3>9. rest.ok /\ rest.pos = j + 1 /\ rest.value = b
      BY <1>9, <3>3, <3>7
    <3>10. P[<<rule, x>>] = Policy!Parsed(Policy!Joined(rule, a, b), j + 1)
      BY <3>6, <3>8, <3>9
    <3>11. QED
      <4>1. j + 1 \in Nat
        BY <1>1
      <4>2. QED
        BY <3>2, <3>10, <4>1, JoinedBoolean, OutcomeFacts
  <2>4. QED
    BY <2>2, <2>3
<1>10. QED
  BY <1>8, <1>9

(* The parser reads what the grammar derives, from every position. *)
LEMMA ReadsEverywhere ==
  ASSUME NEW toks, NEW n \in Nat, n = Len(toks), Policy!TokensDiffer,
         NEW M, IsGrammar(M, toks, n), NEW P, IsParser(P, toks, n)
  PROVE  \A x \in 1 .. n : Reads(P, M, toks, n, "or", x)
<1> DEFINE Q == {d \in Nat : \A x \in 1 .. n : x + d > n =>
                    /\ Reads(P, M, toks, n, "or", x) /\ Reads(P, M, toks, n, "and", x)}
<1>1. 0 \in Q
  OBVIOUS
<1>2. ASSUME NEW d \in Nat, d \in Q
      PROVE  d + 1 \in Q
  <2> SUFFICES ASSUME NEW x \in 1 .. n, x + (d + 1) > n
               PROVE  Reads(P, M, toks, n, "or", x) /\ Reads(P, M, toks, n, "and", x)
    OBVIOUS
  <2>1. \A y \in 1 .. n : y > x => Reads(P, M, toks, n, "or", y) /\ Reads(P, M, toks, n, "and", y)
    <3> SUFFICES ASSUME NEW y \in 1 .. n, y > x
                 PROVE  Reads(P, M, toks, n, "or", y) /\ Reads(P, M, toks, n, "and", y)
      OBVIOUS
    <3>1. y + d > n
      OBVIOUS
    <3>2. QED
      BY <1>2, <3>1
  <2>2. x < n => x + 1 \in 1 .. n /\ x + 1 > x
    OBVIOUS
  <2>3. Reads(P, M, toks, n, "term", x)
    BY <2>1, <2>2, ReadsTerm
  <2>4. Policy!Operand("and") = "term" /\ Policy!Operand("or") = "and"
    BY OperandRules
  <2>5. Reads(P, M, toks, n, "and", x)
    BY <2>1, <2>3, <2>4, ReadsChain
  <2>6. Reads(P, M, toks, n, "or", x)
    BY <2>1, <2>5, <2>4, ReadsChain
  <2>7. QED
    BY <2>5, <2>6
<1>3. n \in Q
  <2> HIDE DEF Q
  <2>1. QED
    BY <1>1, <1>2, SetInduction
<1>4. QED
  BY <1>3

(* A policy of any length means what its grammar says or is refused. *)
LEMMA PolicyParsed ==
  ASSUME Policy!TokensDiffer, NEW toks, IsSequence(toks)
  PROVE  LET result == Policy!EvalPolicy(toks)
         IN  Policy!Meanings(toks) = IF result.ok THEN {result.value} ELSE {}
<1> DEFINE P == ParseOf(toks)
           M == MeansOf(toks)
           whole == P[<<"or", 1>>]
           n == Len(toks)
<1>1. Policy!EvalPolicy(toks) = IF toks # <<>> /\ whole.ok /\ whole.pos = Len(toks) + 1 THEN whole ELSE Policy!Error
  BY Zenon DEF Policy!EvalPolicy, ParseOf
<1>2. Policy!Meanings(toks) = IF toks = <<>> THEN {} ELSE M[<<"or", 1, Len(toks)>>]
  BY Zenon DEF Policy!Meanings, MeansOf
<1>3. n \in Nat
  BY SequenceFacts
<1>4. IsParser(P, toks, n)
  BY <1>3, ParseDefined DEF IsParser
<1>5. IsGrammar(M, toks, n)
  BY <1>3, MeansDefined
<1> HIDE DEF P, M
<1>6. CASE toks = <<>>
  <2>1. Policy!EvalPolicy(toks) = Policy!Error /\ Policy!Meanings(toks) = {}
    BY <1>1, <1>2, <1>6, Zenon
  <2>2. Policy!Error.ok = FALSE
    BY OutcomeFacts
  <2>3. QED
    BY <2>1, <2>2
<1>7. CASE toks # <<>>
  <2>1. n # 0
    BY <1>7, EmptySeq DEF IsSequence
  <2>2. 1 \in 1 .. n /\ n \in 0 .. n /\ 1 <= n
    BY <1>3, <2>1
  <2>3. Reads(P, M, toks, n, "or", 1)
    BY <1>3, <1>4, <1>5, <2>2, ReadsEverywhere
  <2>4. Free(toks, "or", n)
    BY <1>3 DEF Free, Policy!Peeks
  <2>5. \A v : whole.ok /\ whole.pos = n + 1 /\ whole.value = v <=> v \in M[<<"or", 1, n>>]
    BY <2>2, <2>3, <2>4 DEF Reads
  <2> HIDE DEF whole
  <2>6. CASE whole.ok /\ whole.pos = n + 1
    <3>1. Policy!EvalPolicy(toks) = whole
      BY <1>1, <1>7, <2>6
    <3>2. M[<<"or", 1, n>>] = {whole.value}
      BY <2>5, <2>6
    <3>3. QED
      BY <1>2, <1>7, <2>6, <3>1, <3>2
  <2>7. CASE ~(whole.ok /\ whole.pos = n + 1)
    <3>1. Policy!EvalPolicy(toks) = Policy!Error
      BY <1>1, <2>7
    <3>2. M[<<"or", 1, n>>] = {}
      BY <2>5, <2>7
    <3>3. QED
      BY <1>2, <1>7, <3>1, <3>2, OutcomeFacts
  <2>8. QED
    BY <2>6, <2>7
<1>8. QED
  BY <1>6, <1>7

LEMMA BeginningsTokens ==
  Beginnings \subseteq Seq(Policy!Tokens)
<1>1. /\ Open \in Policy!Tokens /\ True \in Policy!Tokens /\ False \in Policy!Tokens
      /\ And \in Policy!Tokens /\ Or \in Policy!Tokens
  BY DEF Policy!Tokens
<1> DEFINE T == Policy!Tokens
<1> HIDE DEF T
<1>2. Open \in T /\ True \in T /\ False \in T /\ And \in T /\ Or \in T
  BY <1>1 DEF T
<1>3. /\ <<>> \in Seq(T) /\ <<Open, False, And>> \in Seq(T)
      /\ <<Open, True, Or>> \in Seq(T) /\ <<True, Or, Open>> \in Seq(T)
  BY <1>2
<1>4. QED
  BY <1>3 DEF Beginnings, T

(* A policy that is extended stays one, of as many tokens more. *)
LEMMA PolicyStep ==
  ASSUME Policy!Tokenized
  PROVE  /\ Policy!Init => Policy!TypeOK
         /\ Policy!TypeOK /\ Policy!Next => Policy!TypeOK'
<1>1. MaxTokens \in Nat
  BY DEF Policy!Tokenized
<1>2. Policy!Init => Policy!TypeOK
  BY <1>1, BeginningsTokens DEF Policy!Init, Policy!TypeOK
<1>3. ASSUME Policy!TypeOK, NEW token \in Policy!Tokens, Policy!Extend(token)
      PROVE  Policy!TypeOK'
  <2>1. policy' = Append(policy, token) /\ policy \in Seq(Policy!Tokens)
    BY <1>3 DEF Policy!TypeOK, Policy!Extend
  <2>2. policy' \in Seq(Policy!Tokens)
    BY <2>1
  <2>3. appended' \in 0 .. MaxTokens
    BY <1>1, <1>3 DEF Policy!TypeOK, Policy!Extend
  <2>4. QED
    BY <2>2, <2>3 DEF Policy!TypeOK
<1>4. QED
  BY <1>2, <1>3 DEF Policy!Next

--------------------------------
(* The parts together *)

\* The modules of proofs extend their components: the theorems are about the
\* instances that are checked.
Tree == INSTANCE BindingTreeProofs WITH
    Contents <- {Original, Changed}, MaxGrants <- 2, MaxAudits <- 1, audits <- treeAudits

Chain == INSTANCE SequenceChainProofs WITH
    Payloads <- {Original, Changed}, MaxGrants <- 2,
    blocks <- chainBlocks, grants <- replayed, redactions <- modified, granted <- allowances

ASSUME MergeAssumption == Merge!CarryVerdicts

ASSUME SweepAssumption == Rates!Sweepable

ASSUME PolicyAssumption == Policy!Tokenized

ASSUME SpreadAssumption == Arms!Spreadable

ASSUME TreeAssumption == Tree!Auditable

ASSUME ChainAssumption == Chain!OrderedDataset /\ Chain!OneDeletion /\ Chain!TypedConstants

ledgerVars == vars
treeVars == <<setups, redactions, treeAudits, q, prevHash, chain, version, bat, authorized, light>>
chainVars == <<ready, chainBlocks, accumulated, current, blockOf, versions, lastDeletion,
               replayed, audited, modified, deletes, allowances>>
merkleVars == <<leaves, tree>>
policyVars == <<policy, appended>>
ratesVars == <<knobs, levels, cells, system, cell, cursor, drawn, tally, cancelled,
               interrupted, opened, measured, base, status, claims>>
armsVars == <<experiment, arms, host, points, verdict>>
mergeVars == <<pooledOf, shards, allowed, pooled, pool, extras, outcome, document>>

allVars ==
    <<part, ledgerVars, treeVars, chainVars, merkleVars, policyVars, ratesVars, armsVars, mergeVars>>

EvaluationInit ==
    /\ part \in Parts
    /\ Init /\ Tree!Init /\ Chain!Init
    /\ IF part = "merkle" THEN Merkle!Init ELSE leaves = Nothing /\ tree = Nothing
    /\ IF part = "policy" THEN Policy!Init ELSE policy = Nothing /\ appended = Nothing
    /\ IF part = "rates" THEN Rates!Init
       ELSE /\ knobs = Nothing /\ levels = Nothing /\ cells = Nothing /\ system = Nothing
            /\ cell = Nothing /\ cursor = Nothing /\ drawn = Nothing /\ tally = Nothing /\ cancelled = Nothing
            /\ interrupted = Nothing /\ opened = Nothing /\ measured = Nothing /\ base = Nothing
            /\ status = Nothing /\ claims = Nothing
    /\ IF part = "arms" THEN Arms!Init
       ELSE /\ experiment = Nothing /\ arms = Nothing /\ host = Nothing
            /\ points = Nothing /\ verdict = Nothing
    /\ IF part = "merge" THEN Merge!Init
       ELSE /\ pooledOf = Nothing /\ shards = Nothing /\ allowed = Nothing /\ pooled = Nothing
            /\ pool = Nothing /\ extras = Nothing /\ outcome = Nothing /\ document = Nothing

EvaluationNext ==
    /\ UNCHANGED part
    /\ IF part = "ledger" THEN Next ELSE UNCHANGED ledgerVars
    /\ IF part = "tree" THEN Tree!Next ELSE UNCHANGED treeVars
    /\ IF part = "chain" THEN Chain!Next ELSE UNCHANGED chainVars
    /\ IF part = "merkle" THEN Merkle!Next ELSE UNCHANGED merkleVars
    /\ IF part = "policy" THEN Policy!Next ELSE UNCHANGED policyVars
    /\ IF part = "rates" THEN Rates!Next ELSE UNCHANGED ratesVars
    /\ IF part = "arms" THEN Arms!Next ELSE UNCHANGED armsVars
    /\ IF part = "merge" THEN Merge!Next ELSE UNCHANGED mergeVars

EvaluationSpec == EvaluationInit /\ [][EvaluationNext]_allVars

--------------------------------
(* Properties, as their modules state them *)

\* Every part has its types.
PartsTyped ==
    /\ TypeOK /\ Tree!TypeOK /\ Chain!TypeOK
    /\ part = "merkle" => Merkle!TypeOK
    /\ part = "policy" => Policy!TypeOK
    /\ part = "rates" => Rates!TypeOK
    /\ part = "arms" => Arms!TypeOK
    /\ part = "merge" => Merge!TypeOK

\* Whatever Ref[13] redacted, every block and every sample is accepted, and a
\* light node accepts only what the chain holds now.
TreeFollowsChain == Tree!AuditAccepts /\ Tree!LightNodeSeesCurrent

\* The chain of Ref[22] validates after redactions and a deletion.
ChainVerifies == Chain!ChainVerifies

\* Only what the chain of Ref[22] holds now is accumulated.
OnlyCurrentAccumulated == Chain!OnlyCurrentAccumulated

\* A Merkle tree updated in place is the one built anew, and names its leaves.
UpdateMatchesRebuild == part = "merkle" => Merkle!UpdateMatchesRebuild

\* A policy means what its grammar says or is refused.
ParsesAsGrammar == part = "policy" => Policy!ParsesAsGrammar

\* No measurement lives off an earlier one, and a point is of what it says.
MeasuredAfresh ==
    /\ part = "rates" => Rates!PointsAsLabelled
    /\ part = "arms" => Arms!MeasuredAfresh

\* The hosts measure every arm once between them.
ArmsMeasuredOnce == part = "arms" => Arms!ArmsMeasuredOnce

\* A claim that one host found broken is broken in the pooled document.
BrokenClaimSurvives == part = "merge" => Merge!BrokenClaimSurvives

\* Audits of Ref[13] challenge as many blocks as are configured.
SampleAsConfigured == Tree!SampleAsConfigured

\* The scaling verdict of experiment 3 is of one configuration.
ScalingPerConfiguration == part = "arms" => Arms!ScalingPerConfiguration

--------------------------------
(* What holds of the parts *)

(* A tree updated in place is the tree built anew, it proves every leaf and
   no other value, and its root names its leaves: for any number of leaves
   and updates (pkg/merkle, update.go and merkle.go). *)
THEOREM UpdatesMatchRebuild == EvaluationSpec => []UpdateMatchesRebuild
<1> DEFINE Inv == part = "merkle" => MerkleInv
<1>1. EvaluationInit => Inv
  BY InitRebuilt DEF EvaluationInit
<1>2. Inv /\ [EvaluationNext]_allVars => Inv'
  <2>1. CASE EvaluationNext /\ part = "merkle"
    BY <2>1, UpdateRebuilt DEF allVars, EvaluationNext
  <2>2. CASE EvaluationNext /\ part # "merkle"
    BY <2>2 DEF allVars, EvaluationNext
  <2>3. CASE UNCHANGED <<part, merkleVars>>
    BY <2>3 DEF merkleVars, MerkleInv
  <2>4. QED
    BY <2>1, <2>2, <2>3 DEF allVars
<1>3. Inv => UpdateMatchesRebuild
  BY LeavesNamed DEF UpdateMatchesRebuild
<1> HIDE DEF Inv
<1>4. QED
  BY <1>1, <1>2, <1>3, PTL DEF EvaluationSpec

(* Whatever Ref[13] redacted, every block and every sample of the tree is
   accepted, and a light node accepts only what the chain holds now: the
   theorems of BindingTreeProofs about the tree that is checked. *)
THEOREM TreeIsFollowed == EvaluationSpec => []TreeFollowsChain
<1>1. EvaluationInit => Tree!Init
  BY DEF EvaluationInit
<1>2. [EvaluationNext]_allVars => [Tree!Next]_(Tree!vars)
  BY DEF allVars, EvaluationNext, treeVars, Tree!vars
<1>3. Tree!Spec => []Tree!AuditAccepts
  BY TreeAssumption, Tree!AuditsAccepted
<1>4. Tree!Spec => []Tree!LightNodeSeesCurrent
  BY TreeAssumption, Tree!AnswersCurrent
<1>5. Tree!AuditAccepts /\ Tree!LightNodeSeesCurrent => TreeFollowsChain
  BY DEF TreeFollowsChain
<1>6. QED
  BY <1>1, <1>2, <1>3, <1>4, <1>5, PTL DEF EvaluationSpec, Tree!Spec

(* The chain of Ref[22] validates after redactions and a deletion. *)
THEOREM ChainIsValid == EvaluationSpec => []ChainVerifies
<1>1. EvaluationInit => Chain!Init
  BY DEF EvaluationInit
<1>2. [EvaluationNext]_allVars => [Chain!Next]_(Chain!vars)
  BY DEF allVars, EvaluationNext, chainVars, Chain!vars
<1>3. Chain!Spec => []Chain!ChainVerifies
  BY ChainAssumption, Chain!ChainStaysValid
<1>4. Chain!ChainVerifies => ChainVerifies
  BY DEF ChainVerifies
<1>5. QED
  BY <1>1, <1>2, <1>3, <1>4, PTL DEF EvaluationSpec, Chain!Spec

(* Only what the chain of Ref[22] holds now is accumulated, and what the
   last deletion recorded still verifies. *)
THEOREM OldVersionsGone == EvaluationSpec => []OnlyCurrentAccumulated
<1>1. EvaluationInit => Chain!Init
  BY DEF EvaluationInit
<1>2. [EvaluationNext]_allVars => [Chain!Next]_(Chain!vars)
  BY DEF allVars, EvaluationNext, chainVars, Chain!vars
<1>3. Chain!Spec => []Chain!OnlyCurrentAccumulated
  BY ChainAssumption, Chain!SupersededGone
<1>4. Chain!OnlyCurrentAccumulated => OnlyCurrentAccumulated
  BY DEF OnlyCurrentAccumulated
<1>5. QED
  BY <1>1, <1>2, <1>3, <1>4, PTL DEF EvaluationSpec, Chain!Spec

(* The recursive descent of Ref[10]'s policies gives every policy, of any
   length, the one value that its grammar gives it, and an error to what
   the grammar does not derive (committee.go, evalPolicy). *)
THEOREM PoliciesParsed == EvaluationSpec => []ParsesAsGrammar
<1> DEFINE Inv == part = "policy" => Policy!TypeOK
<1>1. EvaluationInit => Inv
  BY PolicyAssumption, PolicyStep DEF EvaluationInit
<1>2. Inv /\ [EvaluationNext]_allVars => Inv'
  <2>1. CASE EvaluationNext /\ part = "policy"
    BY <2>1, PolicyAssumption, PolicyStep DEF allVars, EvaluationNext
  <2>2. CASE EvaluationNext /\ part # "policy"
    BY <2>2 DEF allVars, EvaluationNext
  <2>3. CASE UNCHANGED <<part, policyVars>>
    BY <2>3 DEF policyVars, Policy!TypeOK
  <2>4. QED
    BY <2>1, <2>2, <2>3 DEF allVars
<1>3. Inv => ParsesAsGrammar
  <2> SUFFICES ASSUME Policy!TypeOK
               PROVE  Policy!ParsesAsGrammar
    BY DEF ParsesAsGrammar
  <2>1. IsSequence(policy)
    BY DEF Policy!TypeOK, IsSequence
  <2>2. Policy!TokensDiffer
    BY PolicyAssumption DEF Policy!Tokenized
  <2>3. QED
    BY <2>1, <2>2, PolicyParsed, Zenon DEF Policy!ParsesAsGrammar
<1> HIDE DEF Inv
<1>4. QED
  BY <1>1, <1>2, <1>3, PTL DEF EvaluationSpec

(* A claim that one host found broken stays broken in the document that is
   written, and among intact ones the worst ratio stands: for any documents
   that carry verdicts, in any order (mergeExtras, worseScaling). *)
THEOREM ClaimsPooled == EvaluationSpec => []BrokenClaimSurvives
<1> DEFINE Inv == part = "merge" => MergeInv /\ pooledOf \in DOMAIN Documents
<1>1. EvaluationInit => Inv
  <2>1. Merge!Init => pooledOf \in DOMAIN Documents
    BY DEF Merge!Init
  <2>2. QED
    BY <2>1, InitMerges DEF EvaluationInit
<1>2. Inv /\ [EvaluationNext]_allVars => Inv'
  <2>1. CASE EvaluationNext /\ part = "merge"
    BY <2>1, MergeAssumption, MergeStep DEF allVars, EvaluationNext
  <2>2. CASE EvaluationNext /\ part # "merge"
    BY <2>2 DEF allVars, EvaluationNext
  <2>3. CASE UNCHANGED <<part, mergeVars>>
    BY <2>3 DEF mergeVars, MergeInv, Heard
  <2>4. QED
    BY <2>1, <2>2, <2>3 DEF allVars
<1>3. Inv => BrokenClaimSurvives
  BY ClaimSurvives DEF BrokenClaimSurvives
<1> HIDE DEF Inv
<1>4. QED
  BY <1>1, <1>2, <1>3, PTL DEF EvaluationSpec

(* A measurement is of what its point says: in experiment 1 of the scheme
   in the configuration of its label, in contract rounds of its own and,
   unless the caller's context had ended, over the whole trace; in experiment 2 of every target of the workload, and
   in experiment 3 of exactly the history it is labelled with.  It holds of
   any sweep whose axes repeat no value. *)
THEOREM PointsAreFresh == EvaluationSpec => []MeasuredAfresh
<1> DEFINE Inv == (part = "rates" => RatesInv) /\ (part = "arms" => ArmsInv)
<1>1. EvaluationInit => Inv
  BY SweepAssumption, SpreadAssumption, RatesInit, ArmsInit DEF EvaluationInit
<1>2. Inv /\ [EvaluationNext]_allVars => Inv'
  <2> SUFFICES ASSUME Inv, [EvaluationNext]_allVars
               PROVE  Inv'
    OBVIOUS
  <2>1. UNCHANGED part
    BY DEF allVars, EvaluationNext
  <2>2. part = "rates" => Rates!Next \/ UNCHANGED Rates!vars
    BY DEF allVars, EvaluationNext, ratesVars, Rates!vars
  <2>3. part = "arms" => Arms!Next \/ UNCHANGED Arms!vars
    BY DEF allVars, EvaluationNext, armsVars, Arms!vars
  <2>4. part = "rates" => RatesInv'
    BY <2>2, SweepAssumption, RatesStep, RatesStill
  <2>5. part = "arms" => ArmsInv'
    BY <2>3, SpreadAssumption, ArmsStep, ArmsStill
  <2>6. QED
    BY <2>1, <2>4, <2>5, Zenon
<1>3. Inv => MeasuredAfresh
  BY SweepAssumption, RatesImplies, ArmsFresh DEF MeasuredAfresh
<1> HIDE DEF Inv
<1>4. QED
  BY <1>1, <1>2, <1>3, PTL DEF EvaluationSpec

(* Spread over any number of hosts, no arm is measured twice, and when all
   hosts are done every repetition of every arm has been measured: the arm
   index counts the arms of the whole sweep on every host (exp2
   runner.go:354-356). *)
THEOREM ArmsOnceBetweenHosts == EvaluationSpec => []ArmsMeasuredOnce
<1> DEFINE Inv == part = "arms" => ArmsInv
<1>1. EvaluationInit => Inv
  BY SpreadAssumption, ArmsInit DEF EvaluationInit
<1>2. Inv /\ [EvaluationNext]_allVars => Inv'
  <2> SUFFICES ASSUME Inv, [EvaluationNext]_allVars
               PROVE  Inv'
    OBVIOUS
  <2>1. UNCHANGED part
    BY DEF allVars, EvaluationNext
  <2>2. part = "arms" => Arms!Next \/ UNCHANGED Arms!vars
    BY DEF allVars, EvaluationNext, armsVars, Arms!vars
  <2>3. part = "arms" => ArmsInv'
    BY <2>2, SpreadAssumption, ArmsStep, ArmsStill
  <2>4. QED
    BY <2>1, <2>3, Zenon
<1>3. Inv => ArmsMeasuredOnce
  BY SpreadAssumption, ArmsOnce DEF ArmsMeasuredOnce
<1> HIDE DEF Inv
<1>4. QED
  BY <1>1, <1>2, <1>3, PTL DEF EvaluationSpec

(* Every part has its types, for whatever constants the assumptions admit. *)
THEOREM PartsAreTyped == EvaluationSpec => []PartsTyped
<1> DEFINE Ledgers == LedgerInv /\ HistoryComplete /\ SoundInv /\ LedgerTyped
           Inv == /\ Ledgers
                  /\ part = "merkle" => MerkleInv
                  /\ part = "policy" => Policy!TypeOK
                  /\ part = "rates" => RatesInv
                  /\ part = "arms" => ArmsInv
                  /\ part = "merge" => MergeTyped
<1>1. EvaluationInit => Inv /\ Tree!Init /\ Chain!Init
  BY InitLedger, InitSound, InitTyped, InitRebuilt, PolicyAssumption, PolicyStep, SweepAssumption,
     RatesInit, SpreadAssumption, ArmsInit, MergeTypes DEF EvaluationInit
<1>2. Inv /\ [EvaluationNext]_allVars => Inv'
  <2> SUFFICES ASSUME Inv, [EvaluationNext]_allVars
               PROVE  Inv'
    OBVIOUS
  <2>1. UNCHANGED part
    BY DEF allVars, EvaluationNext
  <2>2. [Next]_vars
    BY DEF allVars, EvaluationNext, ledgerVars
  <2>3. Ledgers'
    BY <2>2, StepKeeps, StepSound, StepTyped
  <2>4. part = "merkle" => MerkleInv'
    <3>1. part = "merkle" => Merkle!Next \/ UNCHANGED merkleVars
      BY DEF allVars, EvaluationNext
    <3>2. UNCHANGED merkleVars /\ MerkleInv => MerkleInv'
      BY DEF merkleVars, MerkleInv
    <3>3. QED
      BY <3>1, <3>2, UpdateRebuilt
  <2>5. part = "policy" => Policy!TypeOK'
    <3>1. part = "policy" => Policy!Next \/ UNCHANGED policyVars
      BY DEF allVars, EvaluationNext
    <3>2. UNCHANGED policyVars /\ Policy!TypeOK => Policy!TypeOK'
      BY DEF policyVars, Policy!TypeOK
    <3>3. QED
      BY <3>1, <3>2, PolicyAssumption, PolicyStep
  <2>6. part = "rates" => RatesInv'
    <3>1. part = "rates" => Rates!Next \/ UNCHANGED Rates!vars
      BY DEF allVars, EvaluationNext, ratesVars, Rates!vars
    <3>2. QED
      BY <3>1, SweepAssumption, RatesStep, RatesStill
  <2>7. part = "arms" => ArmsInv'
    <3>1. part = "arms" => Arms!Next \/ UNCHANGED Arms!vars
      BY DEF allVars, EvaluationNext, armsVars, Arms!vars
    <3>2. QED
      BY <3>1, SpreadAssumption, ArmsStep, ArmsStill
  <2>8. part = "merge" => MergeTyped'
    <3>1. part = "merge" => Merge!Next \/ UNCHANGED mergeVars
      BY DEF allVars, EvaluationNext
    <3>2. UNCHANGED mergeVars /\ MergeTyped => MergeTyped'
      BY DEF mergeVars, MergeTyped, Merge!TypeOK
    <3>3. QED
      BY <3>1, <3>2, MergeTypes
  <2> HIDE DEF Ledgers
  <2>9. QED
    BY <2>1, <2>3, <2>4, <2>5, <2>6, <2>7, <2>8, Zenon
<1>3. [EvaluationNext]_allVars => [Tree!Next]_(Tree!vars) /\ [Chain!Next]_(Chain!vars)
  BY DEF allVars, EvaluationNext, treeVars, Tree!vars, chainVars, Chain!vars
<1>4. (Tree!Spec => []Tree!TypeOK) /\ (Chain!Spec => []Chain!TypeOK)
  BY TreeAssumption, Tree!TypeCorrect, ChainAssumption, Chain!TypeCorrect
<1>5. Inv /\ Tree!TypeOK /\ Chain!TypeOK => PartsTyped
  BY LedgerTypeOK, MerkleTyped, SweepAssumption, RatesImplies, SpreadAssumption, ArmsTyped
     DEF PartsTyped, MergeTyped
<1> HIDE DEF Inv
<1>6. QED
  BY <1>1, <1>2, <1>3, <1>4, <1>5, PTL DEF EvaluationSpec, Tree!Spec, Chain!Spec
=============================================================================
