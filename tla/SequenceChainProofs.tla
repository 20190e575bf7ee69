------------------------ MODULE SequenceChainProofs ------------------------
(***************************************************************************)
(* Proofs about SequenceChain, for any dataset, any payloads and any       *)
(* number of redactions before and after one deletion of any positions.    *)
(***************************************************************************)
EXTENDS SequenceChain, SequenceTheorems, FiniteSetTheorems, WellFoundedInduction, TLAPS

-----------------------------------------------------------------------------
(* Sequences and induction                                                  *)

IsSequence(s) == \E S : s \in Seq(S)

LEMMA SequenceFacts ==
  ASSUME NEW s, IsSequence(s)
  PROVE  Len(s) \in Nat /\ DOMAIN s = 1 .. Len(s)
  BY LenProperties DEF IsSequence

LEMMA FunctionIsSequence ==
  ASSUME NEW n \in Nat, NEW S, NEW s \in [1 .. n -> S]
  PROVE  IsSequence(s) /\ Len(s) = n
<1>1. s \in Seq(S) /\ Len(s) = n
  OBVIOUS
<1>2. QED
  BY <1>1 DEF IsSequence

(* Induction, of a set: the smallest number that is not in it would follow  *)
(* one that is.                                                             *)
LEMMA SetInduction ==
  ASSUME NEW P, 0 \in P, \A k \in Nat : k \in P => k + 1 \in P
  PROVE  Nat \subseteq P
<1> SUFFICES ASSUME Nat \ P # {} PROVE FALSE
  OBVIOUS
<1> DEFINE heads == {0 .. k : k \in Nat \ P}
<1>1. heads \subseteq FiniteSubsetsOf(Nat) /\ heads # {}
  <2>1. ASSUME NEW k \in Nat
        PROVE  0 .. k \in FiniteSubsetsOf(Nat)
    BY FS_Interval DEF FiniteSubsetsOf
  <2>2. QED
    BY <2>1
<1>2. PICK s \in heads : \A t \in heads : ~(<<t, s>> \in StrictSubsetOrdering(Nat))
  BY <1>1, WFMin, FS_StrictSubsetOrderingWellFounded
<1>3. \A t \in heads : ~(t \subseteq s /\ t # s)
  BY <1>1, <1>2 DEF StrictSubsetOrdering, FiniteSubsetsOf
<1>4. PICK x \in Nat \ P : s = 0 .. x
  BY <1>2
<1>5. x - 1 \in Nat /\ (x - 1) + 1 = x
  BY <1>4
<1>6. x - 1 \notin P
  BY <1>4, <1>5
<1>7. 0 .. x - 1 \in heads
  BY <1>5, <1>6
<1>8. 0 .. x - 1 \subseteq 0 .. x /\ x \in 0 .. x /\ x \notin 0 .. x - 1
  BY <1>5
<1>9. QED
  BY <1>3, <1>4, <1>7, <1>8

LEMMA Appended ==
  ASSUME NEW s, IsSequence(s), NEW e
  PROVE  /\ IsSequence(Append(s, e))
         /\ Len(Append(s, e)) = Len(s) + 1
         /\ Append(s, e)[Len(s) + 1] = e
         /\ \A j \in 1 .. Len(s) : Append(s, e)[j] = s[j]
<1>1. PICK S : s \in Seq(S)
  BY DEF IsSequence
<1>2. s \in Seq(S \cup {e}) /\ Len(s) \in Nat
  BY <1>1, SeqMonotonic, LenProperties
<1>3. QED
  BY <1>2 DEF IsSequence

-----------------------------------------------------------------------------
(* Blocks and chains                                                        *)

Fields == {"prev", "merkle", "seq", "payload", "accState", "witness", "check", "hash"}

(* What the chameleon hash of a block verifies.                             *)
IsBlock(b) == DOMAIN b = Fields /\ b.seq \in Nat /\ ChameleonVerify(b)

LinkedIn(ch, i) == ch[i].prev = IF i = 1 THEN GenesisHash ELSE Hash(ch[i - 1])

(* What the linkage of a block at a position is.                            *)
LinkBefore(ch, i) == IF i = 1 THEN GenesisHash ELSE Hash(ch[i - 1])

(* The blocks in the order of their sequence numbers.                       *)
Increasing(ch) ==
  /\ IsSequence(ch)
  /\ \A i \in 1 .. Len(ch) : IsBlock(ch[i])
  /\ \A i, j \in 1 .. Len(ch) : i < j => ch[i].seq < ch[j].seq

IsChain(ch) == Increasing(ch) /\ \A i \in 1 .. Len(ch) : LinkedIn(ch, i)

Numbered(ch) == \A i \in 1 .. Len(ch) : ch[i].seq = i - 1

(* The accumulator and the chain hold the same versions.                    *)
Accumulates(ch, acc) ==
  /\ \A i \in 1 .. Len(ch) : Element(ch[i]) \in acc
  /\ \A e \in acc : "seq" \in DOMAIN e => \E i \in 1 .. Len(ch) : Element(ch[i]) = e

(* Sealing a block changes its checking string alone, which then verifies.  *)
LEMMA SealedVerifies ==
  ASSUME NEW b, DOMAIN b = Fields, b.seq \in Nat
  PROVE  /\ IsBlock(Sealed(b))
         /\ Sealed(b).prev = b.prev /\ Sealed(b).hash = b.hash /\ Sealed(b).seq = b.seq
         /\ Element(Sealed(b)) = Element(b)
<1>1. PICK new : new = Sealed(b)
  OBVIOUS
<1>2. new = [b EXCEPT !.check = Checking(b.hash, Content(b))]
  BY <1>1 DEF Sealed
<1>3. /\ DOMAIN new = Fields
      /\ new.check = Checking(b.hash, Content(b))
      /\ \A f \in Fields : f # "check" => new[f] = b[f]
  BY <1>2 DEF Fields
<1>4. Content(new) = Content(b)
  BY <1>2 DEF Content, Fields
<1>5. new.prev = b.prev /\ new.hash = b.hash /\ new.seq = b.seq
      /\ new.merkle = b.merkle /\ new.payload = b.payload
  BY <1>3 DEF Fields
<1>6. QED
  BY <1>1, <1>3, <1>4, <1>5 DEF IsBlock, ChameleonVerify, Element

(* An element is of the block with its number.                              *)
LEMMA ElementsDiffer ==
  ASSUME NEW ch, Increasing(ch), NEW i \in 1 .. Len(ch), NEW j \in 1 .. Len(ch),
         Element(ch[i]).seq = Element(ch[j]).seq
  PROVE  i = j
<1>1. ch[i].seq = ch[j].seq /\ ch[i].seq \in Nat
  BY DEF Element, Increasing, IsBlock
<1>2. QED
  BY <1>1 DEF Increasing

-----------------------------------------------------------------------------
(* The first chain                                                          *)

(* What Setup has after each transaction.                                   *)
BuiltUpTo(n) ==
  CHOOSE built : built = [k \in 0 .. n |->
    IF k = 0 THEN [blocks |-> <<>>, set |-> {}]
    ELSE AppendBlock(built[k - 1].blocks, built[k - 1].set, Order[k])]

LEMMA BuiltDefined ==
  ASSUME NEW n \in Nat
  PROVE  BuiltUpTo(n) = [k \in 0 .. n |->
           IF k = 0 THEN [blocks |-> <<>>, set |-> {}]
           ELSE AppendBlock(BuiltUpTo(n)[k - 1].blocks, BuiltUpTo(n)[k - 1].set, Order[k])]
<1> DEFINE none == [blocks |-> <<>>, set |-> {}]
           P == {m \in Nat : \E f :
                    f = [k \in 0 .. m |-> IF k = 0 THEN none
                                          ELSE AppendBlock(f[k - 1].blocks, f[k - 1].set, Order[k])]}
<1> HIDE DEF none
<1>1. 0 \in P
  <2>1. PICK f : f = [k \in 0 .. 0 |-> none]
    OBVIOUS
  <2>2. f = [k \in 0 .. 0 |-> IF k = 0 THEN none
                              ELSE AppendBlock(f[k - 1].blocks, f[k - 1].set, Order[k])]
    BY <2>1
  <2>3. QED
    BY <2>2
<1>2. ASSUME NEW m \in Nat, m \in P
      PROVE  m + 1 \in P
  <2>1. PICK f : f = [k \in 0 .. m |-> IF k = 0 THEN none
                                       ELSE AppendBlock(f[k - 1].blocks, f[k - 1].set, Order[k])]
    BY <1>2
  <2>2. PICK g : g = [k \in 0 .. m + 1 |->
                        IF k = 0 THEN none
                        ELSE IF k <= m THEN f[k]
                        ELSE AppendBlock(f[m].blocks, f[m].set, Order[m + 1])]
    OBVIOUS
  <2>3. ASSUME NEW k \in 0 .. m + 1
        PROVE  g[k] = IF k = 0 THEN none
                      ELSE AppendBlock(g[k - 1].blocks, g[k - 1].set, Order[k])
    <3>1. CASE k = 0
      BY <3>1, <2>2
    <3>2. CASE k # 0
      <4>1. /\ k - 1 \in 0 .. m /\ k - 1 \in 0 .. m + 1 /\ k - 1 <= m
            /\ k <= m \/ (k - 1 = m /\ k = m + 1)
        BY <3>2
      <4>2. g[k - 1] = f[k - 1]
        BY <4>1, <2>1, <2>2
      <4>3. CASE k <= m
        BY <4>1, <4>2, <4>3, <3>2, <2>1, <2>2
      <4>4. CASE ~(k <= m)
        BY <4>1, <4>2, <4>4, <3>2, <2>2
      <4>5. QED
        BY <4>3, <4>4
    <3>3. QED
      BY <3>1, <3>2
  <2>4. g = [k \in 0 .. m + 1 |-> IF k = 0 THEN none
                                  ELSE AppendBlock(g[k - 1].blocks, g[k - 1].set, Order[k])]
    BY <2>2, <2>3
  <2>5. QED
    BY <2>4
<1>3. n \in P
  <2> HIDE DEF P
  <2>1. QED
    BY <1>1, <1>2, SetInduction
<1>4. QED
  BY <1>3 DEF BuiltUpTo, none

(* Append, to a chain whose versions are accumulated.                       *)
LEMMA BlockAppended ==
  ASSUME NEW ch, NEW set, NEW tx, IsChain(ch), Numbered(ch), Accumulates(ch, set)
  PROVE  LET new == AppendBlock(ch, set, tx)
         IN  /\ IsChain(new.blocks) /\ Numbered(new.blocks)
             /\ Len(new.blocks) = Len(ch) + 1
             /\ Accumulates(new.blocks, new.set)
<1> DEFINE after == AppendBlock(ch, set, tx)
           first == [prev |-> IF ch = <<>> THEN GenesisHash ELSE Hash(Last(ch)),
                     merkle |-> tx, seq |-> Len(ch), payload |-> Original,
                     accState |-> {}, witness |-> {}, check |-> Nothing, hash |-> Len(ch)]
           open == [first EXCEPT !.accState = AccAdd(set, Element(first)), !.witness = set]
           block == Sealed(open)
<1>1. after = [blocks |-> Append(ch, block), set |-> AccAdd(set, Element(first))]
  BY DEF AppendBlock
<1>2. Len(ch) \in Nat /\ IsSequence(ch)
  BY SequenceFacts DEF IsChain, Increasing
<1>3. /\ DOMAIN open = Fields /\ open.seq = Len(ch) /\ open.prev = first.prev
      /\ open.seq \in Nat /\ Element(open) = Element(first)
  BY <1>2 DEF Fields, Element
<1>4. /\ IsBlock(block) /\ block.seq = Len(ch) /\ block.prev = first.prev
      /\ Element(block) = Element(first)
  <2> HIDE DEF open
  <2>1. QED
    BY <1>3, SealedVerifies
<1>5. first.prev = IF Len(ch) + 1 = 1 THEN GenesisHash ELSE Hash(ch[Len(ch)])
  BY <1>2, EmptySeq DEF Last, IsSequence
<1> HIDE DEF open, first, block
<1> DEFINE new == Append(ch, block)
<1>6. /\ IsSequence(new) /\ Len(new) = Len(ch) + 1 /\ new[Len(ch) + 1] = block
      /\ \A j \in 1 .. Len(ch) : new[j] = ch[j]
  BY <1>2, Appended
<1>7. after.blocks = new /\ after.set = AccAdd(set, Element(block))
  BY <1>1, <1>4
<1> HIDE DEF new, after
<1>8. \A i \in 1 .. Len(new) : i \in 1 .. Len(ch) \/ i = Len(ch) + 1
  BY <1>2, <1>6
<1>9. Numbered(new)
  BY <1>2, <1>4, <1>6, <1>8 DEF Numbered
<1>10. Increasing(new)
  <2>1. \A i \in 1 .. Len(new) : IsBlock(new[i])
    BY <1>4, <1>6, <1>8 DEF IsChain, Increasing
  <2>2. \A i, j \in 1 .. Len(new) : i < j => new[i].seq < new[j].seq
    BY <1>9, <1>6, <1>2 DEF Numbered
  <2>3. QED
    BY <1>6, <2>1, <2>2 DEF Increasing
<1>11. ASSUME NEW i \in 1 .. Len(new)
       PROVE  LinkedIn(new, i)
  <2>1. CASE i \in 1 .. Len(ch)
    <3>1. i = 1 \/ i - 1 \in 1 .. Len(ch)
      BY <2>1, <1>2
    <3>2. QED
      BY <2>1, <3>1, <1>6 DEF LinkedIn, IsChain
  <2>2. CASE i = Len(ch) + 1
    <3>1. i = 1 \/ (i - 1 \in 1 .. Len(ch) /\ i - 1 = Len(ch))
      BY <2>2, <1>2
    <3>2. QED
      BY <2>2, <3>1, <1>4, <1>5, <1>6 DEF LinkedIn
  <2>3. QED
    BY <2>1, <2>2, <1>8
<1>12. Accumulates(new, AccAdd(set, Element(block)))
  BY <1>2, <1>6, <1>8 DEF Accumulates, AccAdd
<1>13. QED
  BY <1>6, <1>7, <1>9, <1>10, <1>11, <1>12 DEF IsChain, after

(* The chain Setup builds, over any dataset.                                *)
LEMMA ChainBuilt ==
  ASSUME OrderedDataset
  PROVE  IsChain(Built.blocks) /\ Numbered(Built.blocks) /\ Accumulates(Built.blocks, Built.set)
<1> DEFINE n == Len(Order)
           built == BuiltUpTo(n)
           Good(x) == IsChain(x.blocks) /\ Numbered(x.blocks) /\ Accumulates(x.blocks, x.set)
<1>1. n \in Nat
  BY LenProperties DEF OrderedDataset
<1>2. built = [k \in 0 .. n |->
         IF k = 0 THEN [blocks |-> <<>>, set |-> {}]
         ELSE AppendBlock(built[k - 1].blocks, built[k - 1].set, Order[k])]
  BY <1>1, BuiltDefined
<1>3. Built = built[n]
  BY DEF Built, BuiltUpTo
<1> HIDE DEF built
<1>4. /\ built[0] = [blocks |-> <<>>, set |-> {}]
      /\ \A k \in 1 .. n : built[k] = AppendBlock(built[k - 1].blocks, built[k - 1].set, Order[k])
  <2>1. /\ 0 \in 0 .. n
        /\ \A k \in 1 .. n : k \in 0 .. n /\ k # 0
    BY <1>1
  <2>2. \A k \in 0 .. n :
          built[k] = IF k = 0 THEN [blocks |-> <<>>, set |-> {}]
                     ELSE AppendBlock(built[k - 1].blocks, built[k - 1].set, Order[k])
    BY <1>2, Zenon
  <2>3. QED
    BY <2>1, <2>2, Zenon
<1>5. Good(built[0])
  <2>1. IsSequence(<<>>) /\ Len(<<>>) = 0
    BY EmptySeq DEF IsSequence
  <2>2. QED
    BY <1>4, <2>1 DEF IsChain, Increasing, Numbered, Accumulates
<1> DEFINE P == {m \in Nat : m <= n => Good(built[m])}
<1>6. 0 \in P
  BY <1>5
<1>7. ASSUME NEW m \in Nat, m \in P
      PROVE  m + 1 \in P
  <2> SUFFICES ASSUME m + 1 <= n
               PROVE  Good(built[m + 1])
    OBVIOUS
  <2>1. m <= n /\ m + 1 \in 1 .. n /\ (m + 1) - 1 = m
    BY <1>1
  <2>2. PICK ch, set : ch = built[m].blocks /\ set = built[m].set
    OBVIOUS
  <2>3. built[m + 1] = AppendBlock(ch, set, Order[m + 1])
    BY <1>4, <2>1, <2>2
  <2>4. IsChain(ch) /\ Numbered(ch) /\ Accumulates(ch, set)
    BY <1>7, <2>1, <2>2
  <2>5. QED
    BY <2>3, <2>4, BlockAppended
<1>8. n \in P
  <2> HIDE DEF P
  <2>1. QED
    BY <1>1, <1>6, <1>7, SetInduction
<1>9. QED
  BY <1>1, <1>3, <1>8

-----------------------------------------------------------------------------
(* What a deletion leaves                                                   *)

(* One more block, behind those left of the ones before it.                 *)
Keep(ch, removed, kept, k) ==
  IF ch[k].seq \in removed THEN kept ELSE Append(kept, ch[k])

(* The blocks left of the first n.                                          *)
KeptOf(ch, removed, n) ==
  CHOOSE kept : kept = [k \in 0 .. n |->
    IF k = 0 THEN <<>>
    ELSE Keep(ch, removed, kept[k - 1], k)]

LEMMA KeptDefined ==
  ASSUME NEW ch, NEW removed, NEW n \in Nat
  PROVE  KeptOf(ch, removed, n) = [k \in 0 .. n |->
           IF k = 0 THEN <<>>
           ELSE Keep(ch, removed, KeptOf(ch, removed, n)[k - 1], k)]
<1> DEFINE P == {m \in Nat : \E f :
                    f = [k \in 0 .. m |-> IF k = 0 THEN <<>>
                                          ELSE Keep(ch, removed, f[k - 1], k)]}
<1>1. 0 \in P
  <2>1. PICK f : f = [k \in 0 .. 0 |-> <<>>]
    OBVIOUS
  <2>2. f = [k \in 0 .. 0 |-> IF k = 0 THEN <<>>
                              ELSE Keep(ch, removed, f[k - 1], k)]
    BY <2>1
  <2>3. QED
    BY <2>2
<1>2. ASSUME NEW m \in Nat, m \in P
      PROVE  m + 1 \in P
  <2>1. PICK f : f = [k \in 0 .. m |-> IF k = 0 THEN <<>>
                                       ELSE Keep(ch, removed, f[k - 1], k)]
    BY <1>2
  <2>2. PICK g : g = [k \in 0 .. m + 1 |->
                        IF k = 0 THEN <<>>
                        ELSE IF k <= m THEN f[k]
                        ELSE Keep(ch, removed, f[m], m + 1)]
    OBVIOUS
  <2>3. ASSUME NEW k \in 0 .. m + 1
        PROVE  g[k] = IF k = 0 THEN <<>>
                      ELSE Keep(ch, removed, g[k - 1], k)
    <3>1. CASE k = 0
      BY <3>1, <2>2
    <3>2. CASE k # 0
      <4>1. /\ k - 1 \in 0 .. m /\ k - 1 \in 0 .. m + 1 /\ k - 1 <= m
            /\ k <= m \/ (k - 1 = m /\ k = m + 1)
        BY <3>2
      <4>2. g[k - 1] = f[k - 1]
        BY <4>1, <2>1, <2>2
      <4>3. CASE k <= m
        BY <4>1, <4>2, <4>3, <3>2, <2>1, <2>2
      <4>4. CASE ~(k <= m)
        BY <4>1, <4>2, <4>4, <3>2, <2>2
      <4>5. QED
        BY <4>3, <4>4
    <3>3. QED
      BY <3>1, <3>2
  <2>4. g = [k \in 0 .. m + 1 |-> IF k = 0 THEN <<>>
                                  ELSE Keep(ch, removed, g[k - 1], k)]
    BY <2>2, <2>3
  <2>5. QED
    BY <2>4
<1>3. n \in P
  <2> HIDE DEF P
  <2>1. QED
    BY <1>1, <1>2, SetInduction
<1>4. QED
  BY <1>3 DEF KeptOf

(* kept has the blocks of the first n that are not removed, in their order. *)
KeepsOf(kept, ch, removed, n) ==
  /\ Increasing(kept) /\ Len(kept) <= n
  /\ \A i \in 1 .. Len(kept) : kept[i].seq \notin removed /\ \E j \in 1 .. n : kept[i] = ch[j]
  /\ \A j \in 1 .. n : ch[j].seq \notin removed => \E i \in 1 .. Len(kept) : kept[i] = ch[j]

LEMMA OneMoreKept ==
  ASSUME NEW ch, Increasing(ch), NEW removed, NEW m \in Nat, m + 1 \in 1 .. Len(ch),
         NEW kept, KeepsOf(kept, ch, removed, m), ch[m + 1].seq \notin removed
  PROVE  KeepsOf(Append(kept, ch[m + 1]), ch, removed, m + 1)
<1>1. PICK new, b : new = Append(kept, ch[m + 1]) /\ b = ch[m + 1]
  OBVIOUS
<1>2. IsSequence(kept) /\ Len(kept) \in Nat
  BY SequenceFacts DEF KeepsOf, Increasing
<1>3. /\ IsSequence(new) /\ Len(new) = Len(kept) + 1 /\ new[Len(kept) + 1] = b
      /\ \A i \in 1 .. Len(kept) : new[i] = kept[i]
  BY <1>1, <1>2, Appended
<1>4. \A i \in 1 .. Len(new) : i \in 1 .. Len(kept) \/ i = Len(kept) + 1
  BY <1>2, <1>3
<1>5. /\ \A j \in 1 .. m : j \in 1 .. Len(ch) /\ j < m + 1 /\ j \in 1 .. m + 1
      /\ \A j \in 1 .. m + 1 : j \in 1 .. m \/ j = m + 1
  <2>1. Len(ch) \in Nat
    BY SequenceFacts DEF Increasing
  <2>2. QED
    BY <2>1
<1>6. IsBlock(b) /\ b.seq \notin removed /\ b.seq \in Nat
  BY <1>1 DEF Increasing, IsBlock
<1>7. \A i \in 1 .. Len(kept) : IsBlock(kept[i]) /\ kept[i].seq < b.seq
  <2> SUFFICES ASSUME NEW i \in 1 .. Len(kept)
               PROVE  IsBlock(kept[i]) /\ kept[i].seq < b.seq
    OBVIOUS
  <2>1. PICK j \in 1 .. m : kept[i] = ch[j]
    BY DEF KeepsOf
  <2>2. QED
    BY <2>1, <1>1, <1>5 DEF Increasing
<1>8. \A i \in 1 .. Len(new) : IsBlock(new[i])
  BY <1>3, <1>4, <1>6, <1>7
<1>9. ASSUME NEW i \in 1 .. Len(new), NEW j \in 1 .. Len(new), i < j
      PROVE  new[i].seq < new[j].seq
  <2>1. i \in 1 .. Len(kept)
    BY <1>2, <1>3, <1>9
  <2>2. CASE j \in 1 .. Len(kept)
    BY <2>1, <2>2, <1>3, <1>9 DEF KeepsOf, Increasing
  <2>3. CASE j = Len(kept) + 1
    BY <2>1, <2>3, <1>3, <1>7
  <2>4. QED
    BY <2>2, <2>3, <1>4
<1>10. Increasing(new)
  BY <1>3, <1>8, <1>9 DEF Increasing
<1>11. ASSUME NEW i \in 1 .. Len(new)
       PROVE  new[i].seq \notin removed /\ \E j \in 1 .. m + 1 : new[i] = ch[j]
  <2>1. CASE i \in 1 .. Len(kept)
    BY <2>1, <1>3, <1>5 DEF KeepsOf
  <2>2. CASE i = Len(kept) + 1
    BY <2>2, <1>1, <1>3, <1>6
  <2>3. QED
    BY <2>1, <2>2, <1>4
<1>12. ASSUME NEW j \in 1 .. m + 1, ch[j].seq \notin removed
       PROVE  \E i \in 1 .. Len(new) : new[i] = ch[j]
  <2>1. CASE j \in 1 .. m
    <3>1. PICK i \in 1 .. Len(kept) : kept[i] = ch[j]
      BY <2>1, <1>12 DEF KeepsOf
    <3>2. i \in 1 .. Len(new) /\ new[i] = ch[j]
      BY <3>1, <1>2, <1>3
    <3>3. QED
      BY <3>2
  <2>2. CASE j = m + 1
    <3>1. Len(kept) + 1 \in 1 .. Len(new)
      BY <1>2, <1>3
    <3>2. QED
      BY <3>1, <2>2, <1>1, <1>3
  <2>3. QED
    BY <2>1, <2>2, <1>5
<1>13. QED
  BY <1>1, <1>2, <1>3, <1>10, <1>11, <1>12 DEF KeepsOf

LEMMA SurvivorsKept ==
  ASSUME Increasing(blocks), NEW removed
  PROVE  KeepsOf(Survivors(removed), blocks, removed, Len(blocks))
<1> DEFINE n == Len(blocks)
           kept == KeptOf(blocks, removed, n)
<1>1. n \in Nat
  BY SequenceFacts DEF Increasing
<1>2. kept = [k \in 0 .. n |->
         IF k = 0 THEN <<>> ELSE Keep(blocks, removed, kept[k - 1], k)]
  BY <1>1, KeptDefined
<1>3. Survivors(removed) = kept[n]
  BY DEF Survivors, KeptOf, Keep
<1> HIDE DEF kept
<1>4. /\ kept[0] = <<>>
      /\ \A k \in 1 .. n : kept[k] = Keep(blocks, removed, kept[k - 1], k)
  <2>1. /\ 0 \in 0 .. n
        /\ \A k \in 1 .. n : k \in 0 .. n /\ k # 0
    BY <1>1
  <2>2. \A k \in 0 .. n :
          kept[k] = IF k = 0 THEN <<>> ELSE Keep(blocks, removed, kept[k - 1], k)
    BY <1>2, Zenon
  <2>3. QED
    BY <2>1, <2>2, Zenon
<1> DEFINE P == {m \in Nat : m <= n => KeepsOf(kept[m], blocks, removed, m)}
<1>5. 0 \in P
  <2>1. IsSequence(<<>>) /\ Len(<<>>) = 0
    BY EmptySeq DEF IsSequence
  <2>2. QED
    BY <1>4, <2>1 DEF KeepsOf, Increasing
<1>6. ASSUME NEW m \in Nat, m \in P
      PROVE  m + 1 \in P
  <2> SUFFICES ASSUME m + 1 <= n
               PROVE  KeepsOf(kept[m + 1], blocks, removed, m + 1)
    OBVIOUS
  <2>1. m <= n /\ m + 1 \in 1 .. n /\ (m + 1) - 1 = m
    BY <1>1
  <2>2. PICK old : old = kept[m]
    OBVIOUS
  <2>3. KeepsOf(old, blocks, removed, m)
    BY <1>6, <2>1, <2>2
  <2>4. kept[m + 1] = IF blocks[m + 1].seq \in removed THEN old ELSE Append(old, blocks[m + 1])
    BY <1>4, <2>1, <2>2 DEF Keep
  <2>5. CASE blocks[m + 1].seq \in removed
    <3>1. \A j \in 1 .. m : j \in 1 .. m + 1
      OBVIOUS
    <3>2. \A j \in 1 .. m + 1 : j \in 1 .. m \/ j = m + 1
      OBVIOUS
    <3>3. QED
      BY <2>3, <2>4, <2>5, <3>1, <3>2, SequenceFacts DEF KeepsOf, Increasing
  <2>6. CASE blocks[m + 1].seq \notin removed
    BY <2>1, <2>3, <2>4, <2>6, OneMoreKept
  <2>7. QED
    BY <2>5, <2>6
<1>7. n \in P
  <2> HIDE DEF P
  <2>1. QED
    BY <1>1, <1>5, <1>6, SetInduction
<1>8. QED
  BY <1>1, <1>3, <1>7

-----------------------------------------------------------------------------
(* Re-linking                                                               *)

(* A position that goes and is followed by one that stays ends a run.       *)
LEMMA RunEndingAt ==
  ASSUME NEW positions, positions \subseteq Nat, NEW s \in positions, s + 1 \notin positions
  PROVE  \E run \in ConsecutiveRuns(positions) : run[2] = s
<1> SUFFICES ASSUME \A run \in ConsecutiveRuns(positions) : run[2] # s
             PROVE  FALSE
  OBVIOUS
<1> DEFINE P == {k \in Nat : k <= s => s - k .. s \subseteq positions}
<1>1. s \in Nat
  OBVIOUS
<1>2. ASSUME NEW f \in positions, f <= s, f .. s \subseteq positions
      PROVE  f - 1 \in positions
  <2>1. PICK run : run = <<f, s>>
    OBVIOUS
  <2>2. run \in positions \X positions /\ run[1] = f /\ run[2] = s
    BY <2>1
  <2>3. run \notin ConsecutiveRuns(positions)
    BY <2>2
  <2>4. PICK p \in positions : p + 1 = f
    BY <1>2, <2>2, <2>3 DEF ConsecutiveRuns
  <2>5. p \in Nat /\ f \in Nat
    OBVIOUS
  <2>6. p = f - 1
    BY <2>4, <2>5
  <2>7. QED
    BY <2>6
<1>3. 0 \in P
  <2>1. s - 0 .. s = {s}
    BY <1>1
  <2>2. QED
    BY <2>1
<1>4. ASSUME NEW k \in Nat, k \in P
      PROVE  k + 1 \in P
  <2> SUFFICES ASSUME k + 1 <= s
               PROVE  s - (k + 1) .. s \subseteq positions
    OBVIOUS
  <2>1. PICK f : f = s - k
    OBVIOUS
  <2>2. f \in Nat /\ f <= s /\ f \in f .. s /\ k <= s /\ s - (k + 1) = f - 1
    BY <1>1, <2>1
  <2>3. f .. s \subseteq positions
    BY <1>4, <2>1, <2>2
  <2>4. f - 1 \in positions
    BY <1>2, <2>2, <2>3
  <2>5. \A x \in f - 1 .. s : x = f - 1 \/ x \in f .. s
    BY <1>1, <2>2
  <2>6. QED
    BY <2>2, <2>3, <2>4, <2>5
<1>5. s \in P
  <2> HIDE DEF P
  <2>1. QED
    BY <1>1, <1>3, <1>4, SetInduction
<1>6. 0 .. s \subseteq positions /\ 0 \in 0 .. s
  <2>1. s <= s /\ s - s = 0
    BY <1>1
  <2>2. QED
    BY <1>1, <1>5, <2>1
<1>7. 0 - 1 \in positions
  BY <1>1, <1>2, <1>6
<1>8. QED
  BY <1>7

(* The hash a run's successor takes is that of the block it now follows.    *)
LEMMA PredecessorPrecedes ==
  ASSUME NEW positions, positions \subseteq Nat, NEW run \in ConsecutiveRuns(positions),
         NEW kept, Increasing(kept), \A j \in 1 .. Len(kept) : kept[j].seq \notin positions,
         NEW i \in SuccessorOf(kept, run)
  PROVE  PredecessorHash(kept, run[1]) = LinkBefore(kept, i)
<1>1. Len(kept) \in Nat /\ DOMAIN kept = 1 .. Len(kept)
  BY SequenceFacts DEF Increasing
<1>2. /\ run[1] \in Nat /\ run[2] \in Nat /\ run[1] <= run[2]
      /\ run[1] .. run[2] \subseteq positions
  BY DEF ConsecutiveRuns
<1>3. /\ i \in 1 .. Len(kept) /\ kept[i].seq > run[2]
      /\ \A j \in 1 .. i - 1 : kept[j].seq < run[2]
  BY <1>1 DEF SuccessorOf
<1>4. \A j \in 1 .. Len(kept) : kept[j].seq \in Nat
  BY DEF Increasing, IsBlock
<1> DEFINE before == {j \in DOMAIN kept : kept[j].seq < run[1]}
<1>5. ASSUME NEW j \in 1 .. Len(kept)
      PROVE  j \in before <=> j <= i - 1
  <2>1. CASE j <= i - 1
    <3>1. j \in 1 .. i - 1
      BY <2>1, <1>1
    <3>2. kept[j].seq < run[2] /\ kept[j].seq \notin run[1] .. run[2]
      BY <1>2, <1>3, <3>1
    <3>3. kept[j].seq < run[1]
      BY <1>2, <1>4, <3>2
    <3>4. QED
      BY <1>1, <2>1, <3>3
  <2>2. CASE ~(j <= i - 1)
    <3>1. i = j \/ i < j
      BY <2>2, <1>1, <1>3
    <3>2. i = j \/ kept[i].seq < kept[j].seq
      BY <3>1, <1>3 DEF Increasing
    <3>3. ~(kept[j].seq < run[1])
      BY <1>2, <1>3, <1>4, <3>2
    <3>4. QED
      BY <2>2, <3>3
  <2>3. QED
    BY <2>1, <2>2
<1>6. CASE i = 1
  <2>1. before = {}
    BY <1>1, <1>5, <1>6
  <2>2. QED
    BY <1>6, <2>1 DEF PredecessorHash, LinkBefore
<1>7. CASE i # 1
  <2>1. i - 1 \in 1 .. Len(kept)
    BY <1>1, <1>3, <1>7
  <2>2. i - 1 \in before /\ \A j \in before : j <= i - 1
    BY <1>1, <1>5, <2>1
  <2>3. \A k \in before : (\A j \in before : j <= k) => k = i - 1
    <3>1. \A k \in before : k \in Nat
      BY <1>1
    <3>2. QED
      BY <2>1, <2>2, <3>1
  <2>4. (CHOOSE k \in before : \A j \in before : j <= k) = i - 1
    BY <2>2, <2>3
  <2>5. before # {}
    BY <2>2
  <2>6. PredecessorHash(kept, run[1]) =
          Hash(kept[CHOOSE k \in before : \A j \in before : j <= k])
    BY <2>5, Zenon DEF PredecessorHash
  <2>7. QED
    BY <1>7, <2>4, <2>6, Zenon DEF LinkBefore
<1>8. QED
  BY <1>6, <1>7

(* A block that follows no run still follows the block it was linked to.    *)
LEMMA OthersStayLinked ==
  ASSUME IsChain(blocks), Numbered(blocks), NEW positions, positions \subseteq Nat,
         NEW kept, KeepsOf(kept, blocks, positions, Len(blocks)),
         NEW i \in 1 .. Len(kept),
         \A run \in ConsecutiveRuns(positions) : i \notin SuccessorOf(kept, run)
  PROVE  LinkedIn(kept, i)
<1>1. /\ Len(kept) \in Nat /\ DOMAIN kept = 1 .. Len(kept)
      /\ Len(blocks) \in Nat
  BY SequenceFacts DEF KeepsOf, IsChain, Increasing
<1>2. \A j \in 1 .. Len(kept) : kept[j].seq \in Nat /\ kept[j].seq \notin positions
  BY DEF KeepsOf, Increasing, IsBlock
<1>3. PICK m \in 1 .. Len(blocks) : kept[i] = blocks[m]
  BY DEF KeepsOf
<1>4. kept[i].seq = m - 1
  BY <1>3 DEF Numbered
<1>5. kept[i].prev = IF m = 1 THEN GenesisHash ELSE Hash(blocks[m - 1])
  BY <1>3 DEF IsChain, LinkedIn
<1>6. CASE m = 1
  <2>1. ASSUME i # 1
        PROVE  FALSE
    <3>1. 1 \in 1 .. Len(kept) /\ 1 < i
      BY <1>1, <2>1
    <3>2. kept[1].seq < kept[i].seq /\ kept[1].seq \in Nat
      BY <1>2, <3>1 DEF KeepsOf, Increasing
    <3>3. QED
      BY <3>2, <1>4, <1>6
  <2>2. QED
    BY <2>1, <1>5, <1>6 DEF LinkedIn
<1>7. CASE m # 1
  <2>1. PICK p : p = m - 1
    OBVIOUS
  <2>2. p \in 1 .. Len(blocks) /\ p \in Nat /\ p - 1 \in Nat /\ p = (p - 1) + 1 /\ kept[i].seq = p
    BY <2>1, <1>1, <1>4, <1>7
  <2>3. blocks[p].seq = p - 1
    BY <2>2 DEF Numbered
  <2>4. \A j \in 1 .. i - 1 : j \in 1 .. Len(kept) /\ kept[j].seq \in Nat /\ kept[j].seq < p
    <3> SUFFICES ASSUME NEW j \in 1 .. i - 1
                 PROVE  j \in 1 .. Len(kept) /\ kept[j].seq \in Nat /\ kept[j].seq < p
      OBVIOUS
    <3>1. j \in 1 .. Len(kept) /\ j < i
      BY <1>1
    <3>2. QED
      BY <3>1, <1>2, <2>2 DEF KeepsOf, Increasing
  <2>5. ASSUME p - 1 \in positions
        PROVE  FALSE
    <3>1. (p - 1) + 1 \notin positions
      BY <1>2, <2>2
    <3>2. PICK run \in ConsecutiveRuns(positions) : run[2] = p - 1
      BY <2>5, <3>1, RunEndingAt
    <3>3. \A j \in 1 .. i - 1 : kept[j].seq < p - 1
      <4> SUFFICES ASSUME NEW j \in 1 .. i - 1
                   PROVE  kept[j].seq < p - 1
        OBVIOUS
      <4>1. PICK q : q = kept[j].seq
        OBVIOUS
      <4>2. q \in Nat /\ q < p /\ q # p - 1
        BY <2>4, <4>1, <1>2, <2>5
      <4>3. q < p - 1
        BY <4>2, <2>2
      <4>4. QED
        BY <4>1, <4>3
    <3>4. kept[i].seq > run[2]
      BY <2>2, <3>2
    <3>5. i \in SuccessorOf(kept, run)
      BY <1>1, <3>2, <3>3, <3>4 DEF SuccessorOf
    <3>6. QED
      BY <3>5
  <2>6. PICK k \in 1 .. Len(kept) : kept[k] = blocks[p]
    BY <2>2, <2>3, <2>5 DEF KeepsOf
  <2>7. k < i
    <3>1. ASSUME i < k
          PROVE  FALSE
      <4>1. kept[i].seq < kept[k].seq
        BY <3>1 DEF KeepsOf, Increasing
      <4>2. QED
        BY <4>1, <2>2, <2>3, <2>6
    <3>2. i # k
      BY <2>2, <2>3, <2>6
    <3>3. QED
      BY <3>1, <3>2, <1>1
  <2>8. ASSUME k < i - 1
        PROVE  FALSE
    <3>1. i - 1 \in 1 .. Len(kept) /\ i - 1 \in 1 .. i - 1
      BY <1>1, <2>8
    <3>2. kept[k].seq < kept[i - 1].seq
      BY <3>1, <2>8 DEF KeepsOf, Increasing
    <3>3. PICK q : q = kept[i - 1].seq
      OBVIOUS
    <3>4. q \in Nat /\ q < p /\ p - 1 < q
      BY <2>3, <2>4, <2>6, <3>1, <3>2, <3>3
    <3>5. QED
      BY <3>4, <2>2
  <2>9. k = i - 1 /\ i # 1
    BY <2>7, <2>8, <1>1
  <2>10. QED
    BY <2>1, <2>6, <2>9, <1>5, <1>7 DEF LinkedIn
<1>8. QED
  BY <1>6, <1>7


(* One block of Relinked.                                                   *)
Relink(kept, runs, i) ==
  LET before == {run \in runs : i \in SuccessorOf(kept, run)}
  IN  IF before = {} THEN kept[i]
      ELSE Sealed([kept[i] EXCEPT
              !.prev = PredecessorHash(kept, (CHOOSE run \in before : TRUE)[1])])

(* It follows the block before it, and is otherwise as it was.              *)
IsRelinked(b, kept, i) ==
  /\ IsBlock(b) /\ b.seq = kept[i].seq /\ b.hash = kept[i].hash
  /\ Element(b) = Element(kept[i])
  /\ b.prev = LinkBefore(kept, i)

LEMMA BlockRelinked ==
  ASSUME IsChain(blocks), Numbered(blocks), NEW positions, positions \subseteq Nat,
         NEW kept, KeepsOf(kept, blocks, positions, Len(blocks)), NEW i \in 1 .. Len(kept)
  PROVE  IsRelinked(Relink(kept, ConsecutiveRuns(positions), i), kept, i)
<1> DEFINE before == {run \in ConsecutiveRuns(positions) : i \in SuccessorOf(kept, run)}
           b == Relink(kept, ConsecutiveRuns(positions), i)
<1>1. Increasing(kept) /\ \A j \in 1 .. Len(kept) : kept[j].seq \notin positions
  BY DEF KeepsOf
<1>2. IsBlock(kept[i])
  BY <1>1 DEF Increasing
<1>3. CASE before = {}
  <2>1. b = kept[i]
    BY <1>3 DEF Relink
  <2>2. LinkedIn(kept, i)
    BY <1>3, OthersStayLinked
  <2>3. QED
    BY <1>2, <2>1, <2>2 DEF LinkedIn, LinkBefore, IsRelinked
<1>4. CASE before # {}
  <2>1. PICK run : run = CHOOSE r \in before : TRUE
    OBVIOUS
  <2>2. run \in ConsecutiveRuns(positions) /\ i \in SuccessorOf(kept, run)
    BY <1>4, <2>1
  <2>3. PICK link : link = PredecessorHash(kept, run[1])
    OBVIOUS
  <2>4. link = LinkBefore(kept, i)
    <3>1. PredecessorHash(kept, run[1]) = LinkBefore(kept, i)
      BY <1>1, <2>2, PredecessorPrecedes, Zenon
    <3>2. QED
      BY <2>3, <3>1, Zenon
  <2>5. PICK open : open = [kept[i] EXCEPT !.prev = link]
    OBVIOUS
  <2>6. b = Sealed(open)
    <3>1. b = Sealed([kept[i] EXCEPT
                 !.prev = PredecessorHash(kept, (CHOOSE r \in before : TRUE)[1])])
      BY <1>4, Zenon DEF Relink
    <3>2. QED
      BY <2>1, <2>3, <2>5, <3>1, Zenon
  <2>7. /\ DOMAIN open = Fields /\ open.prev = link
        /\ \A f \in Fields : f # "prev" => open[f] = kept[i][f]
    BY <1>2, <2>5 DEF IsBlock, Fields
  <2>8. /\ open.seq = kept[i].seq /\ open.hash = kept[i].hash /\ open.seq \in Nat
        /\ open.merkle = kept[i].merkle /\ open.payload = kept[i].payload
    BY <1>2, <2>7 DEF IsBlock, Fields
  <2>9. Element(open) = Element(kept[i])
    BY <2>8 DEF Element
  <2>10. QED
    BY <2>4, <2>6, <2>7, <2>8, <2>9, SealedVerifies DEF IsRelinked
<1>5. QED
  BY <1>3, <1>4

SameVersions(new, kept) ==
  /\ Len(new) = Len(kept)
  /\ \A i \in 1 .. Len(kept) :
       /\ new[i].seq = kept[i].seq /\ new[i].hash = kept[i].hash
       /\ Element(new[i]) = Element(kept[i])

LEMMA RelinkedChain ==
  ASSUME IsChain(blocks), Numbered(blocks), NEW positions, positions \subseteq Nat,
         NEW kept, KeepsOf(kept, blocks, positions, Len(blocks))
  PROVE  /\ IsChain(Relinked(kept, ConsecutiveRuns(positions)))
         /\ SameVersions(Relinked(kept, ConsecutiveRuns(positions)), kept)
<1> DEFINE runs == ConsecutiveRuns(positions)
<1>1. Len(kept) \in Nat /\ DOMAIN kept = 1 .. Len(kept)
  BY SequenceFacts DEF KeepsOf, Increasing
<1>2. PICK new : new = Relinked(kept, runs)
  OBVIOUS
<1>3. new = [i \in DOMAIN kept |-> Relink(kept, runs, i)]
  BY <1>2 DEF Relinked, Relink
<1>4. new \in [1 .. Len(kept) -> {Relink(kept, runs, i) : i \in 1 .. Len(kept)}]
  BY <1>1, <1>3
<1>5. IsSequence(new) /\ Len(new) = Len(kept)
  BY <1>1, <1>4, FunctionIsSequence
<1>6. ASSUME NEW i \in 1 .. Len(kept)
      PROVE  /\ IsBlock(new[i]) /\ new[i].seq = kept[i].seq /\ new[i].hash = kept[i].hash
             /\ Element(new[i]) = Element(kept[i])
             /\ new[i].prev = LinkBefore(kept, i)
  <2>1. new[i] = Relink(kept, runs, i)
    BY <1>1, <1>3
  <2>2. PICK b : b = Relink(kept, runs, i)
    OBVIOUS
  <2>3. IsRelinked(b, kept, i)
    BY <2>2, BlockRelinked
  <2>4. QED
    BY <2>1, <2>2, <2>3 DEF IsRelinked
<1>7. Increasing(new)
  BY <1>5, <1>6 DEF Increasing, KeepsOf
<1>8. ASSUME NEW i \in 1 .. Len(new)
      PROVE  LinkedIn(new, i)
  <2>1. i \in 1 .. Len(kept) /\ (i = 1 \/ i - 1 \in 1 .. Len(kept))
    BY <1>1, <1>5
  <2>2. CASE i = 1
    BY <1>6, <2>1, <2>2 DEF LinkedIn, LinkBefore
  <2>3. CASE i # 1
    <3>1. i - 1 \in 1 .. Len(kept)
      BY <2>1, <2>3
    <3>2. new[i - 1].hash = kept[i - 1].hash
      BY <1>6, <3>1
    <3>3. QED
      BY <1>6, <2>1, <2>3, <3>2 DEF LinkedIn, LinkBefore, Hash
  <2>4. QED
    BY <2>2, <2>3
<1>9. QED
  BY <1>2, <1>5, <1>6, <1>7, <1>8 DEF IsChain, SameVersions

-----------------------------------------------------------------------------
(* Modify                                                                   *)

Exchange(ch, i, b) == [ch EXCEPT ![i] = b]

(* Another version of a block under the same hash leaves the chain a chain. *)
LEMMA BlockExchanged ==
  ASSUME NEW ch, IsChain(ch), NEW i \in 1 .. Len(ch), NEW b, IsBlock(b),
         b.prev = ch[i].prev, b.hash = ch[i].hash, b.seq = ch[i].seq
  PROVE  LET new == Exchange(ch, i, b)
         IN  /\ IsChain(new) /\ Len(new) = Len(ch) /\ new[i] = b
             /\ \A j \in 1 .. Len(ch) : (j # i => new[j] = ch[j]) /\ new[j].seq = ch[j].seq
<1>1. PICK S : ch \in Seq(S)
  BY DEF IsChain, Increasing, IsSequence
<1>2. Len(ch) \in Nat /\ DOMAIN ch = 1 .. Len(ch) /\ ch \in [1 .. Len(ch) -> S]
  BY <1>1
<1>3. PICK new : new = Exchange(ch, i, b)
  OBVIOUS
<1>4. new \in [1 .. Len(ch) -> S \cup {b}]
  BY <1>2, <1>3 DEF Exchange
<1>5. IsSequence(new) /\ Len(new) = Len(ch)
  BY <1>2, <1>4, FunctionIsSequence
<1>6. new[i] = b /\ \A j \in 1 .. Len(ch) : j # i => new[j] = ch[j]
  BY <1>2, <1>3 DEF Exchange
<1>7. \A j \in 1 .. Len(ch) :
        IsBlock(new[j]) /\ new[j].seq = ch[j].seq /\ new[j].hash = ch[j].hash
        /\ new[j].prev = ch[j].prev
  BY <1>6 DEF IsChain, Increasing
<1>8. Increasing(new)
  BY <1>5, <1>7 DEF IsChain, Increasing
<1>9. ASSUME NEW j \in 1 .. Len(new)
      PROVE  LinkedIn(new, j)
  <2>1. j \in 1 .. Len(ch) /\ (j = 1 \/ j - 1 \in 1 .. Len(ch))
    BY <1>2, <1>5
  <2>2. ch[j].prev = IF j = 1 THEN GenesisHash ELSE Hash(ch[j - 1])
    BY <2>1 DEF IsChain, LinkedIn
  <2>3. CASE j = 1
    BY <1>7, <2>1, <2>2, <2>3 DEF LinkedIn
  <2>4. CASE j # 1
    <3>1. new[j - 1].hash = ch[j - 1].hash
      BY <1>7, <2>1, <2>4
    <3>2. QED
      BY <1>7, <2>1, <2>2, <2>4, <3>1 DEF LinkedIn, Hash
  <2>5. QED
    BY <2>3, <2>4
<1>10. QED
  BY <1>3, <1>5, <1>6, <1>7, <1>8, <1>9 DEF IsChain

(* CH.Adapt: the payload and the checking string.                           *)
LEMMA AdaptedVerifies ==
  ASSUME NEW b, IsBlock(b), NEW payload
  PROVE  LET new == Adapted(b, payload)
         IN  IsBlock(new) /\ new.prev = b.prev /\ new.hash = b.hash /\ new.seq = b.seq
<1>1. PICK open : open = [b EXCEPT !.payload = payload]
  OBVIOUS
<1>2. /\ DOMAIN open = Fields /\ open.seq = b.seq /\ open.prev = b.prev /\ open.hash = b.hash
      /\ open.seq \in Nat
  BY <1>1 DEF IsBlock, Fields
<1>3. Adapted(b, payload) = Sealed(open)
  BY <1>1 DEF Adapted
<1>4. QED
  BY <1>2, <1>3, SealedVerifies


-----------------------------------------------------------------------------
(* The invariant                                                            *)

(* A cached witness is of the accumulator as it is.                         *)
CacheSound == \A e \in DOMAIN current : current[e] = accumulated \ {e}

(* What the last deletion recorded stands: no block has a number of one it  *)
(* took, so none of its elements is ever accumulated again.                 *)
DeletionStands ==
  lastDeletion # Nothing =>
    /\ VerifyDeletion(lastDeletion)
    /\ \A e \in lastDeletion.eta1 :
         e \notin accumulated /\ \A i \in 1 .. Len(blocks) : e.seq # blocks[i].seq

(* A grant is of a transaction that has a block number.                     *)
GrantsPlaced ==
  /\ \A tx \in DOMAIN blockOf : blockOf[tx] \in Nat
  /\ \A a \in grants : a.tx \in DOMAIN blockOf

Progress ==
  /\ deletes \in Nat
  /\ ~ready => deletes = 0 /\ grants = {}
  /\ deletes = 0 => Numbered(blocks) /\ lastDeletion = Nothing

Inv ==
  /\ Progress /\ GrantsPlaced
  /\ IsChain(blocks) /\ Accumulates(blocks, accumulated)
  /\ CacheSound /\ DeletionStands

LEMMA InitInv == Init => Inv
<1> SUFFICES ASSUME Init PROVE Inv
  OBVIOUS
<1>1. /\ ready = FALSE /\ blocks = <<>> /\ accumulated = {} /\ current = NoWitnesses
      /\ blockOf = [tx \in {} |-> 0] /\ lastDeletion = Nothing /\ grants = {} /\ deletes = 0
  BY DEF Init
<1>2. IsSequence(blocks) /\ Len(blocks) = 0
  BY <1>1, EmptySeq DEF IsSequence
<1>3. IsChain(blocks) /\ Numbered(blocks) /\ Accumulates(blocks, accumulated)
  BY <1>1, <1>2 DEF IsChain, Increasing, Numbered, Accumulates
<1>4. CacheSound
  BY <1>1 DEF CacheSound, NoWitnesses
<1>5. Progress /\ GrantsPlaced /\ DeletionStands
  BY <1>1, <1>3 DEF Progress, GrantsPlaced, DeletionStands
<1>6. QED
  BY <1>3, <1>4, <1>5 DEF Inv

LEMMA SetupStep ==
  ASSUME Inv, OrderedDataset, Setup
  PROVE  Inv'
<1>1. /\ ready' = TRUE /\ blocks' = Built.blocks /\ accumulated' = Built.set
      /\ current' = RegenerateWitnesses(Built.blocks, Built.set)
      /\ blockOf' = [tx \in ToSet(Order) |-> CHOOSE s \in Seqs : Order[s + 1] = tx]
      /\ lastDeletion' = lastDeletion /\ grants' = grants /\ deletes' = deletes
      /\ deletes = 0 /\ grants = {} /\ lastDeletion = Nothing
  BY DEF Setup, Inv, Progress
<1>2. IsChain(blocks') /\ Numbered(blocks') /\ Accumulates(blocks', accumulated')
  BY <1>1, ChainBuilt
<1>3. CacheSound'
  <2>1. PICK ch, set : ch = Built.blocks /\ set = Built.set
    OBVIOUS
  <2>2. /\ accumulated' = set
        /\ current' = [e \in {Element(ch[i]) : i \in DOMAIN ch} |-> set \ {e}]
    BY <1>1, <2>1 DEF RegenerateWitnesses, MembershipWitness
  <2>3. QED
    BY <2>2 DEF CacheSound
<1>4. GrantsPlaced'
  <2>1. ASSUME NEW tx \in ToSet(Order)
        PROVE  blockOf'[tx] \in Nat
    <3>1. PICK i \in DOMAIN Order : Order[i] = tx
      BY DEF ToSet
    <3>2. Len(Order) \in Nat /\ DOMAIN Order = 1 .. Len(Order)
      BY LenProperties DEF OrderedDataset
    <3>3. i - 1 \in Seqs /\ (i - 1) + 1 = i
      BY <3>2 DEF Seqs
    <3>4. \E s \in Seqs : Order[s + 1] = tx
      BY <3>1, <3>3
    <3>5. (CHOOSE s \in Seqs : Order[s + 1] = tx) \in Seqs
      BY <3>4
    <3>6. blockOf'[tx] = CHOOSE s \in Seqs : Order[s + 1] = tx
      BY <1>1
    <3>7. QED
      BY <3>2, <3>5, <3>6 DEF Seqs
  <2>2. DOMAIN blockOf' = ToSet(Order) /\ grants' = {}
    BY <1>1
  <2>3. QED
    BY <2>1, <2>2 DEF GrantsPlaced
<1>5. Progress' /\ DeletionStands'
  BY <1>1, <1>2 DEF Progress, DeletionStands
<1>6. QED
  BY <1>2, <1>3, <1>4, <1>5 DEF Inv

LEMMA AuthorizeStep ==
  ASSUME Inv, NEW tx, NEW payload, Authorize(tx, payload)
  PROVE  Inv'
<1>1. /\ tx \in DOMAIN blockOf
      /\ grants' = grants \cup {[tx |-> tx, payload |-> payload, version |-> versions[blockOf[tx]]]}
      /\ blocks' = blocks /\ accumulated' = accumulated /\ current' = current
      /\ blockOf' = blockOf /\ lastDeletion' = lastDeletion /\ ready' = ready /\ ready
      /\ deletes' = deletes
  BY DEF Authorize
<1>2. GrantsPlaced'
  BY <1>1 DEF Inv, GrantsPlaced
<1>3. Progress' /\ CacheSound' /\ DeletionStands'
  BY <1>1 DEF Inv, Progress, CacheSound, DeletionStands
<1>4. QED
  BY <1>1, <1>2, <1>3 DEF Inv

(* A redaction exchanges a version of a block for another one, whose number *)
(* no deleted version has.                                                  *)
LEMMA RedactStep ==
  ASSUME Inv, NEW a, Redact(a)
  PROVE  Inv'
<1>1. PICK pos : pos = blockOf[a.tx]
  OBVIOUS
<1>2. /\ a \in grants /\ pos < Len(blocks) /\ Modify(pos, a.payload)
      /\ ready' = ready /\ blockOf' = blockOf /\ lastDeletion' = lastDeletion
      /\ grants' = grants /\ deletes' = deletes
  BY <1>1 DEF Redact
<1>3. pos \in Nat /\ Len(blocks) \in Nat
  BY <1>1, <1>2, SequenceFacts DEF Inv, GrantsPlaced, IsChain, Increasing
<1>4. PICK i : i = pos + 1
  OBVIOUS
<1>5. i \in 1 .. Len(blocks)
  BY <1>2, <1>3, <1>4
<1>6. PICK b, new : b = blocks[i] /\ new = Adapted(b, a.payload)
  OBVIOUS
<1>7. IsBlock(b) /\ Element(b) \in accumulated
  BY <1>5, <1>6 DEF Inv, IsChain, Increasing, Accumulates
<1>8. IsBlock(new) /\ new.prev = b.prev /\ new.hash = b.hash /\ new.seq = b.seq
  BY <1>6, <1>7, AdaptedVerifies
<1>9. /\ blocks' = Exchange(blocks, i, new)
      /\ accumulated' = (accumulated \ {Element(b)}) \cup {Element(new)}
      /\ current' = NoWitnesses
  BY <1>2, <1>4, <1>6, <1>7 DEF Modify, Exchange, AccAdd, AccDelete, Invalidated
<1>10. /\ IsChain(blocks') /\ Len(blocks') = Len(blocks) /\ blocks'[i] = new
       /\ \A j \in 1 .. Len(blocks) :
            (j # i => blocks'[j] = blocks[j]) /\ blocks'[j].seq = blocks[j].seq
  BY <1>5, <1>6, <1>8, <1>9, BlockExchanged DEF Inv
<1>11. Accumulates(blocks', accumulated')
  <2>1. ASSUME NEW j \in 1 .. Len(blocks')
        PROVE  Element(blocks'[j]) \in accumulated'
    <3>1. CASE j = i
      BY <3>1, <1>9, <1>10
    <3>2. CASE j # i
      <4>1. j \in 1 .. Len(blocks) /\ blocks'[j] = blocks[j]
        BY <3>2, <1>10
      <4>2. Element(blocks[j]) \in accumulated
        BY <4>1 DEF Inv, Accumulates
      <4>3. Element(blocks[j]).seq # Element(b).seq
        BY <3>2, <4>1, <1>5, <1>6, ElementsDiffer DEF Inv, IsChain
      <4>4. QED
        BY <4>1, <4>2, <4>3, <1>9
    <3>3. QED
      BY <3>1, <3>2
  <2>2. ASSUME NEW e \in accumulated', "seq" \in DOMAIN e
        PROVE  \E j \in 1 .. Len(blocks') : Element(blocks'[j]) = e
    <3>1. CASE e = Element(new)
      BY <3>1, <1>5, <1>10
    <3>2. CASE e # Element(new)
      <4>1. e \in accumulated /\ e # Element(b)
        BY <3>2, <1>9
      <4>2. PICK j \in 1 .. Len(blocks) : Element(blocks[j]) = e
        BY <2>2, <4>1 DEF Inv, Accumulates
      <4>3. j # i
        BY <4>1, <4>2, <1>6
      <4>4. QED
        BY <4>2, <4>3, <1>10
    <3>3. QED
      BY <3>1, <3>2
  <2>3. QED
    BY <2>1, <2>2 DEF Accumulates
<1>12. CacheSound'
  BY <1>9 DEF CacheSound, NoWitnesses
<1>13. DeletionStands'
  <2> SUFFICES ASSUME lastDeletion # Nothing
               PROVE  /\ VerifyDeletion(lastDeletion)
                      /\ \A e \in lastDeletion.eta1 :
                           /\ e \notin accumulated'
                           /\ \A j \in 1 .. Len(blocks') : e.seq # blocks'[j].seq
    BY <1>2 DEF DeletionStands
  <2>1. /\ VerifyDeletion(lastDeletion)
        /\ \A e \in lastDeletion.eta1 :
             e \notin accumulated /\ \A j \in 1 .. Len(blocks) : e.seq # blocks[j].seq
    BY DEF Inv, DeletionStands
  <2>2. Element(new).seq = blocks[i].seq
    BY <1>6, <1>8 DEF Element
  <2>3. ASSUME NEW e \in lastDeletion.eta1
        PROVE  e \notin accumulated' /\ \A j \in 1 .. Len(blocks') : e.seq # blocks'[j].seq
    <3>1. e # Element(new)
      BY <2>1, <2>2, <1>5
    <3>2. QED
      BY <2>1, <3>1, <1>9, <1>10
  <2>4. QED
    BY <2>1, <2>3
<1>14. Progress' /\ GrantsPlaced'
  <2>1. Numbered(blocks) => Numbered(blocks')
    BY <1>10 DEF Numbered
  <2>2. QED
    BY <1>2, <2>1 DEF Inv, Progress, GrantsPlaced
<1>15. QED
  BY <1>10, <1>11, <1>12, <1>13, <1>14 DEF Inv

(* A deletion takes the versions of its blocks out and leaves a chain.      *)
LEMMA DeleteStep ==
  ASSUME Inv, OrderedDataset, OneDeletion, NEW positions \in SUBSET Seqs, Delete(positions)
  PROVE  Inv'
<1> DEFINE gone == {Element(blocks[p + 1]) : p \in positions}
           bar == accumulated \ gone
           record == RecordingElement(Survivors(positions))
<1>1. /\ ready /\ deletes < MaxDeletes /\ deletes' = deletes + 1
      /\ \A p \in positions : p < Len(blocks)
      /\ blocks' = Relinked(Survivors(positions), ConsecutiveRuns(positions))
      /\ accumulated' = bar \cup {record}
      /\ lastDeletion' = [before |-> accumulated, bar |-> bar, eta1 |-> gone,
                          after |-> bar \cup {record}, etaI |-> record]
      /\ current' = NoWitnesses
      /\ ready' = ready /\ blockOf' = blockOf /\ grants' = grants
  BY DEF Delete, AccAdd, Invalidated
<1>2. deletes = 0 /\ Numbered(blocks) /\ deletes' = 1
  BY <1>1 DEF Inv, Progress, OneDeletion
<1>3. positions \subseteq Nat
  BY LenProperties DEF OrderedDataset, Seqs
<1>4. PICK kept : kept = Survivors(positions)
  OBVIOUS
<1>5. KeepsOf(kept, blocks, positions, Len(blocks))
  BY <1>4, SurvivorsKept DEF Inv, IsChain
<1>6. /\ IsChain(blocks') /\ Len(blocks') = Len(kept)
      /\ \A i \in 1 .. Len(kept) :
           blocks'[i].seq = kept[i].seq /\ Element(blocks'[i]) = Element(kept[i])
  <2>1. PICK new : new = Relinked(kept, ConsecutiveRuns(positions))
    OBVIOUS
  <2>2. IsChain(blocks)
    BY DEF Inv
  <2>3. IsChain(new) /\ SameVersions(new, kept)
    BY <2>1, <2>2, <1>2, <1>3, <1>5, RelinkedChain
  <2>4. blocks' = new
    BY <1>1, <1>4, <2>1
  <2>5. QED
    BY <2>3, <2>4 DEF SameVersions
<1>7. Len(blocks) \in Nat
  BY SequenceFacts DEF Inv, IsChain, Increasing
<1>8. ASSUME NEW p \in positions
      PROVE  /\ p + 1 \in 1 .. Len(blocks) /\ Element(blocks[p + 1]).seq = p
             /\ DOMAIN Element(blocks[p + 1]) = {"seq", "merkle", "payload"}
             /\ Element(blocks[p + 1]) \in accumulated
  <2>1. p \in Nat /\ p < Len(blocks)
    BY <1>1, <1>3
  <2>2. p + 1 \in 1 .. Len(blocks) /\ (p + 1) - 1 = p
    BY <1>7, <2>1
  <2>3. QED
    BY <2>2, <1>2 DEF Element, Numbered, Inv, Accumulates
<1>9. DOMAIN record = {"record"} /\ "seq" \notin DOMAIN record
  BY DEF RecordingElement
<1> HIDE DEF record
<1>10. \A e \in gone : e.seq \in positions /\ "seq" \in DOMAIN e /\ e \in accumulated
  BY <1>8
<1>11. Accumulates(blocks', accumulated')
  <2>1. ASSUME NEW i \in 1 .. Len(kept)
        PROVE  Element(kept[i]) \in accumulated /\ Element(kept[i]) \notin gone
    <3>1. PICK j \in 1 .. Len(blocks) : kept[i] = blocks[j]
      BY <1>5 DEF KeepsOf
    <3>2. kept[i].seq \notin positions
      BY <1>5 DEF KeepsOf
    <3>3. Element(kept[i]).seq = kept[i].seq
      BY DEF Element
    <3>4. Element(kept[i]) \in accumulated
      BY <3>1 DEF Inv, Accumulates
    <3>5. QED
      BY <3>2, <3>3, <3>4, <1>10
  <2>2. ASSUME NEW e \in accumulated', "seq" \in DOMAIN e
        PROVE  \E i \in 1 .. Len(kept) : Element(kept[i]) = e
    <3>1. e \in accumulated /\ e \notin gone
      BY <2>2, <1>1, <1>9
    <3>2. PICK j \in 1 .. Len(blocks) : Element(blocks[j]) = e
      BY <2>2, <3>1 DEF Inv, Accumulates
    <3>3. blocks[j].seq \notin positions
      <4> SUFFICES ASSUME blocks[j].seq \in positions
                   PROVE  FALSE
        OBVIOUS
      <4>1. blocks[j].seq = j - 1 /\ (j - 1) + 1 = j
        BY <1>2, <1>7 DEF Numbered
      <4>2. Element(blocks[j]) \in gone
        BY <4>1
      <4>3. QED
        BY <4>2, <3>1, <3>2
    <3>4. PICK i \in 1 .. Len(kept) : kept[i] = blocks[j]
      BY <1>5, <3>3 DEF KeepsOf
    <3>5. QED
      BY <3>2, <3>4
  <2>3. QED
    BY <2>1, <2>2, <1>1, <1>6 DEF Accumulates
<1>12. CacheSound'
  BY <1>1 DEF CacheSound, NoWitnesses
<1>13. DeletionStands'
  <2>1. PICK p : p = lastDeletion'
    OBVIOUS
  <2>2. /\ p.before = accumulated /\ p.bar = bar /\ p.eta1 = gone
        /\ p.after = bar \cup {record} /\ p.etaI = record
    BY <1>1, <2>1
  <2>3. VerifyDeletion(p)
    BY <2>2, <1>10 DEF VerifyDeletion
  <2>4. ASSUME NEW e \in gone
        PROVE  e \notin accumulated' /\ \A i \in 1 .. Len(blocks') : e.seq # blocks'[i].seq
    <3>1. e \notin accumulated'
      BY <1>1, <1>9, <1>10
    <3>2. \A i \in 1 .. Len(blocks') : blocks'[i].seq \notin positions
      BY <1>5, <1>6 DEF KeepsOf
    <3>3. QED
      BY <3>1, <3>2, <1>10
  <2>5. QED
    BY <2>1, <2>2, <2>3, <2>4 DEF DeletionStands
<1>14. Progress' /\ GrantsPlaced'
  BY <1>1, <1>2 DEF Inv, Progress, GrantsPlaced
<1>15. QED
  BY <1>6, <1>11, <1>12, <1>13, <1>14 DEF Inv

LEMMA AuditStep ==
  ASSUME Inv, Audit
  PROVE  Inv'
<1>1. PICK seen : seen = DOMAIN current \cup ({Element(blocks[i]) : i \in Visited} \cap accumulated)
  OBVIOUS
<1>2. /\ current' = [e \in seen |-> WitnessFor(e)]
      /\ blocks' = blocks /\ accumulated' = accumulated /\ blockOf' = blockOf
      /\ lastDeletion' = lastDeletion /\ grants' = grants /\ ready' = ready
      /\ deletes' = deletes
  BY <1>1 DEF Audit
<1>3. \A e : WitnessFor(e) = accumulated \ {e}
  BY DEF WitnessFor, MembershipWitness, Inv, CacheSound
<1>4. CacheSound'
  BY <1>2, <1>3 DEF CacheSound
<1>5. Progress' /\ GrantsPlaced' /\ DeletionStands'
  BY <1>2 DEF Inv, Progress, GrantsPlaced, DeletionStands
<1>6. QED
  BY <1>2, <1>4, <1>5 DEF Inv

LEMMA NextInv ==
  ASSUME Inv, OrderedDataset, OneDeletion, [Next]_vars
  PROVE  Inv'
<1>1. CASE Setup
  BY <1>1, SetupStep
<1>2. ASSUME NEW tx \in ToSet(Order), NEW payload \in Payloads, Authorize(tx, payload)
      PROVE  Inv'
  BY <1>2, AuthorizeStep
<1>3. ASSUME NEW a \in grants, Redact(a)
      PROVE  Inv'
  BY <1>3, RedactStep
<1>4. ASSUME NEW positions \in SUBSET Seqs, Delete(positions)
      PROVE  Inv'
  BY <1>4, DeleteStep
<1>5. CASE Audit
  BY <1>5, AuditStep
<1>6. CASE UNCHANGED vars
  BY <1>6 DEF vars, Inv, Progress, GrantsPlaced, CacheSound, DeletionStands
<1>7. QED
  BY <1>1, <1>2, <1>3, <1>4, <1>5, <1>6 DEF Next

LEMMA InvHolds == ASSUME OrderedDataset, OneDeletion PROVE Spec => []Inv
<1>1. Inv /\ [Next]_vars => Inv'
  BY NextInv
<1>2. QED
  BY <1>1, InitInv, PTL DEF Spec

(* The accumulator of a chain holds nothing but the versions the chain has  *)
(* now and the records of deletions, whatever was redacted before and after *)
(* a deletion, and what the deletion recorded still verifies (Modify,       *)
(* Delete, ValMod, ValDel).                                                 *)
THEOREM SupersededGone ==
  ASSUME OrderedDataset, OneDeletion PROVE Spec => []OnlyCurrentAccumulated
<1>1. Inv => OnlyCurrentAccumulated
  <2> SUFFICES ASSUME Inv PROVE OnlyCurrentAccumulated
    OBVIOUS
  <2>1. DOMAIN blocks = 1 .. Len(blocks)
    BY SequenceFacts DEF Inv, IsChain, Increasing
  <2>2. QED
    BY <2>1 DEF Inv, Accumulates, DeletionStands, OnlyCurrentAccumulated, NonMember
<1>2. QED
  BY <1>1, InvHolds, PTL

(* The whole chain validates in every state, with whatever witnesses are    *)
(* cached: links, collisions and memberships are of one state (ValChain).   *)
THEOREM ChainStaysValid ==
  ASSUME OrderedDataset, OneDeletion PROVE Spec => []ChainVerifies
<1>1. Inv => ChainVerifies
  <2> SUFFICES ASSUME Inv, NEW i \in DOMAIN blocks
               PROVE  Linked(i) /\ ValApp(blocks[i])
    BY DEF ChainVerifies, ValChain
  <2>1. i \in 1 .. Len(blocks)
    BY SequenceFacts DEF Inv, IsChain, Increasing
  <2>2. LinkedIn(blocks, i) /\ IsBlock(blocks[i]) /\ Element(blocks[i]) \in accumulated
    BY <2>1 DEF Inv, IsChain, Increasing, Accumulates
  <2>3. \A e : WitnessFor(e) = accumulated \ {e}
    BY DEF WitnessFor, MembershipWitness, Inv, CacheSound
  <2>4. QED
    BY <2>2, <2>3 DEF Linked, LinkedIn, ValApp, IsBlock, VerifyMembership
<1>2. QED
  BY <1>1, InvHolds, PTL

-----------------------------------------------------------------------------
(* Types                                                                    *)

Hashes(ch) == \A i \in 1 .. Len(ch) : ch[i].hash \in Seqs

(* Beside the invariant: a version is counted by a redaction, and a chain   *)
(* never grows behind its dataset.  What the blocks hold is accumulated.    *)
Typed ==
  /\ ready \in BOOLEAN
  /\ accumulated \subseteq Elements /\ DOMAIN current \subseteq Elements
  /\ Hashes(blocks) /\ Len(blocks) <= Len(Order)
  /\ \A a \in grants : a.payload \in Payloads
  /\ redactions \in 0 .. MaxRedactions /\ deletes \in 0 .. MaxDeletes
  /\ ready => versions \in [Seqs -> 0 .. redactions]

LEMMA InitTyped ==
  ASSUME OrderedDataset, OneDeletion, TypedConstants, Init
  PROVE  Typed
<1>1. Len(blocks) = 0 /\ Len(Order) \in Nat
  BY EmptySeq, LenProperties DEF Init, OrderedDataset
<1>2. Hashes(blocks) /\ Len(blocks) <= Len(Order)
  BY <1>1 DEF Hashes
<1>3. ready = FALSE /\ accumulated = {} /\ grants = {} /\ redactions = 0 /\ deletes = 0
  BY DEF Init
<1>4. DOMAIN current = {}
  BY DEF Init, NoWitnesses
<1>5. 0 \in 0 .. MaxRedactions /\ 0 \in 0 .. MaxDeletes
  BY DEF TypedConstants, OneDeletion
<1>6. QED
  BY <1>2, <1>3, <1>4, <1>5 DEF Typed

(* What Setup builds of the first transactions.                             *)
BuiltTyped(x, k) ==
  /\ IsSequence(x.blocks) /\ Len(x.blocks) = k
  /\ x.set \subseteq Elements /\ Hashes(x.blocks)

LEMMA AppendTyped ==
  ASSUME OrderedDataset, TypedConstants, NEW x, NEW k \in Seqs, BuiltTyped(x, k)
  PROVE  BuiltTyped(AppendBlock(x.blocks, x.set, Order[k + 1]), k + 1)
<1>1. /\ Len(Order) \in Nat /\ k \in Nat /\ k + 1 \in DOMAIN Order
  BY LenProperties DEF OrderedDataset, Seqs
<1>2. PICK ch, set, tx : ch = x.blocks /\ set = x.set /\ tx = Order[k + 1]
  OBVIOUS
<1>3. IsSequence(ch) /\ Len(ch) = k /\ set \subseteq Elements /\ Hashes(ch)
  BY <1>2 DEF BuiltTyped
<1> DEFINE first == [prev |-> IF ch = <<>> THEN GenesisHash ELSE Hash(Last(ch)),
                     merkle |-> tx, seq |-> Len(ch), payload |-> Original,
                     accState |-> {}, witness |-> {}, check |-> Nothing, hash |-> Len(ch)]
           open == [first EXCEPT !.accState = AccAdd(set, Element(first)), !.witness = set]
           block == Sealed(open)
           after == AppendBlock(ch, set, tx)
<1>4. after = [blocks |-> Append(ch, block), set |-> AccAdd(set, Element(first))]
  BY DEF AppendBlock
<1>5. Element(first) \in Elements
  <2>1. tx \in ToSet(Order) /\ k \in Seqs
    BY <1>1, <1>2 DEF ToSet
  <2>2. Element(first) = [seq |-> k, merkle |-> tx, payload |-> Original]
    BY <1>3 DEF Element
  <2>3. QED
    BY <2>1, <2>2 DEF Elements, TypedConstants
<1>6. block.hash = k
  <2>1. DOMAIN open = Fields /\ open.seq \in Nat /\ open.hash = k
    BY <1>1, <1>3 DEF Fields
  <2> HIDE DEF open
  <2>2. QED
    BY <2>1, SealedVerifies
<1> HIDE DEF first, block, after
<1>7. PICK new : new = Append(ch, block)
  OBVIOUS
<1>8. /\ IsSequence(new) /\ Len(new) = k + 1 /\ new[k + 1] = block
      /\ \A j \in 1 .. k : new[j] = ch[j]
  BY <1>3, <1>7, Appended
<1>9. Hashes(new)
  BY <1>1, <1>3, <1>6, <1>8 DEF Hashes
<1>10. BuiltTyped(after, k + 1)
  BY <1>3, <1>4, <1>5, <1>7, <1>8, <1>9 DEF BuiltTyped, AccAdd
<1>11. QED
  BY <1>2, <1>10 DEF after

LEMMA SetupTyped ==
  ASSUME OrderedDataset, TypedConstants
  PROVE  BuiltTyped(Built, Len(Order))
<1> DEFINE n == Len(Order)
           built == BuiltUpTo(n)
<1>1. n \in Nat
  BY LenProperties DEF OrderedDataset
<1>2. built = [k \in 0 .. n |->
         IF k = 0 THEN [blocks |-> <<>>, set |-> {}]
         ELSE AppendBlock(built[k - 1].blocks, built[k - 1].set, Order[k])]
  BY <1>1, BuiltDefined
<1>3. Built = built[n]
  BY DEF Built, BuiltUpTo
<1> HIDE DEF built
<1>4. /\ built[0] = [blocks |-> <<>>, set |-> {}]
      /\ \A k \in 1 .. n : built[k] = AppendBlock(built[k - 1].blocks, built[k - 1].set, Order[k])
  <2>1. /\ 0 \in 0 .. n
        /\ \A k \in 1 .. n : k \in 0 .. n /\ k # 0
    BY <1>1
  <2>2. \A k \in 0 .. n :
          built[k] = IF k = 0 THEN [blocks |-> <<>>, set |-> {}]
                     ELSE AppendBlock(built[k - 1].blocks, built[k - 1].set, Order[k])
    BY <1>2, Zenon
  <2>3. QED
    BY <2>1, <2>2, Zenon
<1>5. BuiltTyped(built[0], 0)
  <2>1. IsSequence(<<>>) /\ Len(<<>>) = 0
    BY EmptySeq DEF IsSequence
  <2>2. QED
    BY <1>4, <2>1 DEF BuiltTyped, Hashes
<1> DEFINE P == {m \in Nat : m <= n => BuiltTyped(built[m], m)}
<1>6. 0 \in P
  BY <1>5
<1>7. ASSUME NEW m \in Nat, m \in P
      PROVE  m + 1 \in P
  <2> SUFFICES ASSUME m + 1 <= n
               PROVE  BuiltTyped(built[m + 1], m + 1)
    OBVIOUS
  <2>1. m <= n /\ m + 1 \in 1 .. n /\ (m + 1) - 1 = m /\ m \in Seqs
    BY <1>1 DEF Seqs
  <2>2. BuiltTyped(built[m], m)
    BY <1>7, <2>1
  <2>3. built[m + 1] = AppendBlock(built[m].blocks, built[m].set, Order[m + 1])
    BY <1>4, <2>1
  <2>4. QED
    BY <2>1, <2>2, <2>3, AppendTyped
<1>8. n \in P
  <2> HIDE DEF P
  <2>1. QED
    BY <1>1, <1>6, <1>7, SetInduction
<1>9. QED
  BY <1>1, <1>3, <1>8

LEMMA SetupKeepsTypes ==
  ASSUME Typed, OrderedDataset, TypedConstants, Setup
  PROVE  Typed'
<1>1. /\ ready' = TRUE /\ blocks' = Built.blocks /\ accumulated' = Built.set
      /\ current' = RegenerateWitnesses(Built.blocks, Built.set)
      /\ versions' = [s \in Seqs |-> 0]
      /\ grants' = grants /\ redactions' = redactions /\ deletes' = deletes
  BY DEF Setup
<1>2. Hashes(blocks') /\ Len(blocks') = Len(Order) /\ accumulated' \subseteq Elements
  BY <1>1, SetupTyped DEF BuiltTyped
<1>3. DOMAIN current' \subseteq Elements
  <2>1. IsChain(blocks') /\ Accumulates(blocks', accumulated')
    BY <1>1, ChainBuilt
  <2>2. DOMAIN blocks' = 1 .. Len(blocks')
    BY <2>1, SequenceFacts DEF IsChain, Increasing
  <2>3. DOMAIN current' = {Element(blocks'[i]) : i \in DOMAIN blocks'}
    BY <1>1 DEF RegenerateWitnesses
  <2>4. QED
    BY <1>2, <2>1, <2>2, <2>3 DEF Accumulates
<1>4. versions' \in [Seqs -> 0 .. redactions']
  BY <1>1 DEF Typed
<1>5. Len(Order) \in Nat
  BY LenProperties DEF OrderedDataset
<1>6. QED
  BY <1>1, <1>2, <1>3, <1>4, <1>5 DEF Typed

LEMMA RedactKeepsTypes ==
  ASSUME Inv, Typed, OrderedDataset, TypedConstants, NEW a, Redact(a)
  PROVE  Typed'
<1>1. PICK pos : pos = blockOf[a.tx]
  OBVIOUS
<1>2. /\ redactions < MaxRedactions /\ redactions' = redactions + 1
      /\ a \in grants /\ pos < Len(blocks) /\ Modify(pos, a.payload)
      /\ ready' = ready /\ grants' = grants /\ deletes' = deletes
  BY <1>1 DEF Redact
<1>3. pos \in Nat /\ Len(blocks) \in Nat /\ ready
  BY <1>1, <1>2, SequenceFacts DEF Inv, GrantsPlaced, Progress, IsChain, Increasing
<1>4. PICK i : i = pos + 1
  OBVIOUS
<1>5. i \in 1 .. Len(blocks)
  BY <1>2, <1>3, <1>4
<1>6. PICK b, new : b = blocks[i] /\ new = Adapted(b, a.payload)
  OBVIOUS
<1>7. IsBlock(b) /\ Element(b) \in accumulated
  BY <1>5, <1>6 DEF Inv, IsChain, Increasing, Accumulates
<1>8. IsBlock(new) /\ new.prev = b.prev /\ new.hash = b.hash /\ new.seq = b.seq
  BY <1>6, <1>7, AdaptedVerifies
<1>9. /\ blocks' = Exchange(blocks, i, new)
      /\ accumulated' = (accumulated \ {Element(b)}) \cup {Element(new)}
      /\ current' = NoWitnesses
      /\ versions' = [versions EXCEPT ![pos] = @ + 1]
  BY <1>2, <1>4, <1>6, <1>7 DEF Modify, Exchange, AccAdd, AccDelete, Invalidated
<1>10. /\ Len(blocks') = Len(blocks) /\ blocks'[i] = new
       /\ \A j \in 1 .. Len(blocks) : j # i => blocks'[j] = blocks[j]
  BY <1>5, <1>6, <1>8, <1>9, BlockExchanged DEF Inv
<1>11. Hashes(blocks')
  BY <1>5, <1>6, <1>8, <1>10 DEF Typed, Hashes
<1>12. Element(new) \in Elements
  <2>1. PICK open : open = [b EXCEPT !.payload = a.payload]
    OBVIOUS
  <2>2. /\ DOMAIN open = Fields /\ open.seq = b.seq /\ open.merkle = b.merkle
        /\ open.payload = a.payload /\ open.seq \in Nat
    BY <1>7, <2>1 DEF IsBlock, Fields
  <2>3. Element(new) = Element(open)
    BY <1>6, <2>1, <2>2, SealedVerifies DEF Adapted
  <2>4. PICK e : e = Element(b)
    OBVIOUS
  <2>5. e \in Elements /\ "seq" \in DOMAIN e /\ e.seq = b.seq /\ e.merkle = b.merkle
    BY <1>7, <2>4 DEF Typed, Element
  <2>6. e \in [seq : Seqs, merkle : ToSet(Order), payload : Payloads]
    <3>1. e \notin [record : 0 .. Len(Order)]
      BY <2>5
    <3>2. QED
      BY <2>5, <3>1 DEF Elements
  <2>7. b.seq \in Seqs /\ b.merkle \in ToSet(Order) /\ a.payload \in Payloads
    BY <1>2, <2>5, <2>6 DEF Typed
  <2>8. QED
    BY <2>2, <2>3, <2>7 DEF Element, Elements
<1>13. accumulated' \subseteq Elements /\ DOMAIN current' \subseteq Elements
  BY <1>9, <1>12 DEF Typed, NoWitnesses
<1>14. redactions' \in 0 .. MaxRedactions /\ versions' \in [Seqs -> 0 .. redactions']
  <2>1. versions \in [Seqs -> 0 .. redactions] /\ redactions \in Nat
    BY <1>3 DEF Typed, TypedConstants
  <2>2. \A s \in Seqs : versions[s] \in 0 .. redactions
    BY <2>1
  <2>3. \A s \in Seqs : versions[s] \in 0 .. redactions' /\ versions[s] + 1 \in 0 .. redactions'
    BY <1>2, <2>1, <2>2
  <2>4. versions' = [s \in Seqs |-> IF s = pos THEN versions[s] + 1 ELSE versions[s]]
    BY <1>9, <2>1
  <2>5. versions' \in [Seqs -> 0 .. redactions']
    BY <2>3, <2>4
  <2>6. redactions' \in 0 .. MaxRedactions
    BY <1>2, <2>1 DEF TypedConstants
  <2>7. QED
    BY <2>5, <2>6
<1>15. QED
  BY <1>2, <1>10, <1>11, <1>13, <1>14 DEF Typed

LEMMA DeleteKeepsTypes ==
  ASSUME Inv, Typed, OrderedDataset, OneDeletion, NEW positions \in SUBSET Seqs, Delete(positions)
  PROVE  Typed'
<1>1. PICK kept : kept = Survivors(positions)
  OBVIOUS
<1>2. /\ deletes < MaxDeletes /\ deletes' = deletes + 1
      /\ blocks' = Relinked(kept, ConsecutiveRuns(positions))
      /\ accumulated' \subseteq accumulated \cup {RecordingElement(kept)}
      /\ current' = NoWitnesses
      /\ UNCHANGED <<ready, versions, grants, redactions>>
  BY <1>1 DEF Delete, AccAdd, Invalidated
<1>3. IsChain(blocks) /\ Numbered(blocks) /\ positions \subseteq Nat
  BY <1>2, LenProperties DEF Inv, Progress, OneDeletion, OrderedDataset, Seqs
<1>4. KeepsOf(kept, blocks, positions, Len(blocks))
  BY <1>1, <1>3, SurvivorsKept DEF IsChain
<1>5. Len(kept) \in Nat /\ Len(blocks) \in Nat /\ Len(Order) \in Nat
  BY <1>3, <1>4, SequenceFacts, LenProperties DEF KeepsOf, IsChain, Increasing, OrderedDataset
<1>6. Len(kept) <= Len(blocks) /\ Len(blocks) <= Len(Order)
  BY <1>4 DEF KeepsOf, Typed
<1>7. Len(kept) \in 0 .. Len(Order)
  BY <1>5, <1>6
<1>8. accumulated' \subseteq Elements /\ DOMAIN current' \subseteq Elements
  BY <1>2, <1>7 DEF Typed, Elements, RecordingElement, NoWitnesses
<1>9. SameVersions(blocks', kept)
  BY <1>2, <1>3, <1>4, RelinkedChain
<1>10. Hashes(blocks') /\ Len(blocks') <= Len(Order)
  <2>1. \A i \in 1 .. Len(kept) : kept[i].hash \in Seqs
    BY <1>4 DEF KeepsOf, Typed, Hashes
  <2>2. QED
    BY <1>5, <1>6, <1>9, <2>1 DEF SameVersions, Hashes
<1>11. deletes' \in 0 .. MaxDeletes
  BY <1>2 DEF Typed, OneDeletion
<1>12. QED
  BY <1>2, <1>8, <1>10, <1>11 DEF Typed

LEMMA NextTyped ==
  ASSUME Inv, Typed, OrderedDataset, OneDeletion, TypedConstants, [Next]_vars
  PROVE  Typed'
<1>1. CASE Setup
  BY <1>1, SetupKeepsTypes
<1>2. ASSUME NEW tx \in ToSet(Order), NEW payload \in Payloads, Authorize(tx, payload)
      PROVE  Typed'
  BY <1>2 DEF Authorize, Typed, Hashes
<1>3. ASSUME NEW a \in grants, Redact(a)
      PROVE  Typed'
  BY <1>3, RedactKeepsTypes
<1>4. ASSUME NEW positions \in SUBSET Seqs, Delete(positions)
      PROVE  Typed'
  BY <1>4, DeleteKeepsTypes
<1>5. CASE Audit
  <2>1. DOMAIN current' = DOMAIN current \cup ({Element(blocks[i]) : i \in Visited} \cap accumulated)
    BY <1>5 DEF Audit
  <2>2. UNCHANGED <<ready, blocks, accumulated, versions, grants, redactions, deletes>>
    BY <1>5 DEF Audit
  <2>3. QED
    BY <2>1, <2>2 DEF Typed, Hashes
<1>6. CASE UNCHANGED vars
  BY <1>6 DEF vars, Typed, Hashes
<1>7. QED
  BY <1>1, <1>2, <1>3, <1>4, <1>5, <1>6 DEF Next

(* Every variable has its type: what the blocks hold and the accumulator    *)
(* names are versions of blocks of the dataset or records of deletions, and *)
(* no block is redacted more often than there were redactions (ledger.go,   *)
(* scheme.go).                                                              *)
THEOREM TypeCorrect ==
  ASSUME OrderedDataset, OneDeletion, TypedConstants PROVE Spec => []TypeOK
<1>1. Init => Inv /\ Typed
  BY InitInv, InitTyped
<1>2. Inv /\ Typed /\ [Next]_vars => Inv' /\ Typed'
  BY NextInv, NextTyped
<1>3. Inv /\ Typed => TypeOK
  <2> SUFFICES ASSUME Inv, Typed PROVE TypeOK
    OBVIOUS
  <2>1. DOMAIN blocks = 1 .. Len(blocks)
    BY SequenceFacts DEF Inv, IsChain, Increasing
  <2>2. ASSUME NEW i \in DOMAIN blocks
        PROVE  blocks[i].seq \in Seqs /\ blocks[i].hash \in Seqs /\ Element(blocks[i]) \in Elements
    <3>1. PICK e : e = Element(blocks[i])
      OBVIOUS
    <3>2. e \in Elements /\ "seq" \in DOMAIN e /\ e.seq = blocks[i].seq
      BY <2>1, <3>1 DEF Inv, Accumulates, Typed, Element
    <3>3. e \in [seq : Seqs, merkle : ToSet(Order), payload : Payloads]
      <4>1. e \notin [record : 0 .. Len(Order)]
        BY <3>2
      <4>2. QED
        BY <3>2, <4>1 DEF Elements
    <3>4. QED
      BY <2>1, <3>1, <3>2, <3>3 DEF Typed, Hashes
  <2>3. ready => versions \in [Seqs -> 0 .. MaxRedactions]
    <3>1. redactions \in 0 .. MaxRedactions /\ MaxRedactions \in Nat
      BY DEF Typed, TypedConstants
    <3>2. 0 .. redactions \subseteq 0 .. MaxRedactions
      BY <3>1
    <3>3. QED
      BY <3>2 DEF Typed
  <2>4. QED
    BY <2>2, <2>3 DEF Typed, TypeOK
<1>4. QED
  BY <1>1, <1>2, <1>3, PTL DEF Spec
=============================================================================
