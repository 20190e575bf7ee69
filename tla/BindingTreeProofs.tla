-------------------------- MODULE BindingTreeProofs --------------------------
(***************************************************************************)
(* Proofs about BindingTree, for any dataset, any arities, any order of    *)
(* redactions, audits and repeated setups.                                 *)
(***************************************************************************)
EXTENDS BindingTree, SequenceTheorems, FiniteSetTheorems, WellFoundedInduction, TLAPS

-----------------------------------------------------------------------------
(* Sequences and induction                                                  *)

IsSequence(s) == \E S : s \in Seq(S)

LEMMA SequenceFacts ==
  ASSUME NEW s, IsSequence(s)
  PROVE  Len(s) \in Nat /\ DOMAIN s = 1 .. Len(s)
  BY LenProperties DEF IsSequence

LEMMA LengthIs ==
  ASSUME NEW s, IsSequence(s), NEW n \in Nat, DOMAIN s = 1 .. n
  PROVE  Len(s) = n
<1>1. PICK l \in Nat : l = Len(s) /\ 1 .. l = 1 .. n
  BY SequenceFacts
<1>2. ~(l < n) /\ ~(n < l)
  <2>1. l + 1 \notin 1 .. l /\ n + 1 \notin 1 .. n
    OBVIOUS
  <2>2. l < n => l + 1 \in 1 .. n
    OBVIOUS
  <2>3. n < l => n + 1 \in 1 .. l
    OBVIOUS
  <2>4. QED
    BY <1>1, <2>1, <2>2, <2>3
<1>3. QED
  BY <1>1, <1>2

LEMMA FunctionIsSequence ==
  ASSUME NEW n \in Nat, NEW S, NEW s \in [1 .. n -> S]
  PROVE  IsSequence(s) /\ Len(s) = n
<1>1. s \in Seq(S) /\ Len(s) = n
  OBVIOUS
<1>2. QED
  BY <1>1 DEF IsSequence

(* Induction, of a set: the smallest number that is not in it would follow  *)
(* one that is.                                                             *)
LEMMA SetInduction ==
  ASSUME NEW P, 0 \in P, \A k \in Nat : k \in P => k + 1 \in P
  PROVE  Nat \subseteq P
<1> SUFFICES ASSUME Nat \ P # {} PROVE FALSE
  OBVIOUS
<1> DEFINE heads == {0 .. k : k \in Nat \ P}
<1>1. heads \subseteq FiniteSubsetsOf(Nat) /\ heads # {}
  <2>1. ASSUME NEW k \in Nat
        PROVE  0 .. k \in FiniteSubsetsOf(Nat)
    BY FS_Interval DEF FiniteSubsetsOf
  <2>2. QED
    BY <2>1
<1>2. PICK s \in heads : \A t \in heads : ~(<<t, s>> \in StrictSubsetOrdering(Nat))
  BY <1>1, WFMin, FS_StrictSubsetOrderingWellFounded
<1>3. \A t \in heads : ~(t \subseteq s /\ t # s)
  BY <1>1, <1>2 DEF StrictSubsetOrdering, FiniteSubsetsOf
<1>4. PICK x \in Nat \ P : s = 0 .. x
  BY <1>2
<1>5. x - 1 \in Nat /\ (x - 1) + 1 = x
  BY <1>4
<1>6. x - 1 \notin P
  BY <1>4, <1>5
<1>7. 0 .. x - 1 \in heads
  BY <1>5, <1>6
<1>8. 0 .. x - 1 \subseteq 0 .. x /\ x \in 0 .. x /\ x \notin 0 .. x - 1
  BY <1>5
<1>9. QED
  BY <1>3, <1>4, <1>7, <1>8

LEMMA Appended ==
  ASSUME NEW s, IsSequence(s), NEW e
  PROVE  /\ IsSequence(Append(s, e))
         /\ Len(Append(s, e)) = Len(s) + 1
         /\ Append(s, e)[Len(s) + 1] = e
         /\ \A j \in 1 .. Len(s) : Append(s, e)[j] = s[j]
<1>1. PICK S : s \in Seq(S)
  BY DEF IsSequence
<1>2. s \in Seq(S \cup {e}) /\ Len(s) \in Nat
  BY <1>1, SeqMonotonic, LenProperties
<1>3. QED
  BY <1>2 DEF IsSequence

LEMMA Prepended ==
  ASSUME NEW t, IsSequence(t), NEW e
  PROVE  /\ IsSequence(<<e>> \o t)
         /\ Len(<<e>> \o t) = Len(t) + 1
         /\ (<<e>> \o t)[1] = e
         /\ \A j \in 1 .. Len(t) : (<<e>> \o t)[j + 1] = t[j]
<1>1. PICK S : t \in Seq(S)
  BY DEF IsSequence
<1>2. PICK U : U = S \cup {e}
  OBVIOUS
<1>3. t \in Seq(U) /\ <<e>> \in Seq(U) /\ Len(t) \in Nat /\ Len(<<e>>) = 1 /\ <<e>>[1] = e
  BY <1>1, <1>2, SeqMonotonic, LenProperties
<1>4. <<e>> \o t \in Seq(U) /\ Len(<<e>> \o t) = Len(t) + 1
  BY <1>3, ConcatProperties
<1>5. (<<e>> \o t)[1] = e /\ \A j \in 1 .. Len(t) : (<<e>> \o t)[j + 1] = t[j]
  BY <1>3
<1>6. QED
  BY <1>4, <1>5 DEF IsSequence

LEMMA Replaced ==
  ASSUME NEW s, IsSequence(s), NEW k, NEW e
  PROVE  IsSequence([s EXCEPT ![k] = e])
<1>1. PICK S : s \in Seq(S)
  BY DEF IsSequence
<1>2. PICK n, T : n = Len(s) /\ T = S \cup {e}
  OBVIOUS
<1>3. n \in Nat /\ DOMAIN s = 1 .. n /\ s \in [1 .. n -> S]
  BY <1>1, <1>2, LenProperties
<1>4. [s EXCEPT ![k] = e] \in [1 .. n -> T]
  BY <1>2, <1>3
<1>5. QED
  BY <1>3, <1>4, FunctionIsSequence

-----------------------------------------------------------------------------
(* The numbering                                                            *)

(* Division has one result.                                                 *)
LEMMA OneQuotient ==
  ASSUME NEW q1 \in Nat \ {0}, NEW a \in Nat, NEW b \in Nat,
         NEW r \in 0 .. q1 - 1, NEW t \in 0 .. q1 - 1, q1 * a + r = q1 * b + t
  PROVE  a = b /\ r = t
<1>1. ASSUME NEW x \in Nat, NEW y \in Nat, NEW u \in 0 .. q1 - 1, NEW v \in 0 .. q1 - 1,
             q1 * x + u = q1 * y + v, x < y
      PROVE  FALSE
  <2>1. PICK d \in Nat : y = x + 1 + d
    <3>1. y - (x + 1) \in Nat /\ y = x + 1 + (y - (x + 1))
      BY <1>1
    <3>2. QED
      BY <3>1
  <2>2. q1 * y = q1 * x + q1 + q1 * d
    BY <2>1
  <2>3. q1 * d \in Nat /\ q1 * x \in Nat
    OBVIOUS
  <2>4. PICK e \in Nat, f \in Nat, g \in Nat : e = q1 * x /\ f = q1 * d /\ g = q1 * y
    BY <2>3
  <2>5. g = e + q1 + f /\ e + u = g + v
    BY <1>1, <2>2, <2>4
  <2>6. QED
    BY <2>5
<1>2. a = b
  <2>1. ~(a < b)
    BY <1>1
  <2>2. ~(b < a)
    BY <1>1
  <2>3. QED
    BY <2>1, <2>2
<1>3. q1 * a \in Nat /\ q1 * a = q1 * b
  BY <1>2
<1>4. QED
  BY <1>2, <1>3

LEMMA Divided ==
  ASSUME NEW q1 \in Nat \ {0}, NEW n \in Nat
  PROVE  /\ n \div q1 \in Nat /\ n % q1 \in 0 .. q1 - 1 /\ n \div q1 <= n
         /\ n = q1 * (n \div q1) + (n % q1)
  OBVIOUS

(* Where the parent of a node is, and where in it.                          *)
LEMMA ParentFacts ==
  ASSUME NEW q1 \in Nat \ {0}, NEW i \in Nat \ {0}
  PROVE  /\ Parent(i, q1) \in 0 .. i - 1
         /\ ChildPosition(i, q1) \in 2 .. q1 + 1
         /\ i = q1 * Parent(i, q1) + (ChildPosition(i, q1) - 1)
<1>1. i - 1 \in Nat
  OBVIOUS
<1>2. PICK a \in Nat, r \in 0 .. q1 - 1, x \in Nat :
        a = (i - 1) \div q1 /\ r = (i - 1) % q1 /\ x = q1 * a /\ a <= i - 1 /\ i - 1 = x + r
  <2>1. q1 * ((i - 1) \div q1) \in Nat
    BY <1>1, Divided
  <2>2. QED
    BY <1>1, <2>1, Divided
<1>3. Parent(i, q1) = a /\ ChildPosition(i, q1) = r + 2
  BY <1>2 DEF Parent, ChildPosition
<1>4. a \in 0 .. i - 1 /\ r + 2 \in 2 .. q1 + 1 /\ i = x + ((r + 2) - 1)
  BY <1>2
<1>5. QED
  BY <1>2, <1>3, <1>4

(* No two children have one place.                                          *)
LEMMA OnePlace ==
  ASSUME NEW q1 \in Nat \ {0}, NEW i \in Nat \ {0}, NEW j \in Nat \ {0},
         Parent(i, q1) = Parent(j, q1), ChildPosition(i, q1) = ChildPosition(j, q1)
  PROVE  i = j
  BY ParentFacts

(* Children and Parent are each other's inverse.                            *)
LEMMA ChildPlaced ==
  ASSUME NEW q1 \in Nat \ {0}, NEW p \in Nat, NEW pos \in 2 .. q1 + 1, NEW c,
         c = Children(p, q1)[pos - 1]
  PROVE  c \in Nat \ {0} /\ Parent(c, q1) = p /\ ChildPosition(c, q1) = pos
<1>1. pos - 1 \in 1 .. q1
  OBVIOUS
<1>2. c = q1 * p + (pos - 1)
  BY <1>1 DEF Children
<1>3. q1 * p \in Nat
  OBVIOUS
<1>4. c \in Nat \ {0}
  BY <1>1, <1>2, <1>3
<1>5. PICK a \in Nat, k \in 2 .. q1 + 1 :
        a = Parent(c, q1) /\ k = ChildPosition(c, q1) /\ c = q1 * a + (k - 1)
  <2>1. /\ Parent(c, q1) \in 0 .. c - 1 /\ ChildPosition(c, q1) \in 2 .. q1 + 1
        /\ c = q1 * Parent(c, q1) + (ChildPosition(c, q1) - 1)
    BY <1>4, ParentFacts
  <2>2. Parent(c, q1) \in Nat
    BY <1>4, <2>1
  <2>3. QED
    BY <2>1, <2>2, Zenon
<1>6. pos - 2 \in 0 .. q1 - 1 /\ k - 2 \in 0 .. q1 - 1
  OBVIOUS
<1>7. q1 * p + (pos - 2) = q1 * a + (k - 2)
  <2>1. q1 * a \in Nat
    OBVIOUS
  <2>2. PICK x \in Nat, y \in Nat : x = q1 * p /\ y = q1 * a
    BY <1>3, <2>1
  <2>3. x + (pos - 1) = y + (k - 1)
    BY <1>2, <1>5, <2>2
  <2>4. x + (pos - 2) = y + (k - 2)
    BY <2>3
  <2>5. QED
    BY <2>2, <2>4
<1>8. p = a /\ pos - 2 = k - 2
  BY <1>6, <1>7, OneQuotient
<1>9. QED
  BY <1>4, <1>5, <1>8

-----------------------------------------------------------------------------
(* Paths                                                                    *)

(* p leads from s to the root.                                              *)
IsPath(p, s, q1) ==
  /\ IsSequence(p) /\ Len(p) \in Nat \ {0}
  /\ p[1] = s /\ p[Len(p)] = 0
  /\ \A k \in 1 .. Len(p) : p[k] \in 0 .. s
  /\ \A k \in 1 .. Len(p) - 1 : p[k] # 0 /\ p[k + 1] = Parent(p[k], q1)

Onward(i, above) == <<i>> \o above

(* The paths of the first nodes.                                            *)
PathsUpTo(n, q1) ==
  CHOOSE up : up = [i \in 0 .. n |-> IF i = 0 THEN <<0>> ELSE Onward(i, up[Parent(i, q1)])]

LEMMA PathsDefined ==
  ASSUME NEW q1 \in Nat \ {0}, NEW n \in Nat
  PROVE  PathsUpTo(n, q1) = [i \in 0 .. n |->
           IF i = 0 THEN <<0>> ELSE Onward(i, PathsUpTo(n, q1)[Parent(i, q1)])]
<1> DEFINE P == {m \in Nat : \E f : f = [i \in 0 .. m |->
                   IF i = 0 THEN <<0>> ELSE Onward(i, f[Parent(i, q1)])]}
<1>1. 0 \in P
  <2>1. PICK f : f = [i \in 0 .. 0 |-> <<0>>]
    OBVIOUS
  <2>2. f = [i \in 0 .. 0 |-> IF i = 0 THEN <<0>> ELSE Onward(i, f[Parent(i, q1)])]
    BY <2>1
  <2>3. QED
    BY <2>2
<1>2. ASSUME NEW m \in Nat, m \in P
      PROVE  m + 1 \in P
  <2>1. PICK f : f = [i \in 0 .. m |-> IF i = 0 THEN <<0>> ELSE Onward(i, f[Parent(i, q1)])]
    BY <1>2
  <2>2. PICK g : g = [i \in 0 .. m + 1 |->
                        IF i = 0 THEN <<0>>
                        ELSE IF i <= m THEN f[i] ELSE Onward(m + 1, f[Parent(m + 1, q1)])]
    OBVIOUS
  <2>3. ASSUME NEW i \in 0 .. m + 1
        PROVE  g[i] = IF i = 0 THEN <<0>> ELSE Onward(i, g[Parent(i, q1)])
    <3>1. CASE i = 0
      BY <3>1, <2>2
    <3>2. CASE i # 0
      <4>1. PICK p : p = Parent(i, q1) /\ p \in 0 .. i - 1
        BY <3>2, ParentFacts
      <4>2. /\ p \in 0 .. m /\ p \in 0 .. m + 1 /\ p <= m
            /\ (i <= m /\ i \in 0 .. m) \/ (~(i <= m) /\ i = m + 1)
        BY <4>1
      <4>3. g[p] = f[p]
        <5>1. CASE p = 0
          BY <4>2, <5>1, <2>1, <2>2
        <5>2. CASE p # 0
          BY <4>2, <5>2, <2>2
        <5>3. QED
          BY <5>1, <5>2
      <4>4. CASE i <= m
        <5>1. g[i] = f[i]
          BY <4>4, <3>2, <2>2
        <5>2. f[i] = Onward(i, f[p])
          BY <4>1, <4>2, <4>4, <3>2, <2>1
        <5>3. QED
          BY <5>1, <5>2, <4>1, <4>3, <3>2
      <4>5. CASE ~(i <= m)
        <5>1. g[i] = Onward(m + 1, f[Parent(m + 1, q1)])
          BY <4>5, <3>2, <2>2
        <5>2. QED
          BY <5>1, <4>1, <4>2, <4>3, <4>5, <3>2
      <4>6. QED
        BY <4>4, <4>5
    <3>3. QED
      BY <3>1, <3>2
  <2>4. g = [i \in 0 .. m + 1 |-> IF i = 0 THEN <<0>> ELSE Onward(i, g[Parent(i, q1)])]
    BY <2>2, <2>3
  <2>5. QED
    BY <2>4
<1>3. n \in P
  <2> HIDE DEF P
  <2>1. QED
    BY <1>1, <1>2, SetInduction
<1>4. QED
  BY <1>3 DEF PathsUpTo

LEMMA PathExtended ==
  ASSUME NEW q1 \in Nat \ {0}, NEW i \in Nat \ {0}, NEW t, IsPath(t, Parent(i, q1), q1)
  PROVE  IsPath(Onward(i, t), i, q1)
<1>1. PICK p : p = Onward(i, t)
  OBVIOUS
<1>2. /\ IsSequence(p) /\ Len(p) = Len(t) + 1 /\ p[1] = i
      /\ \A j \in 1 .. Len(t) : p[j + 1] = t[j]
  BY <1>1, Prepended DEF IsPath, Onward
<1>3. PICK l \in Nat \ {0} : l = Len(t)
  BY DEF IsPath
<1>4. Parent(i, q1) \in 0 .. i - 1
  BY ParentFacts
<1>5. /\ t[1] = Parent(i, q1) /\ t[l] = 0
      /\ \A k \in 1 .. l : t[k] \in 0 .. Parent(i, q1)
      /\ \A k \in 1 .. l - 1 : t[k] # 0 /\ t[k + 1] = Parent(t[k], q1)
  BY <1>3 DEF IsPath
<1>6. \A k \in 1 .. l + 1 : k = 1 \/ (k - 1 \in 1 .. l /\ (k - 1) + 1 = k)
  OBVIOUS
<1>7. p[l + 1] = 0 /\ l + 1 \in Nat \ {0}
  <2>1. l \in 1 .. l
    OBVIOUS
  <2>2. QED
    BY <2>1, <1>2, <1>3, <1>5
<1>8. ASSUME NEW k \in 1 .. l + 1
      PROVE  p[k] \in 0 .. i
  <2>1. CASE k = 1
    BY <2>1, <1>2
  <2>2. CASE k # 1
    <3>1. p[k] = t[k - 1] /\ t[k - 1] \in 0 .. Parent(i, q1)
      BY <2>2, <1>2, <1>3, <1>5, <1>6
    <3>2. QED
      BY <3>1, <1>4
  <2>3. QED
    BY <2>1, <2>2
<1>9. ASSUME NEW k \in 1 .. l
      PROVE  p[k] # 0 /\ p[k + 1] = Parent(p[k], q1)
  <2>1. p[k + 1] = t[k]
    BY <1>2, <1>3
  <2>2. CASE k = 1
    BY <2>1, <2>2, <1>2, <1>5
  <2>3. CASE k # 1
    <3>1. k - 1 \in 1 .. l - 1 /\ k - 1 \in 1 .. l /\ (k - 1) + 1 = k
      BY <2>3
    <3>2. p[k] = t[k - 1] /\ t[k] = Parent(t[k - 1], q1) /\ t[k - 1] # 0
      <4>1. p[(k - 1) + 1] = t[k - 1]
        BY <3>1, <1>2, <1>3
      <4>2. t[k - 1] # 0 /\ t[(k - 1) + 1] = Parent(t[k - 1], q1)
        BY <3>1, <1>5
      <4>3. QED
        BY <3>1, <4>1, <4>2
    <3>3. QED
      BY <3>2, <2>1
  <2>4. QED
    BY <2>2, <2>3
<1>10. Len(p) = l + 1 /\ Len(p) - 1 = l
  BY <1>2, <1>3
<1>11. QED
  BY <1>1, <1>2, <1>7, <1>8, <1>9, <1>10 DEF IsPath

(* Path leads from a node to the root.                                      *)
LEMMA PathIs ==
  ASSUME NEW q1 \in Nat \ {0}, NEW s \in Nat
  PROVE  IsPath(Path(s, q1), s, q1)
<1>1. PICK up : up = PathsUpTo(s, q1)
  OBVIOUS
<1>2. up = [i \in 0 .. s |-> IF i = 0 THEN <<0>> ELSE Onward(i, up[Parent(i, q1)])]
  BY <1>1, PathsDefined
<1>3. Path(s, q1) = up[s]
  BY <1>1 DEF Path, PathsUpTo, Onward
<1>4. \A i \in 0 .. s : up[i] = IF i = 0 THEN <<0>> ELSE Onward(i, up[Parent(i, q1)])
  BY <1>2, Zenon
<1> DEFINE P == {m \in Nat : m <= s => \A i \in 0 .. m : IsPath(up[i], i, q1)}
<1>5. 0 \in P
  <2>1. up[0] = <<0>>
    BY <1>4
  <2>2. IsSequence(<<0>>) /\ Len(<<0>>) = 1 /\ <<0>>[1] = 0
    <3>1. <<0>> \in Seq({0})
      OBVIOUS
    <3>2. QED
      BY <3>1 DEF IsSequence
  <2>3. IsPath(<<0>>, 0, q1)
    BY <2>2 DEF IsPath
  <2>4. QED
    BY <2>1, <2>3
<1>6. ASSUME NEW m \in Nat, m \in P
      PROVE  m + 1 \in P
  <2> SUFFICES ASSUME m + 1 <= s, NEW i \in 0 .. m + 1
               PROVE  IsPath(up[i], i, q1)
    OBVIOUS
  <2>1. \A j \in 0 .. m : IsPath(up[j], j, q1)
    BY <1>6
  <2>2. CASE i \in 0 .. m
    BY <2>1, <2>2
  <2>3. CASE i = m + 1
    <3>1. i \in Nat \ {0} /\ i \in 0 .. s
      BY <2>3
    <3>2. PICK p : p = Parent(i, q1) /\ p \in 0 .. m
      BY <2>3, <3>1, ParentFacts
    <3>3. IsPath(up[p], Parent(i, q1), q1)
      BY <2>1, <3>2
    <3>4. IsPath(Onward(i, up[p]), i, q1)
      BY <3>1, <3>3, PathExtended
    <3>5. QED
      BY <3>1, <3>2, <3>4, <1>4
  <2>4. QED
    BY <2>2, <2>3
<1>7. s \in P
  <2> HIDE DEF P
  <2>1. QED
    BY <1>5, <1>6, SetInduction
<1>8. QED
  BY <1>3, <1>7

-----------------------------------------------------------------------------
(* Trees of commitments                                                     *)

(* Nodes 0 to n, each with the commitment of its vector.                    *)
Formed(nodes, n, q1) ==
  /\ DOMAIN nodes = 0 .. n
  /\ \A i \in 0 .. n : /\ IsSequence(nodes[i].vector)
                       /\ DOMAIN nodes[i].vector = 1 .. q1 + 1
                       /\ nodes[i].commitment = Commit(nodes[i].vector)

(* The parent of a node commits to what the node is.                        *)
LinkedAt(nodes, i, q1) ==
  nodes[Parent(i, q1)].vector[ChildPosition(i, q1)] = ChildScalar(nodes[i].commitment)

IsTree(nodes, n, q1) == Formed(nodes, n, q1) /\ \A i \in 1 .. n : LinkedAt(nodes, i, q1)

(* Nodes are bound to the same blocks in both trees.                        *)
SameBlocks(new, nodes, n) ==
  \A i \in 0 .. n : new[i].occupied = nodes[i].occupied /\ new[i].vector[1] = nodes[i].vector[1]

(* One step of refreshPath restores the link of one node, and may break     *)
(* that of its parent.                                                      *)
LEMMA Recommitted ==
  ASSUME NEW q1 \in Nat \ {0}, NEW n \in Nat, NEW nodes, Formed(nodes, n, q1), NEW i \in 1 .. n
  PROVE  /\ Formed(Recommit(nodes, i, q1), n, q1)
         /\ SameBlocks(Recommit(nodes, i, q1), nodes, n)
         /\ LinkedAt(Recommit(nodes, i, q1), i, q1)
         /\ \A j \in 1 .. n : j # i /\ j # Parent(i, q1) /\ LinkedAt(nodes, j, q1)
                                => LinkedAt(Recommit(nodes, i, q1), j, q1)
<1>1. PICK new : new = Recommit(nodes, i, q1)
  OBVIOUS
<1>2. PICK p, pos : p = Parent(i, q1) /\ pos = ChildPosition(i, q1)
  OBVIOUS
<1>3. p \in 0 .. n /\ p # i /\ pos \in 2 .. q1 + 1 /\ p \in 0 .. i - 1
  <2>1. i \in Nat \ {0}
    OBVIOUS
  <2>2. pos \in 2 .. q1 + 1 /\ p \in 0 .. i - 1
    BY <2>1, <1>2, ParentFacts
  <2>3. QED
    BY <2>2
<1>4. PICK vector : vector = [nodes[p].vector EXCEPT ![pos] = ChildScalar(nodes[i].commitment)]
  OBVIOUS
<1>5. new = [nodes EXCEPT ![p] = Node(vector, nodes[p].occupied)]
  BY <1>1, <1>2, <1>4 DEF Recommit
<1>6. /\ DOMAIN vector = 1 .. q1 + 1 /\ vector[pos] = ChildScalar(nodes[i].commitment)
      /\ \A k \in 1 .. q1 + 1 : k # pos => vector[k] = nodes[p].vector[k]
  BY <1>3, <1>4 DEF Formed
<1>7. /\ DOMAIN new = 0 .. n /\ new[p].vector = vector /\ new[p].commitment = Commit(vector)
      /\ new[p].occupied = nodes[p].occupied
      /\ \A k \in 0 .. n : k # p => new[k] = nodes[k]
  BY <1>3, <1>5 DEF Formed, Node
<1>8. Formed(new, n, q1)
  <2>1. IsSequence(vector)
    BY <1>3, <1>4, Replaced DEF Formed
  <2>2. QED
    BY <2>1, <1>6, <1>7 DEF Formed
<1>9. SameBlocks(new, nodes, n)
  <2>1. 1 \in 1 .. q1 + 1 /\ 1 # pos
    BY <1>3
  <2>2. QED
    BY <2>1, <1>6, <1>7 DEF SameBlocks
<1>10. LinkedAt(new, i, q1)
  <2>1. new[i] = nodes[i]
    BY <1>3, <1>7
  <2>2. QED
    BY <2>1, <1>2, <1>6, <1>7 DEF LinkedAt
<1>11. ASSUME NEW j \in 1 .. n, j # i, j # p, LinkedAt(nodes, j, q1)
       PROVE  LinkedAt(new, j, q1)
  <2>1. PICK pj, cj : pj = Parent(j, q1) /\ cj = ChildPosition(j, q1)
    OBVIOUS
  <2>2. pj \in 0 .. n /\ cj \in 1 .. q1 + 1
    <3>1. j \in Nat \ {0}
      OBVIOUS
    <3>2. pj \in 0 .. j - 1 /\ cj \in 2 .. q1 + 1
      BY <2>1, <3>1, ParentFacts
    <3>3. QED
      BY <3>2
  <2>3. nodes[pj].vector[cj] = ChildScalar(nodes[j].commitment)
    BY <1>11, <2>1 DEF LinkedAt
  <2>4. new[j] = nodes[j]
    BY <1>7, <1>11
  <2>5. new[pj].vector[cj] = nodes[pj].vector[cj]
    <3>1. CASE pj = p
      <4>1. i \in Nat \ {0} /\ j \in Nat \ {0}
        OBVIOUS
      <4>2. cj # pos
        BY <3>1, <4>1, <1>2, <1>11, <2>1, OnePlace
      <4>3. QED
        BY <3>1, <4>2, <2>2, <1>6, <1>7
    <3>2. CASE pj # p
      BY <3>2, <2>2, <1>7
    <3>3. QED
      BY <3>1, <3>2
  <2>6. QED
    BY <2>1, <2>3, <2>4, <2>5 DEF LinkedAt
<1>12. QED
  BY <1>1, <1>2, <1>8, <1>9, <1>10, <1>11

-----------------------------------------------------------------------------
(* refreshPath                                                              *)

Refresh(nodes, i, q1) == IF i = 0 THEN nodes ELSE Recommit(nodes, i, q1)

(* The tree after each node of the path.                                    *)
RefreshedUpTo(nodes, path, n, q1) ==
  CHOOSE refreshed : refreshed = [k \in 0 .. n |->
    IF k = 0 THEN nodes ELSE Refresh(refreshed[k - 1], path[k], q1)]

LEMMA RefreshedDefined ==
  ASSUME NEW nodes, NEW path, NEW n \in Nat, NEW q1
  PROVE  RefreshedUpTo(nodes, path, n, q1) = [k \in 0 .. n |->
           IF k = 0 THEN nodes
           ELSE Refresh(RefreshedUpTo(nodes, path, n, q1)[k - 1], path[k], q1)]
<1> DEFINE P == {m \in Nat : \E f :
                    f = [k \in 0 .. m |-> IF k = 0 THEN nodes ELSE Refresh(f[k - 1], path[k], q1)]}
<1>1. 0 \in P
  <2>1. PICK f : f = [k \in 0 .. 0 |-> nodes]
    OBVIOUS
  <2>2. f = [k \in 0 .. 0 |-> IF k = 0 THEN nodes ELSE Refresh(f[k - 1], path[k], q1)]
    BY <2>1
  <2>3. QED
    BY <2>2
<1>2. ASSUME NEW m \in Nat, m \in P
      PROVE  m + 1 \in P
  <2>1. PICK f : f = [k \in 0 .. m |-> IF k = 0 THEN nodes ELSE Refresh(f[k - 1], path[k], q1)]
    BY <1>2
  <2>2. PICK g : g = [k \in 0 .. m + 1 |->
                        IF k = 0 THEN nodes
                        ELSE IF k <= m THEN f[k] ELSE Refresh(f[m], path[m + 1], q1)]
    OBVIOUS
  <2>3. ASSUME NEW k \in 0 .. m + 1
        PROVE  g[k] = IF k = 0 THEN nodes ELSE Refresh(g[k - 1], path[k], q1)
    <3>1. CASE k = 0
      BY <3>1, <2>2
    <3>2. CASE k # 0
      <4>1. /\ k - 1 \in 0 .. m /\ k - 1 \in 0 .. m + 1 /\ k - 1 <= m
            /\ k <= m \/ (k - 1 = m /\ k = m + 1)
        BY <3>2
      <4>2. g[k - 1] = f[k - 1]
        BY <4>1, <2>1, <2>2
      <4>3. CASE k <= m
        BY <4>1, <4>2, <4>3, <3>2, <2>1, <2>2
      <4>4. CASE ~(k <= m)
        BY <4>1, <4>2, <4>4, <3>2, <2>2
      <4>5. QED
        BY <4>3, <4>4
    <3>3. QED
      BY <3>1, <3>2
  <2>4. g = [k \in 0 .. m + 1 |-> IF k = 0 THEN nodes ELSE Refresh(g[k - 1], path[k], q1)]
    BY <2>2, <2>3
  <2>5. QED
    BY <2>4
<1>3. n \in P
  <2> HIDE DEF P
  <2>1. QED
    BY <1>1, <1>2, SetInduction
<1>4. QED
  BY <1>3 DEF RefreshedUpTo

(* After m nodes of its path, the link of the next one alone may be broken. *)
LinkedBut(nodes, n, q1, path, m) ==
  \A j \in 1 .. n : LinkedAt(nodes, j, q1) \/ (m < Len(path) /\ j = path[m + 1])

LEMMA RefreshedFurther ==
  ASSUME NEW q1 \in Nat \ {0}, NEW n \in Nat, NEW s \in 0 .. n, NEW path, IsPath(path, s, q1),
         NEW m \in Nat, m < Len(path),
         NEW nodes, Formed(nodes, n, q1), LinkedBut(nodes, n, q1, path, m)
  PROVE  /\ Formed(Refresh(nodes, path[m + 1], q1), n, q1)
         /\ SameBlocks(Refresh(nodes, path[m + 1], q1), nodes, n)
         /\ LinkedBut(Refresh(nodes, path[m + 1], q1), n, q1, path, m + 1)
<1>1. PICK i, new : i = path[m + 1] /\ new = Refresh(nodes, i, q1)
  OBVIOUS
<1>2. PICK l \in Nat \ {0} : l = Len(path)
  BY DEF IsPath
<1>3. /\ path[l] = 0
      /\ \A k \in 1 .. l : path[k] \in 0 .. s
      /\ \A k \in 1 .. l - 1 : path[k] # 0 /\ path[k + 1] = Parent(path[k], q1)
  BY <1>2 DEF IsPath
<1>4. m + 1 \in 1 .. l /\ i \in 0 .. n
  <2>1. m + 1 \in 1 .. l
    BY <1>2
  <2>2. i \in 0 .. s
    BY <2>1, <1>1, <1>3
  <2>3. QED
    BY <2>1, <2>2
<1>5. \A j \in 1 .. n : LinkedAt(nodes, j, q1) \/ j = i
  BY <1>1 DEF LinkedBut
<1>6. CASE i = 0
  <2>1. new = nodes
    BY <1>1, <1>6 DEF Refresh
  <2>2. \A j \in 1 .. n : LinkedAt(nodes, j, q1)
    BY <1>5, <1>6
  <2>3. QED
    BY <2>1, <2>2, <1>1 DEF LinkedBut, SameBlocks
<1>7. CASE i # 0
  <2>1. new = Recommit(nodes, i, q1) /\ i \in 1 .. n
    BY <1>1, <1>4, <1>7 DEF Refresh
  <2>2. m + 1 < l
    BY <1>1, <1>3, <1>4, <1>7
  <2>3. path[(m + 1) + 1] = Parent(i, q1)
    <3>1. m + 1 \in 1 .. l - 1
      BY <2>2, <1>4
    <3>2. QED
      BY <3>1, <1>1, <1>3
  <2>4. /\ Formed(new, n, q1) /\ SameBlocks(new, nodes, n) /\ LinkedAt(new, i, q1)
        /\ \A j \in 1 .. n : j # i /\ j # Parent(i, q1) /\ LinkedAt(nodes, j, q1)
                               => LinkedAt(new, j, q1)
    BY <2>1, Recommitted
  <2>5. LinkedBut(new, n, q1, path, m + 1)
    BY <2>2, <2>3, <2>4, <1>2, <1>5 DEF LinkedBut
  <2>6. QED
    BY <2>4, <2>5, <1>1
<1>8. QED
  BY <1>6, <1>7

(* A tree in which one node has changed is a tree again when its path is    *)
(* refreshed.                                                               *)
LEMMA PathRefreshed ==
  ASSUME NEW q1 \in Nat \ {0}, NEW n \in Nat, NEW s \in 0 .. n,
         NEW nodes, Formed(nodes, n, q1), \A j \in 1 .. n : j # s => LinkedAt(nodes, j, q1)
  PROVE  /\ IsTree(RefreshPath(nodes, s, q1), n, q1)
         /\ SameBlocks(RefreshPath(nodes, s, q1), nodes, n)
<1>1. PICK path : path = Path(s, q1)
  OBVIOUS
<1>2. IsPath(path, s, q1)
  BY <1>1, PathIs
<1>3. PICK l \in Nat \ {0} : l = Len(path)
  BY <1>2 DEF IsPath
<1>4. PICK ref : ref = RefreshedUpTo(nodes, path, l, q1)
  OBVIOUS
<1>5. ref = [k \in 0 .. l |-> IF k = 0 THEN nodes ELSE Refresh(ref[k - 1], path[k], q1)]
  BY <1>4, RefreshedDefined
<1>6. RefreshPath(nodes, s, q1) = ref[l]
  BY <1>1, <1>3, <1>4 DEF RefreshPath, RefreshedUpTo, Refresh
<1>7. \A k \in 0 .. l : ref[k] = IF k = 0 THEN nodes ELSE Refresh(ref[k - 1], path[k], q1)
  BY <1>5, Zenon
<1> DEFINE P == {m \in Nat : m <= l =>
                   /\ Formed(ref[m], n, q1) /\ SameBlocks(ref[m], nodes, n)
                   /\ LinkedBut(ref[m], n, q1, path, m)}
<1>8. 0 \in P
  <2>1. ref[0] = nodes
    BY <1>7
  <2>2. path[0 + 1] = s /\ 0 < Len(path)
    BY <1>2, <1>3 DEF IsPath
  <2>3. QED
    BY <2>1, <2>2 DEF SameBlocks, LinkedBut
<1>9. ASSUME NEW m \in Nat, m \in P
      PROVE  m + 1 \in P
  <2> SUFFICES ASSUME m + 1 <= l
               PROVE  /\ Formed(ref[m + 1], n, q1) /\ SameBlocks(ref[m + 1], nodes, n)
                      /\ LinkedBut(ref[m + 1], n, q1, path, m + 1)
    OBVIOUS
  <2>1. m <= l /\ m < Len(path) /\ m + 1 \in 0 .. l /\ m + 1 # 0 /\ (m + 1) - 1 = m
    BY <1>3
  <2>2. PICK old : old = ref[m]
    OBVIOUS
  <2>3. Formed(old, n, q1) /\ SameBlocks(old, nodes, n) /\ LinkedBut(old, n, q1, path, m)
    BY <1>9, <2>1, <2>2
  <2>4. PICK new : new = Refresh(old, path[m + 1], q1)
    OBVIOUS
  <2>5. ref[m + 1] = new
    BY <1>7, <2>1, <2>2, <2>4
  <2>6. Formed(new, n, q1) /\ SameBlocks(new, old, n) /\ LinkedBut(new, n, q1, path, m + 1)
    BY <1>2, <2>1, <2>3, <2>4, RefreshedFurther
  <2>7. SameBlocks(new, nodes, n)
    BY <2>3, <2>6 DEF SameBlocks
  <2>8. QED
    BY <2>5, <2>6, <2>7
<1>10. l \in P
  <2> HIDE DEF P
  <2>1. QED
    BY <1>8, <1>9, SetInduction
<1>11. QED
  BY <1>3, <1>6, <1>10 DEF IsTree, LinkedBut

-----------------------------------------------------------------------------
(* ensure                                                                   *)

WithNode(nodes, n, q1) ==
  [k \in DOMAIN nodes \cup {n} |-> IF k = n THEN Empty(n, q1) ELSE nodes[k]]

Grow(nodes, n, q1) ==
  IF n \in DOMAIN nodes THEN nodes ELSE RefreshPath(WithNode(nodes, n, q1), n, q1)

GrownUpTo(nodes, i, q1) ==
  CHOOSE grown : grown = [n \in 0 .. i |->
    Grow(IF n = 0 THEN nodes ELSE grown[n - 1], n, q1)]

LEMMA GrownDefined ==
  ASSUME NEW nodes, NEW i \in Nat, NEW q1
  PROVE  GrownUpTo(nodes, i, q1) = [n \in 0 .. i |->
           Grow(IF n = 0 THEN nodes ELSE GrownUpTo(nodes, i, q1)[n - 1], n, q1)]
<1> DEFINE P == {m \in Nat : \E f :
                    f = [n \in 0 .. m |-> Grow(IF n = 0 THEN nodes ELSE f[n - 1], n, q1)]}
<1>1. 0 \in P
  <2>1. PICK f : f = [n \in 0 .. 0 |-> Grow(nodes, 0, q1)]
    OBVIOUS
  <2>2. f = [n \in 0 .. 0 |-> Grow(IF n = 0 THEN nodes ELSE f[n - 1], n, q1)]
    BY <2>1
  <2>3. QED
    BY <2>2
<1>2. ASSUME NEW m \in Nat, m \in P
      PROVE  m + 1 \in P
  <2>1. PICK f : f = [n \in 0 .. m |-> Grow(IF n = 0 THEN nodes ELSE f[n - 1], n, q1)]
    BY <1>2
  <2>2. PICK g : g = [n \in 0 .. m + 1 |->
                        IF n <= m THEN f[n] ELSE Grow(f[m], m + 1, q1)]
    OBVIOUS
  <2>3. ASSUME NEW n \in 0 .. m + 1
        PROVE  g[n] = Grow(IF n = 0 THEN nodes ELSE g[n - 1], n, q1)
    <3>1. CASE n = 0
      <4>1. n <= m /\ n \in 0 .. m
        BY <3>1
      <4>2. g[n] = f[n] /\ f[n] = Grow(nodes, n, q1)
        BY <4>1, <3>1, <2>1, <2>2
      <4>3. QED
        BY <4>2, <3>1
    <3>2. CASE n # 0
      <4>1. /\ n - 1 \in 0 .. m /\ n - 1 \in 0 .. m + 1 /\ n - 1 <= m
            /\ (n <= m /\ n \in 0 .. m) \/ (~(n <= m) /\ n - 1 = m /\ n = m + 1)
        BY <3>2
      <4>2. g[n - 1] = f[n - 1]
        BY <4>1, <2>2
      <4>3. CASE n <= m
        <5>1. g[n] = f[n] /\ f[n] = Grow(f[n - 1], n, q1)
          BY <4>1, <4>3, <3>2, <2>1, <2>2
        <5>2. QED
          BY <5>1, <4>2, <3>2
      <4>4. CASE ~(n <= m)
        <5>1. g[n] = Grow(f[m], m + 1, q1)
          BY <4>4, <2>2
        <5>2. QED
          BY <5>1, <4>1, <4>2, <4>4, <3>2
      <4>5. QED
        BY <4>3, <4>4
    <3>3. QED
      BY <3>1, <3>2
  <2>4. g = [n \in 0 .. m + 1 |-> Grow(IF n = 0 THEN nodes ELSE g[n - 1], n, q1)]
    BY <2>2, <2>3
  <2>5. QED
    BY <2>4
<1>3. i \in P
  <2> HIDE DEF P
  <2>1. QED
    BY <1>1, <1>2, SetInduction
<1>4. QED
  BY <1>3 DEF GrownUpTo

(* What ensure makes of a tree that lacks no node before the one wanted.    *)
LEMMA EnsureGrows ==
  ASSUME NEW nodes, NEW i \in Nat, NEW q1, \A n \in 0 .. i - 1 : n \in DOMAIN nodes
  PROVE  Ensure(nodes, i, q1) = Grow(nodes, i, q1)
<1>1. PICK grown : grown = GrownUpTo(nodes, i, q1)
  OBVIOUS
<1>2. grown = [n \in 0 .. i |-> Grow(IF n = 0 THEN nodes ELSE grown[n - 1], n, q1)]
  BY <1>1, GrownDefined
<1>3. Ensure(nodes, i, q1) = grown[i]
  BY <1>1 DEF Ensure, GrownUpTo, Grow, WithNode
<1>4. \A n \in 0 .. i : grown[n] = Grow(IF n = 0 THEN nodes ELSE grown[n - 1], n, q1)
  BY <1>2, Zenon
<1> DEFINE P == {m \in Nat : m <= i - 1 => grown[m] = nodes}
<1>5. 0 \in P
  <2> SUFFICES ASSUME 0 <= i - 1
               PROVE  grown[0] = nodes
    OBVIOUS
  <2>1. grown[0] = Grow(nodes, 0, q1) /\ 0 \in DOMAIN nodes
    BY <1>4
  <2>2. QED
    BY <2>1 DEF Grow
<1>6. ASSUME NEW m \in Nat, m \in P
      PROVE  m + 1 \in P
  <2> SUFFICES ASSUME m + 1 <= i - 1
               PROVE  grown[m + 1] = nodes
    OBVIOUS
  <2>1. m <= i - 1 /\ m + 1 \in 0 .. i /\ m + 1 \in 0 .. i - 1 /\ m + 1 # 0 /\ (m + 1) - 1 = m
    OBVIOUS
  <2>2. grown[m] = nodes
    BY <1>6, <2>1
  <2>3. grown[m + 1] = Grow(nodes, m + 1, q1)
    BY <1>4, <2>1, <2>2
  <2>4. QED
    BY <2>1, <2>3 DEF Grow
<1>7. ASSUME i # 0
      PROVE  grown[i - 1] = nodes
  <2>1. i - 1 \in Nat /\ i - 1 <= i - 1
    BY <1>7
  <2>2. i - 1 \in P
    <3> HIDE DEF P
    <3>1. QED
      BY <2>1, <1>5, <1>6, SetInduction
  <2>3. QED
    BY <2>1, <2>2
<1>8. i \in 0 .. i
  OBVIOUS
<1>9. QED
  BY <1>3, <1>4, <1>7, <1>8

LEMMA EmptyVector ==
  ASSUME NEW q1 \in Nat, NEW n
  PROVE  /\ IsSequence(Empty(n, q1).vector) /\ DOMAIN Empty(n, q1).vector = 1 .. q1 + 1
         /\ Empty(n, q1).commitment = Commit(Empty(n, q1).vector)
         /\ ~Empty(n, q1).occupied
<1>1. PICK t : t = [c \in 1 .. q1 |-> PlaceholderScalar(Children(n, q1)[c])]
  OBVIOUS
<1>2. t \in [1 .. q1 -> {PlaceholderScalar(Children(n, q1)[c]) : c \in 1 .. q1}]
  BY <1>1
<1>3. IsSequence(t) /\ Len(t) = q1
  BY <1>2, FunctionIsSequence
<1>4. PICK vector : vector = <<Unbound>> \o t
  OBVIOUS
<1>5. IsSequence(vector) /\ Len(vector) = q1 + 1
  BY <1>3, <1>4, Prepended
<1>6. DOMAIN vector = 1 .. q1 + 1
  BY <1>5, SequenceFacts
<1>7. Empty(n, q1) = Node(vector, FALSE)
  BY <1>1, <1>4 DEF Empty
<1>8. QED
  BY <1>5, <1>6, <1>7 DEF Node

(* A node more, behind the last one.                                        *)
LEMMA NodeAdded ==
  ASSUME NEW q1 \in Nat \ {0}, NEW n \in Nat, NEW nodes, IsTree(nodes, n - 1, q1)
  PROVE  /\ IsTree(Grow(nodes, n, q1), n, q1)
         /\ SameBlocks(Grow(nodes, n, q1), nodes, n - 1)
         /\ ~Grow(nodes, n, q1)[n].occupied
<1>1. DOMAIN nodes = 0 .. n - 1 /\ n \notin 0 .. n - 1
  BY DEF IsTree, Formed
<1>2. PICK ext : ext = WithNode(nodes, n, q1)
  OBVIOUS
<1>3. /\ DOMAIN ext = 0 .. n /\ ext[n] = Empty(n, q1)
      /\ \A k \in 0 .. n - 1 : ext[k] = nodes[k]
  <2>1. 0 .. n = (0 .. n - 1) \cup {n}
    OBVIOUS
  <2>2. QED
    BY <2>1, <1>1, <1>2 DEF WithNode
<1>4. \A k \in 0 .. n : k = n \/ k \in 0 .. n - 1
  OBVIOUS
<1>5. Formed(ext, n, q1)
  BY <1>3, <1>4, EmptyVector DEF IsTree, Formed
<1>6. ASSUME NEW j \in 1 .. n, j # n
      PROVE  LinkedAt(ext, j, q1)
  <2>1. j \in Nat \ {0} /\ j \in 1 .. n - 1 /\ j \in 0 .. n - 1
    BY <1>6
  <2>2. PICK p : p = Parent(j, q1) /\ p \in 0 .. j - 1
    BY <2>1, ParentFacts
  <2>3. p \in 0 .. n - 1
    BY <2>1, <2>2
  <2>4. ext[p] = nodes[p] /\ ext[j] = nodes[j]
    BY <2>1, <2>3, <1>3
  <2>5. LinkedAt(nodes, j, q1)
    BY <2>1 DEF IsTree
  <2>6. QED
    BY <2>2, <2>4, <2>5 DEF LinkedAt
<1>7. PICK new : new = RefreshPath(ext, n, q1)
  OBVIOUS
<1>8. n \in 0 .. n
  OBVIOUS
<1>9. IsTree(new, n, q1) /\ SameBlocks(new, ext, n)
  BY <1>5, <1>6, <1>7, <1>8, PathRefreshed
<1>10. Grow(nodes, n, q1) = new
  BY <1>1, <1>2, <1>7 DEF Grow
<1>11. ~new[n].occupied
  BY <1>3, <1>8, <1>9, EmptyVector DEF SameBlocks
<1>12. SameBlocks(new, nodes, n - 1)
  BY <1>3, <1>9 DEF SameBlocks
<1>13. QED
  BY <1>9, <1>10, <1>11, <1>12

-----------------------------------------------------------------------------
(* Bind                                                                     *)

(* A node that is there is bound to a block and its path refreshed.         *)
Rebind(tree, s, m, q1) ==
  RefreshPath([tree EXCEPT ![s] = Node([tree[s].vector EXCEPT ![1] = m], TRUE)], s, q1)

LEMMA Rebound ==
  ASSUME NEW q1 \in Nat \ {0}, NEW n \in Nat, NEW tree, IsTree(tree, n, q1),
         NEW s \in 0 .. n, NEW m
  PROVE  /\ IsTree(Rebind(tree, s, m, q1), n, q1)
         /\ Rebind(tree, s, m, q1)[s].occupied /\ Rebind(tree, s, m, q1)[s].vector[1] = m
         /\ \A i \in 0 .. n : i # s =>
              /\ Rebind(tree, s, m, q1)[i].occupied = tree[i].occupied
              /\ Rebind(tree, s, m, q1)[i].vector[1] = tree[i].vector[1]
<1>1. PICK vector : vector = [tree[s].vector EXCEPT ![1] = m]
  OBVIOUS
<1>2. PICK bound : bound = [tree EXCEPT ![s] = Node(vector, TRUE)]
  OBVIOUS
<1>3. Formed(tree, n, q1) /\ 1 \in 1 .. q1 + 1
  BY DEF IsTree
<1>4. /\ DOMAIN vector = 1 .. q1 + 1 /\ vector[1] = m
      /\ \A k \in 1 .. q1 + 1 : k # 1 => vector[k] = tree[s].vector[k]
  BY <1>1, <1>3 DEF Formed
<1>5. /\ DOMAIN bound = 0 .. n /\ bound[s].vector = vector
      /\ bound[s].commitment = Commit(vector) /\ bound[s].occupied
      /\ \A i \in 0 .. n : i # s => bound[i] = tree[i]
  BY <1>2, <1>3 DEF Formed, Node
<1>6. Formed(bound, n, q1)
  <2>1. IsSequence(vector)
    BY <1>1, <1>3, Replaced DEF Formed
  <2>2. QED
    BY <2>1, <1>3, <1>4, <1>5 DEF Formed
<1>7. ASSUME NEW j \in 1 .. n, j # s
      PROVE  LinkedAt(bound, j, q1)
  <2>1. j \in Nat \ {0} /\ j \in 0 .. n
    OBVIOUS
  <2>2. PICK p, pos : p = Parent(j, q1) /\ pos = ChildPosition(j, q1)
    OBVIOUS
  <2>3. p \in 0 .. j - 1 /\ pos \in 2 .. q1 + 1
    BY <2>1, <2>2, ParentFacts
  <2>4. p \in 0 .. n /\ pos \in 1 .. q1 + 1 /\ pos # 1
    BY <2>3
  <2>5. tree[p].vector[pos] = ChildScalar(tree[j].commitment)
    BY <2>2 DEF IsTree, LinkedAt
  <2>6. bound[p].vector[pos] = tree[p].vector[pos]
    BY <2>4, <1>4, <1>5
  <2>7. bound[j] = tree[j]
    BY <2>1, <1>5, <1>7
  <2>8. QED
    BY <2>2, <2>5, <2>6, <2>7 DEF LinkedAt
<1>8. PICK new : new = RefreshPath(bound, s, q1)
  OBVIOUS
<1>9. IsTree(new, n, q1) /\ SameBlocks(new, bound, n)
  BY <1>6, <1>7, <1>8, PathRefreshed
<1>10. Rebind(tree, s, m, q1) = new
  BY <1>1, <1>2, <1>8 DEF Rebind
<1>11. QED
  BY <1>4, <1>5, <1>9, <1>10 DEF SameBlocks

(* Bind, of a node the tree has.                                            *)
LEMMA BindsOld ==
  ASSUME NEW q1 \in Nat \ {0}, NEW n \in Nat, NEW tree, IsTree(tree, n, q1), NEW s \in 0 .. n, NEW m
  PROVE  Bind(tree, s, m, q1) = Rebind(tree, s, m, q1)
<1>1. DOMAIN tree = 0 .. n
  BY DEF IsTree, Formed
<1>2. s \in Nat /\ \A k \in 0 .. s - 1 : k \in DOMAIN tree
  BY <1>1
<1>3. Ensure(tree, s, q1) = Grow(tree, s, q1)
  BY <1>2, EnsureGrows
<1>4. Grow(tree, s, q1) = tree
  BY <1>1 DEF Grow
<1>5. QED
  BY <1>3, <1>4 DEF Bind, Rebind

(* Bind, of the node after the last one.                                    *)
LEMMA BindsNext ==
  ASSUME NEW q1 \in Nat \ {0}, NEW n \in Nat, NEW tree, IsTree(tree, n, q1), NEW m
  PROVE  Bind(tree, n + 1, m, q1) = Rebind(Grow(tree, n + 1, q1), n + 1, m, q1)
<1>1. DOMAIN tree = 0 .. n
  BY DEF IsTree, Formed
<1>2. n + 1 \in Nat /\ \A k \in 0 .. (n + 1) - 1 : k \in DOMAIN tree
  BY <1>1
<1>3. Ensure(tree, n + 1, q1) = Grow(tree, n + 1, q1)
  BY <1>2, EnsureGrows
<1>4. QED
  BY <1>3 DEF Bind, Rebind

(* NewBAT: the root alone.                                                  *)
LEMMA RootAlone ==
  ASSUME NEW q1 \in Nat \ {0}
  PROVE  IsTree(NewBAT(q1), 0, q1) /\ ~NewBAT(q1)[0].occupied
<1>1. PICK none : none = [k \in {} |-> Nothing]
  OBVIOUS
<1>2. DOMAIN none = {}
  BY <1>1
<1>3. 0 .. 0 - 1 = {} /\ 1 .. 0 - 1 = {}
  OBVIOUS
<1>4. Ensure(none, 0, q1) = Grow(none, 0, q1)
  BY <1>3, EnsureGrows
<1>5. IsTree(none, 0 - 1, q1)
  BY <1>2, <1>3 DEF IsTree, Formed
<1>6. IsTree(Grow(none, 0, q1), 0, q1) /\ ~Grow(none, 0, q1)[0].occupied
  BY <1>5, NodeAdded
<1>7. QED
  BY <1>1, <1>4, <1>6 DEF NewBAT

-----------------------------------------------------------------------------
(* Blocks, and the tree of a chain                                          *)

(* A block of sequence number s whose hash opens to what it holds.          *)
Intact(prev, content, value, s) ==
  [prevHash |-> prev, content |-> content, digest |-> BlockDigest(s, content),
   randomness |-> Opening(BlockContext(s, prev), BlockDigest(s, content), value), value |-> value]

Genuine(block, s) == block = Intact(block.prevHash, block.content, block.value, s)

(* Every node but the root is bound to the block of its number.             *)
Follows(tree, blocks, n, q1) ==
  /\ IsTree(tree, n, q1) /\ ~tree[0].occupied
  /\ \A s \in 1 .. n : /\ Genuine(blocks[s], s)
                       /\ tree[s].occupied /\ tree[s].vector[1] = ScalarOf(blocks[s])

LEMMA NewBlockGenuine ==
  ASSUME NEW s, NEW prev
  PROVE  Genuine(NewBlock(s, prev), s)
BY DEF Genuine, NewBlock, Intact

(* A block more, behind the last one.                                       *)
LEMMA BlockAppended ==
  ASSUME NEW q1 \in Nat \ {0}, NEW n \in Nat, NEW tree, NEW blocks,
         IsSequence(blocks), Len(blocks) = n, Follows(tree, blocks, n, q1),
         NEW block, Genuine(block, n + 1)
  PROVE  Follows(Bind(tree, n + 1, ScalarOf(block), q1), Append(blocks, block), n + 1, q1)
<1>1. PICK all : all = Append(blocks, block)
  OBVIOUS
<1>2. all[n + 1] = block /\ \A s \in 1 .. n : all[s] = blocks[s]
  BY <1>1, Appended
<1>3. PICK grown : grown = Grow(tree, n + 1, q1)
  OBVIOUS
<1>4. n + 1 \in Nat /\ (n + 1) - 1 = n /\ n + 1 \in 0 .. n + 1
  OBVIOUS
<1>5. IsTree(tree, n, q1)
  BY DEF Follows
<1>6. IsTree(grown, n + 1, q1) /\ SameBlocks(grown, tree, n)
  <2>1. IsTree(tree, (n + 1) - 1, q1)
    BY <1>4, <1>5
  <2>2. IsTree(grown, n + 1, q1) /\ SameBlocks(grown, tree, (n + 1) - 1)
    BY <2>1, <1>3, <1>4, NodeAdded
  <2>3. QED
    BY <2>2, <1>4
<1>7. PICK m, new : m = ScalarOf(block) /\ new = Rebind(grown, n + 1, m, q1)
  OBVIOUS
<1>8. Bind(tree, n + 1, ScalarOf(block), q1) = new
  BY <1>3, <1>5, <1>7, BindsNext
<1>9. /\ IsTree(new, n + 1, q1) /\ new[n + 1].occupied /\ new[n + 1].vector[1] = m
      /\ \A i \in 0 .. n + 1 : i # n + 1 =>
           new[i].occupied = grown[i].occupied /\ new[i].vector[1] = grown[i].vector[1]
  BY <1>4, <1>6, <1>7, Rebound
<1>10. \A i \in 0 .. n : new[i].occupied = tree[i].occupied /\ new[i].vector[1] = tree[i].vector[1]
  <2>1. \A i \in 0 .. n : i \in 0 .. n + 1 /\ i # n + 1
    OBVIOUS
  <2>2. QED
    BY <2>1, <1>6, <1>9 DEF SameBlocks
<1>11. ~new[0].occupied
  <2>1. 0 \in 0 .. n
    OBVIOUS
  <2>2. QED
    BY <2>1, <1>10 DEF Follows
<1>12. ASSUME NEW s \in 1 .. n + 1
       PROVE  /\ Genuine(all[s], s)
              /\ new[s].occupied /\ new[s].vector[1] = ScalarOf(all[s])
  <2>1. CASE s = n + 1
    BY <2>1, <1>2, <1>7, <1>9
  <2>2. CASE s # n + 1
    <3>1. s \in 1 .. n /\ s \in 0 .. n
      BY <2>2
    <3>2. QED
      BY <3>1, <1>2, <1>10 DEF Follows
  <2>3. QED
    BY <2>1, <2>2
<1>13. QED
  BY <1>1, <1>8, <1>9, <1>11, <1>12 DEF Follows

(* build, after each transaction.                                           *)
BuildOn(before, n, arity) ==
  [blocks |-> Append(before.blocks, NewBlock(n, before.prev)),
   tree   |-> Bind(before.tree, n, ScalarOf(NewBlock(n, before.prev)), arity),
   prev   |-> ChainHash(NewBlock(n, before.prev).value)]

BuildFirst(arity, prev) == [blocks |-> <<>>, tree |-> NewBAT(arity), prev |-> prev]

BuiltUpTo(arity, prev, n) ==
  CHOOSE built : built = [k \in 0 .. n |->
    IF k = 0 THEN BuildFirst(arity, prev) ELSE BuildOn(built[k - 1], k, arity)]

LEMMA BuiltDefined ==
  ASSUME NEW arity, NEW prev, NEW n \in Nat
  PROVE  BuiltUpTo(arity, prev, n) = [k \in 0 .. n |->
           IF k = 0 THEN BuildFirst(arity, prev)
           ELSE BuildOn(BuiltUpTo(arity, prev, n)[k - 1], k, arity)]
<1> DEFINE P == {m \in Nat : \E f :
                    f = [k \in 0 .. m |-> IF k = 0 THEN BuildFirst(arity, prev)
                                          ELSE BuildOn(f[k - 1], k, arity)]}
<1>1. 0 \in P
  <2>1. PICK f : f = [k \in 0 .. 0 |-> BuildFirst(arity, prev)]
    OBVIOUS
  <2>2. f = [k \in 0 .. 0 |-> IF k = 0 THEN BuildFirst(arity, prev) ELSE BuildOn(f[k - 1], k, arity)]
    BY <2>1
  <2>3. QED
    BY <2>2
<1>2. ASSUME NEW m \in Nat, m \in P
      PROVE  m + 1 \in P
  <2>1. PICK f : f = [k \in 0 .. m |-> IF k = 0 THEN BuildFirst(arity, prev)
                                       ELSE BuildOn(f[k - 1], k, arity)]
    BY <1>2
  <2>2. PICK g : g = [k \in 0 .. m + 1 |->
                        IF k = 0 THEN BuildFirst(arity, prev)
                        ELSE IF k <= m THEN f[k] ELSE BuildOn(f[m], m + 1, arity)]
    OBVIOUS
  <2>3. ASSUME NEW k \in 0 .. m + 1
        PROVE  g[k] = IF k = 0 THEN BuildFirst(arity, prev) ELSE BuildOn(g[k - 1], k, arity)
    <3>1. CASE k = 0
      BY <3>1, <2>2
    <3>2. CASE k # 0
      <4>1. /\ k - 1 \in 0 .. m /\ k - 1 \in 0 .. m + 1 /\ k - 1 <= m
            /\ k <= m \/ (k - 1 = m /\ k = m + 1)
        BY <3>2
      <4>2. g[k - 1] = f[k - 1]
        BY <4>1, <2>1, <2>2
      <4>3. CASE k <= m
        BY <4>1, <4>2, <4>3, <3>2, <2>1, <2>2
      <4>4. CASE ~(k <= m)
        BY <4>1, <4>2, <4>4, <3>2, <2>2
      <4>5. QED
        BY <4>3, <4>4
    <3>3. QED
      BY <3>1, <3>2
  <2>4. g = [k \in 0 .. m + 1 |-> IF k = 0 THEN BuildFirst(arity, prev)
                                  ELSE BuildOn(g[k - 1], k, arity)]
    BY <2>2, <2>3
  <2>5. QED
    BY <2>4
<1>3. n \in P
  <2> HIDE DEF P
  <2>1. QED
    BY <1>1, <1>2, SetInduction
<1>4. QED
  BY <1>3 DEF BuiltUpTo

(* The chain and the tree Setup builds, from whatever hash it goes on from. *)
LEMMA ChainBuilt ==
  ASSUME NEW q1 \in Nat \ {0}, NEW prev, Len(Order) \in Nat
  PROVE  /\ IsSequence(Build(q1, prev).blocks) /\ Len(Build(q1, prev).blocks) = Len(Order)
         /\ Follows(Build(q1, prev).tree, Build(q1, prev).blocks, Len(Order), q1)
         /\ \A s \in 1 .. Len(Order) : Build(q1, prev).blocks[s].content = Original
<1>1. PICK n \in Nat : n = Len(Order)
  OBVIOUS
<1>2. PICK built : built = BuiltUpTo(q1, prev, n)
  OBVIOUS
<1>3. built = [k \in 0 .. n |-> IF k = 0 THEN BuildFirst(q1, prev) ELSE BuildOn(built[k - 1], k, q1)]
  BY <1>2, BuiltDefined
<1>4. Build(q1, prev) = built[n]
  BY <1>1, <1>2 DEF Build, BuiltUpTo, BuildFirst, BuildOn
<1>5. \A k \in 0 .. n :
        built[k] = IF k = 0 THEN BuildFirst(q1, prev) ELSE BuildOn(built[k - 1], k, q1)
  BY <1>3, Zenon
<1> DEFINE P == {m \in Nat : m <= n =>
                   /\ IsSequence(built[m].blocks) /\ Len(built[m].blocks) = m
                   /\ Follows(built[m].tree, built[m].blocks, m, q1)
                   /\ \A s \in 1 .. m : built[m].blocks[s].content = Original}
<1>6. 0 \in P
  <2>1. built[0] = BuildFirst(q1, prev)
    BY <1>5
  <2>2. built[0].blocks = <<>> /\ built[0].tree = NewBAT(q1)
    BY <2>1 DEF BuildFirst
  <2>3. IsSequence(<<>>) /\ Len(<<>>) = 0
    BY EmptySeq DEF IsSequence
  <2>4. Follows(NewBAT(q1), <<>>, 0, q1)
    BY RootAlone DEF Follows
  <2>5. QED
    BY <2>2, <2>3, <2>4
<1>7. ASSUME NEW m \in Nat, m \in P
      PROVE  m + 1 \in P
  <2> SUFFICES ASSUME m + 1 <= n
               PROVE  /\ IsSequence(built[m + 1].blocks) /\ Len(built[m + 1].blocks) = m + 1
                      /\ Follows(built[m + 1].tree, built[m + 1].blocks, m + 1, q1)
                      /\ \A s \in 1 .. m + 1 : built[m + 1].blocks[s].content = Original
    OBVIOUS
  <2>1. m <= n /\ m + 1 \in 0 .. n /\ m + 1 # 0 /\ (m + 1) - 1 = m
    OBVIOUS
  <2>2. PICK before : before = built[m]
    OBVIOUS
  <2>3. PICK blocks, tree : blocks = before.blocks /\ tree = before.tree
    OBVIOUS
  <2>4. /\ IsSequence(blocks) /\ Len(blocks) = m /\ Follows(tree, blocks, m, q1)
        /\ \A s \in 1 .. m : blocks[s].content = Original
    BY <1>7, <2>1, <2>2, <2>3
  <2>5. built[m + 1] = BuildOn(before, m + 1, q1)
    BY <1>5, <2>1, <2>2
  <2>6. PICK block : block = NewBlock(m + 1, before.prev)
    OBVIOUS
  <2>7. /\ built[m + 1].blocks = Append(blocks, block)
        /\ built[m + 1].tree = Bind(tree, m + 1, ScalarOf(block), q1)
    BY <2>3, <2>5, <2>6 DEF BuildOn
  <2>8. Genuine(block, m + 1)
    BY <2>6, NewBlockGenuine
  <2>9. IsSequence(Append(blocks, block)) /\ Len(Append(blocks, block)) = m + 1
    BY <2>4, Appended
  <2>10. Follows(Bind(tree, m + 1, ScalarOf(block), q1), Append(blocks, block), m + 1, q1)
    BY <2>4, <2>8, BlockAppended
  <2>11. \A s \in 1 .. m + 1 : Append(blocks, block)[s].content = Original
    <3>1. block.content = Original
      BY <2>6 DEF NewBlock
    <3>2. /\ Append(blocks, block)[m + 1] = block
          /\ \A s \in 1 .. m : Append(blocks, block)[s] = blocks[s]
      BY <2>4, Appended
    <3>3. \A s \in 1 .. m + 1 : s = m + 1 \/ s \in 1 .. m
      OBVIOUS
    <3>4. QED
      BY <3>1, <3>2, <3>3, <2>4
  <2>12. QED
    BY <2>7, <2>9, <2>10, <2>11
<1>8. n \in P
  <2> HIDE DEF P
  <2>1. QED
    BY <1>6, <1>7, SetInduction
<1>9. QED
  BY <1>1, <1>4, <1>8

-----------------------------------------------------------------------------
(* The inductive invariant                                                  *)

(* The tree follows the chain, whatever was redacted.                       *)
TreeBound ==
  q # 0 => /\ q \in Arities /\ Len(Order) \in Nat /\ Z <= Len(Order)
           /\ IsSequence(chain) /\ DOMAIN chain = Blocks
           /\ Follows(bat, chain, Len(Order), q)

GrantsKnown == \A a \in authorized : q # 0 /\ a.seq \in Blocks

(* What a light node was given opens the path of every block it was given.  *)
Opens(openings, node, pos) == \E o \in openings : o.node = node /\ o.pos = pos

PathOpened(openings, s, q1) ==
  \A i \in ToSet(Path(s, q1)) : i # 0 => Opens(openings, Parent(i, q1), ChildPosition(i, q1))

AnswerComplete ==
  light # Nothing =>
    /\ q # 0
    /\ \A ev \in light.evidence : ev.seq \in Blocks /\ PathOpened(light.openings, ev.seq, q)

IInv == TreeBound /\ GrantsKnown /\ AnswerComplete

LEMMA ConstantFacts ==
  ASSUME Auditable
  PROVE  /\ Len(Order) \in Nat /\ Blocks \subseteq Nat \ {0} /\ Z \in Nat \ {0}
         /\ \A arity \in Arities : arity \in Nat \ {0} /\ arity # 1
  BY LenProperties DEF Auditable, Blocks

LEMMA InitIInv ==
  ASSUME Init
  PROVE  IInv
  BY DEF Init, IInv, TreeBound, GrantsKnown, AnswerComplete

LEMMA SetupKeeps ==
  ASSUME Auditable, IInv, NEW arity \in Arities, Setup(arity)
  PROVE  IInv'
<1>1. Len(Order) \in Nat /\ arity \in Nat \ {0}
  BY ConstantFacts
<1>2. PICK built : built = Build(arity, prevHash)
  OBVIOUS
<1>3. /\ q' = arity /\ chain' = built.blocks /\ bat' = built.tree
      /\ authorized' = {} /\ light' = Nothing /\ Z <= Len(Order)
  BY <1>2 DEF Setup
<1>4. /\ IsSequence(built.blocks) /\ Len(built.blocks) = Len(Order)
      /\ Follows(built.tree, built.blocks, Len(Order), arity)
  BY <1>1, <1>2, ChainBuilt
<1>5. DOMAIN built.blocks = Blocks
  BY <1>4, SequenceFacts DEF Blocks
<1>6. TreeBound'
  BY <1>1, <1>3, <1>4, <1>5 DEF TreeBound, Blocks
<1>7. QED
  BY <1>3, <1>6 DEF IInv, GrantsKnown, AnswerComplete

LEMMA AuthorizeKeeps ==
  ASSUME Auditable, IInv, NEW s \in Blocks, NEW content \in Contents, Authorize(s, content)
  PROVE  IInv'
<1>1. UNCHANGED <<q, chain, bat, light>>
  BY DEF Authorize
<1>2. TreeBound' /\ AnswerComplete'
  BY <1>1 DEF IInv, TreeBound, AnswerComplete, Blocks
<1>3. GrantsKnown'
  BY <1>1 DEF IInv, GrantsKnown, Authorize, Blocks
<1>4. QED
  BY <1>2, <1>3 DEF IInv

(* The collision is found for the block as it is, by its own randomness.    *)
LEMMA AdaptedGenuine ==
  ASSUME NEW s, NEW b, Genuine(b, s), NEW content
  PROVE  Genuine([b EXCEPT !.content = content, !.digest = BlockDigest(s, content),
                    !.randomness = Adapt(BlockContext(s, b.prevHash), b.digest, @,
                                         BlockDigest(s, content))], s)
<1>1. PICK prev, old, value : prev = b.prevHash /\ old = b.content /\ value = b.value
  OBVIOUS
<1>2. b = Intact(prev, old, value, s)
  BY <1>1 DEF Genuine
<1>3. PICK ctx, was, now : ctx = BlockContext(s, prev) /\ was = BlockDigest(s, old)
                           /\ now = BlockDigest(s, content)
  OBVIOUS
<1>4. b.randomness = Opening(ctx, was, value) /\ b.digest = was
  BY <1>2, <1>3 DEF Intact
<1>5. Adapt(ctx, b.digest, b.randomness, now) = Opening(ctx, now, value)
  BY <1>4 DEF Adapt, Opening
<1>6. PICK new : new = [b EXCEPT !.content = content, !.digest = now, !.randomness = Opening(ctx, now, value)]
  OBVIOUS
<1>7. new = Intact(prev, content, value, s)
  BY <1>2, <1>3, <1>6 DEF Intact
<1>8. Genuine(new, s)
  BY <1>7 DEF Genuine, Intact
<1>9. QED
  BY <1>1, <1>3, <1>5, <1>6, <1>8

LEMMA RedactKeeps ==
  ASSUME Auditable, IInv, NEW a \in authorized, Redact(a)
  PROVE  IInv'
<1>1. UNCHANGED <<q, authorized, light>>
  BY DEF Redact
<1>2. PICK s, n, b : s = a.seq /\ n = Len(Order) /\ b = chain[s]
  OBVIOUS
<1>3. /\ q \in Nat \ {0} /\ q # 0 /\ n \in Nat /\ s \in 1 .. n /\ s \in 0 .. n /\ s # 0
      /\ DOMAIN chain = 1 .. n /\ Follows(bat, chain, n, q)
  <2>1. q # 0 /\ s \in Blocks
    BY <1>2 DEF IInv, GrantsKnown
  <2>2. /\ q \in Arities /\ Len(Order) \in Nat /\ DOMAIN chain = Blocks
        /\ Follows(bat, chain, Len(Order), q)
    BY <2>1 DEF IInv, TreeBound
  <2>3. QED
    BY <2>1, <2>2, <1>2, ConstantFacts DEF Blocks
<1>4. PICK block : block = [b EXCEPT !.content = a.content, !.digest = BlockDigest(s, a.content),
                              !.randomness = Adapt(BlockContext(s, b.prevHash), b.digest, @,
                                                   BlockDigest(s, a.content))]
  OBVIOUS
<1>5. /\ chain' = [chain EXCEPT ![s] = block]
      /\ bat' = Bind(bat, s, ScalarOf(block), q)
  BY <1>2, <1>4, Zenon DEF Redact
<1>6. Genuine(block, s)
  <2>1. Genuine(b, s)
    BY <1>2, <1>3 DEF Follows
  <2>2. QED
    BY <2>1, <1>4, AdaptedGenuine, Zenon
<1>7. IsTree(bat, n, q)
  BY <1>3 DEF Follows
<1>8. PICK m : m = ScalarOf(block)
  OBVIOUS
<1>9. bat' = Rebind(bat, s, m, q)
  BY <1>3, <1>5, <1>7, <1>8, BindsOld
<1>10. /\ IsTree(bat', n, q) /\ bat'[s].occupied /\ bat'[s].vector[1] = m
       /\ \A i \in 0 .. n : i # s =>
            bat'[i].occupied = bat[i].occupied /\ bat'[i].vector[1] = bat[i].vector[1]
  BY <1>3, <1>7, <1>9, Rebound
<1>11. /\ DOMAIN chain' = 1 .. n /\ chain'[s] = block
       /\ \A i \in 1 .. n : i # s => chain'[i] = chain[i]
  BY <1>3, <1>5
<1>12. ~bat'[0].occupied
  BY <1>3, <1>10 DEF Follows
<1>13. ASSUME NEW i \in 1 .. n
       PROVE  /\ Genuine(chain'[i], i)
              /\ bat'[i].occupied /\ bat'[i].vector[1] = ScalarOf(chain'[i])
  <2>1. CASE i = s
    BY <2>1, <1>6, <1>8, <1>10, <1>11
  <2>2. CASE i # s
    <3>1. i \in 0 .. n
      OBVIOUS
    <3>2. QED
      BY <3>1, <2>2, <1>3, <1>10, <1>11 DEF Follows
  <2>3. QED
    BY <2>1, <2>2
<1>14. Follows(bat', chain', n, q)
  BY <1>10, <1>12, <1>13 DEF Follows
<1>15. TreeBound'
  <2>1. q \in Arities /\ Len(Order) \in Nat /\ Z <= Len(Order)
    BY <1>3 DEF IInv, TreeBound
  <2>2. IsSequence(chain')
    BY <1>3, <1>5, Replaced DEF IInv, TreeBound
  <2>3. QED
    BY <2>1, <2>2, <1>1, <1>2, <1>11, <1>14 DEF TreeBound, Blocks
<1>16. GrantsKnown' /\ AnswerComplete'
  BY <1>1 DEF IInv, GrantsKnown, AnswerComplete, Blocks
<1>17. QED
  BY <1>15, <1>16 DEF IInv

(* What Given gives opens every path.                                       *)
LEMMA GivenComplete ==
  ASSUME NEW challenged \in SUBSET Blocks, NEW ev \in Given(challenged).evidence
  PROVE  /\ ev.seq \in Blocks
         /\ PathOpened(Given(challenged).openings, ev.seq, q)
<1>1. PICK s \in challenged : ev = Evidence(s)
  BY DEF Given
<1>2. ev.seq = s
  BY <1>1 DEF Evidence
<1>3. ASSUME NEW i \in ToSet(Path(s, q)), i # 0
      PROVE  Opens(ProveAudit(challenged), Parent(i, q), ChildPosition(i, q))
  <2>1. PICK p, pos : p = Parent(i, q) /\ pos = ChildPosition(i, q)
    OBVIOUS
  <2>2. <<p, pos>> \in Union(challenged)
    BY <1>3, <2>1 DEF Union
  <2>3. PICK o : o = [node |-> p, pos |-> pos, commitment |-> bat[p].commitment,
                      value |-> bat[p].vector[pos]]
    OBVIOUS
  <2>4. o \in ProveAudit(challenged)
    BY <2>2, <2>3 DEF ProveAudit
  <2>5. QED
    BY <2>1, <2>3, <2>4 DEF Opens
<1>4. QED
  BY <1>2, <1>3 DEF PathOpened, Given

LEMMA QueryKeeps ==
  ASSUME Auditable, IInv, NEW s \in Blocks, Query(s)
  PROVE  IInv'
<1>1. UNCHANGED <<q, chain, bat, authorized>> /\ q # 0 /\ light' = Given({s})
  BY DEF Query
<1>2. TreeBound' /\ GrantsKnown'
  BY <1>1 DEF IInv, TreeBound, GrantsKnown, Blocks
<1>3. \A ev \in light'.evidence : ev.seq \in Blocks /\ PathOpened(light'.openings, ev.seq, q)
  <2>1. {s} \in SUBSET Blocks
    OBVIOUS
  <2>2. QED
    BY <2>1, <1>1, GivenComplete
<1>4. AnswerComplete'
  BY <1>1, <1>3 DEF AnswerComplete, Blocks
<1>5. QED
  BY <1>2, <1>4 DEF IInv

(* What may be challenged are blocks, one at least.                         *)
LEMMA OccupiedAre ==
  ASSUME Auditable, IInv, q # 0
  PROVE  Occupied = Blocks
<1>1. Len(Order) \in Nat /\ Follows(bat, chain, Len(Order), q)
  BY DEF IInv, TreeBound
<1>2. DOMAIN bat = 0 .. Len(Order)
  BY <1>1 DEF Follows, IsTree, Formed
<1>3. \A i \in 0 .. Len(Order) : bat[i].occupied <=> i \in 1 .. Len(Order)
  BY <1>1 DEF Follows
<1>4. 1 .. Len(Order) \subseteq 0 .. Len(Order)
  OBVIOUS
<1>5. QED
  BY <1>2, <1>3, <1>4 DEF Occupied, Blocks

LEMMA AuditKeeps ==
  ASSUME Auditable, IInv, NEW challenged \in Samples, Audit(challenged)
  PROVE  IInv'
<1>1. UNCHANGED <<q, chain, bat, authorized>> /\ q # 0
      /\ light' = [Given(challenged) EXCEPT !.sampled = TRUE]
  BY DEF Audit
<1>2. TreeBound' /\ GrantsKnown'
  BY <1>1 DEF IInv, TreeBound, GrantsKnown, Blocks
<1>3. challenged \in SUBSET Blocks
  <2>1. Pool \subseteq Blocks
    BY <1>1, OccupiedAre DEF Pool
  <2>2. QED
    BY <2>1 DEF Samples
<1>4. light'.evidence = Given(challenged).evidence /\ light'.openings = Given(challenged).openings
  BY <1>1 DEF Given
<1>5. \A ev \in light'.evidence : ev.seq \in Blocks /\ PathOpened(light'.openings, ev.seq, q)
  BY <1>3, <1>4, GivenComplete
<1>6. AnswerComplete'
  BY <1>1, <1>5 DEF AnswerComplete, Blocks
<1>7. QED
  BY <1>2, <1>6 DEF IInv

LEMMA NextIInv ==
  ASSUME Auditable, IInv, [Next]_vars
  PROVE  IInv'
<1>1. ASSUME NEW arity \in Arities, Setup(arity)
      PROVE  IInv'
  BY <1>1, SetupKeeps
<1>2. ASSUME NEW s \in Blocks, Query(s)
      PROVE  IInv'
  BY <1>2, QueryKeeps
<1>3. ASSUME NEW s \in Blocks, NEW content \in Contents, Authorize(s, content)
      PROVE  IInv'
  BY <1>3, AuthorizeKeeps
<1>4. ASSUME NEW a \in authorized, Redact(a)
      PROVE  IInv'
  BY <1>4, RedactKeeps
<1>5. ASSUME NEW challenged \in Samples, Audit(challenged)
      PROVE  IInv'
  BY <1>5, AuditKeeps
<1>6. CASE UNCHANGED vars
  BY <1>6 DEF vars, IInv, TreeBound, GrantsKnown, AnswerComplete, Blocks
<1>7. QED
  BY <1>1, <1>2, <1>3, <1>4, <1>5, <1>6 DEF Next

(* The tree follows the chain in every state.                               *)
THEOREM Invariant == ASSUME Auditable PROVE Spec => []IInv
<1>1. Init => IInv
  BY InitIInv
<1>2. IInv /\ [Next]_vars => IInv'
  BY NextIInv
<1>3. QED
  BY <1>1, <1>2, PTL DEF Spec

-----------------------------------------------------------------------------
(* Every audit is accepted                                                  *)

LEMMA OneIsDeepest ==
  ASSUME NEW n \in Nat \ {0}, NEW level \in [1 .. n -> Nat]
  PROVE  \E i \in 1 .. n : \A j \in 1 .. n : level[j] <= level[i]
<1> DEFINE P == {m \in Nat : m + 1 <= n => \E i \in 1 .. m + 1 : \A j \in 1 .. m + 1 : level[j] <= level[i]}
<1>1. 0 \in P
  <2>1. 1 \in 1 .. n /\ \A j \in 1 .. 0 + 1 : j = 1
    OBVIOUS
  <2>2. level[1] <= level[1]
    BY <2>1
  <2>3. QED
    BY <2>1, <2>2
<1>2. ASSUME NEW m \in Nat, m \in P
      PROVE  m + 1 \in P
  <2> SUFFICES ASSUME (m + 1) + 1 <= n
               PROVE  \E i \in 1 .. (m + 1) + 1 : \A j \in 1 .. (m + 1) + 1 : level[j] <= level[i]
    OBVIOUS
  <2>1. m + 1 <= n
    OBVIOUS
  <2>2. PICK i \in 1 .. m + 1 : \A j \in 1 .. m + 1 : level[j] <= level[i]
    BY <1>2, <2>1
  <2>3. PICK k : k = (m + 1) + 1
    OBVIOUS
  <2>4. /\ k \in 1 .. n /\ i \in 1 .. n /\ \A j \in 1 .. k : j \in 1 .. n
        /\ \A j \in 1 .. k : j = k \/ j \in 1 .. m + 1
    BY <2>3
  <2>5. level[k] \in Nat /\ level[i] \in Nat /\ \A j \in 1 .. k : level[j] \in Nat
    BY <2>4
  <2>6. CASE level[k] <= level[i]
    BY <2>2, <2>3, <2>4, <2>6
  <2>7. CASE ~(level[k] <= level[i])
    <3>1. \A j \in 1 .. k : level[j] <= level[k]
      BY <2>2, <2>4, <2>5, <2>7
    <3>2. k \in 1 .. k
      BY <2>4
    <3>3. QED
      BY <3>1, <3>2, <2>3
  <2>8. QED
    BY <2>6, <2>7
<1>3. n - 1 \in Nat /\ (n - 1) + 1 = n
  OBVIOUS
<1>4. n - 1 \in P
  <2> HIDE DEF P
  <2>1. QED
    BY <1>1, <1>2, <1>3, SetInduction
<1>5. QED
  BY <1>3, <1>4

(* There is a block to be challenged, whichever pool it is drawn from.      *)
LEMMA PoolFilled ==
  ASSUME Auditable, IInv, q # 0
  PROVE  Pool # {} /\ Pool \subseteq Blocks
<1>1. PICK n \in Nat \ {0} : n = Len(Order)
  BY ConstantFacts DEF IInv, TreeBound
<1>2. Occupied = 1 .. n
  BY <1>1, OccupiedAre DEF Blocks
<1>3. q \in Nat \ {0}
  BY ConstantFacts DEF IInv, TreeBound
<1>4. PICK level : level = [i \in 1 .. n |-> Level(i, q)]
  OBVIOUS
<1>5. level \in [1 .. n -> Nat]
  <2>1. ASSUME NEW i \in 1 .. n
        PROVE  Level(i, q) \in Nat
    <3>1. i \in Nat
      OBVIOUS
    <3>2. IsPath(Path(i, q), i, q)
      BY <3>1, <1>3, PathIs
    <3>3. Len(Path(i, q)) \in Nat \ {0}
      BY <3>2 DEF IsPath
    <3>4. QED
      BY <3>3 DEF Level
  <2>2. QED
    BY <2>1, <1>4
<1>6. PICK i \in 1 .. n : \A j \in 1 .. n : level[j] <= level[i]
  BY <1>5, OneIsDeepest
<1>7. \A j \in 1 .. n : Level(j, q) <= Level(i, q)
  BY <1>4, <1>6
<1>8. i \in Pool
  BY <1>2, <1>7 DEF Pool
<1>9. QED
  BY <1>1, <1>2, <1>8 DEF Pool, Blocks

LEMMA ChallengedAre ==
  ASSUME Auditable, IInv, q # 0, NEW challenged \in {{s} : s \in Blocks} \cup Samples
  PROVE  challenged \in SUBSET Blocks /\ challenged # {}
<1>1. CASE challenged \in {{s} : s \in Blocks}
  BY <1>1
<1>2. CASE challenged \in Samples
  <2>1. Pool # {} /\ Pool \subseteq Blocks
    BY PoolFilled
  <2>2. IsFiniteSet(Pool)
    <3>1. IsFiniteSet(Blocks)
      BY ConstantFacts, FS_Interval DEF Blocks
    <3>2. QED
      BY <3>1, <2>1, FS_Subset
  <2>3. Cardinality(Pool) \in Nat /\ Cardinality(Pool) # 0
    BY <2>1, <2>2, FS_CardinalityType, FS_EmptySet
  <2>4. Cardinality(challenged) # 0
    BY <1>2, <2>3, ConstantFacts DEF Samples
  <2>5. challenged # {}
    BY <2>4, FS_EmptySet
  <2>6. QED
    BY <1>2, <2>1, <2>5 DEF Samples
<1>3. QED
  BY <1>1, <1>2

(* The opening of one place of one node.                                    *)
OpeningAt(p, pos) ==
  [node |-> p, pos |-> pos, commitment |-> bat[p].commitment, value |-> bat[p].vector[pos]]

LEMMA ProvedOpenings ==
  ASSUME Auditable, IInv, q # 0, NEW challenged \in SUBSET Blocks, NEW o \in ProveAudit(challenged)
  PROVE  /\ o.node \in 0 .. Len(Order) /\ o.pos \in 1 .. q + 1
         /\ o = OpeningAt(o.node, o.pos)
<1>1. PICK k \in Union(challenged) : o = OpeningAt(k[1], k[2])
  BY DEF ProveAudit, OpeningAt
<1>2. o.node = k[1] /\ o.pos = k[2]
  BY <1>1 DEF OpeningAt
<1>3. q \in Nat \ {0} /\ Len(Order) \in Nat
  BY ConstantFacts DEF IInv, TreeBound
<1>4. k[1] \in 0 .. Len(Order) /\ k[2] \in 1 .. q + 1
  <2>1. CASE k \in {<<s, 1>> : s \in challenged}
    BY <2>1, <1>3 DEF Blocks
  <2>2. CASE k \notin {<<s, 1>> : s \in challenged}
    <3>1. PICK s \in challenged :
            k \in {<<Parent(i, q), ChildPosition(i, q)>> : i \in {j \in ToSet(Path(s, q)) : j # 0}}
      BY <2>2 DEF Union
    <3>2. PICK i \in ToSet(Path(s, q)) : i # 0 /\ k = <<Parent(i, q), ChildPosition(i, q)>>
      BY <3>1
    <3>3. s \in Nat /\ s <= Len(Order)
      BY <1>3 DEF Blocks
    <3>4. IsPath(Path(s, q), s, q)
      BY <3>3, <1>3, PathIs
    <3>5. i \in 0 .. s
      <4>1. DOMAIN Path(s, q) = 1 .. Len(Path(s, q))
        BY <3>4, SequenceFacts DEF IsPath
      <4>2. QED
        BY <3>2, <3>4, <4>1 DEF ToSet, IsPath
    <3>6. i \in Nat \ {0}
      BY <3>2, <3>5
    <3>7. PICK p, pos : p = Parent(i, q) /\ pos = ChildPosition(i, q)
      OBVIOUS
    <3>8. p \in 0 .. i - 1 /\ pos \in 2 .. q + 1
      BY <3>6, <3>7, <1>3, ParentFacts
    <3>9. p \in 0 .. Len(Order) /\ pos \in 1 .. q + 1
      BY <3>3, <3>5, <3>8, <1>3
    <3>10. k[1] = p /\ k[2] = pos
      BY <3>2, <3>7
    <3>11. QED
      BY <3>9, <3>10
  <2>3. QED
    BY <2>1, <2>2
<1>5. QED
  BY <1>1, <1>2, <1>4

(* The path of a block ends at the root, which is opened.                   *)
LEMMA RootOpened ==
  ASSUME Auditable, IInv, q # 0, NEW challenged \in SUBSET Blocks, challenged # {}
  PROVE  \E o \in ProveAudit(challenged) : o.node = 0
<1>1. PICK s \in challenged : s \in Nat \ {0}
  BY ConstantFacts
<1>2. q \in Nat \ {0}
  BY ConstantFacts DEF IInv, TreeBound
<1>3. PICK path, l : path = Path(s, q) /\ l = Len(path)
  OBVIOUS
<1>4. IsPath(path, s, q)
  BY <1>1, <1>2, <1>3, PathIs
<1>5. l \in Nat \ {0} /\ l - 1 \in 1 .. l - 1 /\ (l - 1) + 1 = l /\ DOMAIN path = 1 .. l
  <2>1. l \in Nat \ {0} /\ path[1] = s /\ path[l] = 0 /\ DOMAIN path = 1 .. l
    BY <1>3, <1>4, SequenceFacts DEF IsPath
  <2>2. l # 1
    BY <2>1, <1>1
  <2>3. QED
    BY <2>1, <2>2
<1>6. PICK i : i = path[l - 1]
  OBVIOUS
<1>7. i # 0 /\ Parent(i, q) = 0 /\ i \in ToSet(path)
  <2>1. path[l - 1] # 0 /\ path[(l - 1) + 1] = Parent(path[l - 1], q)
    BY <1>3, <1>4, <1>5 DEF IsPath
  <2>2. l - 1 \in DOMAIN path
    BY <1>5
  <2>3. QED
    BY <2>1, <2>2, <1>3, <1>4, <1>5, <1>6 DEF IsPath, ToSet
<1>8. <<0, ChildPosition(i, q)>> \in Union(challenged)
  BY <1>1, <1>3, <1>7 DEF Union
<1>9. PICK k : k = <<0, ChildPosition(i, q)>> /\ k[1] = 0
  <2>1. PICK pos : pos = ChildPosition(i, q)
    OBVIOUS
  <2>2. <<0, pos>>[1] = 0
    OBVIOUS
  <2>3. QED
    BY <2>1, <2>2
<1>10. OpeningAt(k[1], k[2]) \in ProveAudit(challenged)
  BY <1>8, <1>9 DEF ProveAudit, OpeningAt
<1>11. OpeningAt(k[1], k[2]).node = 0
  BY <1>9 DEF OpeningAt
<1>12. QED
  BY <1>10, <1>11

LEMMA ProofVerifies ==
  ASSUME Auditable, IInv, q # 0, NEW challenged \in SUBSET Blocks, challenged # {}
  PROVE  VerifyAudit(Root(bat), ProveAudit(challenged))
<1>1. PICK openings, n : openings = ProveAudit(challenged) /\ n = Len(Order)
  OBVIOUS
<1>2. /\ q \in Nat \ {0} /\ n \in Nat
      /\ Formed(bat, n, q) /\ \A i \in 1 .. n : LinkedAt(bat, i, q)
  BY <1>1, ConstantFacts DEF IInv, TreeBound, Follows, IsTree
<1>3. \A o \in openings : o.node \in 0 .. n /\ o.pos \in 1 .. q + 1 /\ o = OpeningAt(o.node, o.pos)
  BY <1>1, ProvedOpenings
<1>4. ASSUME NEW o \in openings
      PROVE  o.commitment = bat[o.node].commitment /\ o.value = bat[o.node].vector[o.pos]
  <2>1. PICK p, pos : p = o.node /\ pos = o.pos /\ o = OpeningAt(p, pos)
    BY <1>3
  <2>2. OpeningAt(p, pos).commitment = bat[p].commitment /\ OpeningAt(p, pos).value = bat[p].vector[pos]
    BY DEF OpeningAt
  <2>3. QED
    BY <2>1, <2>2
<1>5. ASSUME NEW o \in openings
      PROVE  /\ o.node = 0 => o.commitment = Root(bat)
             /\ o.commitment.commits[o.pos] = o.value
  <2>1. PICK p, pos : p = o.node /\ pos = o.pos
    OBVIOUS
  <2>2. p \in 0 .. n /\ o.commitment = bat[p].commitment /\ o.value = bat[p].vector[pos]
    BY <1>3, <1>4, <2>1
  <2>3. bat[p].commitment = Commit(bat[p].vector)
    BY <1>2, <2>2 DEF Formed
  <2>4. o.commitment.commits = bat[p].vector
    BY <2>2, <2>3 DEF Commit
  <2>5. QED
    BY <2>1, <2>2, <2>4 DEF Root
<1>6. ASSUME NEW o \in openings, NEW c \in openings,
             o.pos > 1, c.node = Children(o.node, q)[o.pos - 1]
      PROVE  o.value = ChildScalar(c.commitment)
  <2>1. PICK p, pos, i : p = o.node /\ pos = o.pos /\ i = c.node
    OBVIOUS
  <2>2. p \in Nat /\ pos \in 2 .. q + 1 /\ i = Children(p, q)[pos - 1] /\ i \in 0 .. n
    BY <1>2, <1>3, <1>6, <2>1
  <2>3. i \in Nat \ {0} /\ Parent(i, q) = p /\ ChildPosition(i, q) = pos
    BY <1>2, <2>2, ChildPlaced
  <2>4. i \in 1 .. n
    BY <2>2, <2>3
  <2>5. bat[p].vector[pos] = ChildScalar(bat[i].commitment)
    BY <1>2, <2>3, <2>4 DEF LinkedAt
  <2>6. QED
    BY <2>1, <2>5, <1>4
<1>7. \E o \in openings : o.node = 0
  BY <1>1, RootOpened
<1>8. \A o \in openings, c \in openings : c.node = o.node => c.commitment = o.commitment
  BY <1>4
<1>9. QED
  BY <1>1, <1>5, <1>6, <1>7, <1>8 DEF VerifyAudit

LEMMA BlocksVerify ==
  ASSUME Auditable, IInv, q # 0, NEW challenged \in SUBSET Blocks, NEW s \in challenged
  PROVE  VerifyBlock(Evidence(s), ProveAudit(challenged))
<1>1. PICK b, ev : b = chain[s] /\ ev = Evidence(s)
  OBVIOUS
<1>2. /\ Genuine(b, s) /\ bat[s].vector[1] = ScalarOf(b)
  BY <1>1 DEF IInv, TreeBound, Follows, Blocks
<1>3. PICK digest : digest = BlockDigest(s, b.content)
  OBVIOUS
<1>4. /\ b.digest = digest
      /\ b.randomness = Opening(BlockContext(s, b.prevHash), digest, b.value)
  BY <1>2, <1>3 DEF Genuine, Intact
<1>5. /\ ev.seq = s /\ ev.prevHash = b.prevHash /\ ev.content = b.content
      /\ ev.randomness = b.randomness /\ ev.value = b.value
  BY <1>1 DEF Evidence
<1>6. OpeningAt(s, 1) \in ProveAudit(challenged)
  <2>1. PICK k : k = <<s, 1>>
    OBVIOUS
  <2>2. k \in Union(challenged) /\ k[1] = s /\ k[2] = 1
    BY <2>1 DEF Union
  <2>3. QED
    BY <2>2 DEF ProveAudit, OpeningAt
<1>7. /\ OpeningAt(s, 1).node = s /\ OpeningAt(s, 1).pos = 1
      /\ OpeningAt(s, 1).value = ScalarOf([digest |-> digest, value |-> ev.value])
  BY <1>2, <1>4 DEF OpeningAt, ScalarOf
<1>8. ChameleonVerify(BlockContext(ev.seq, ev.prevHash), digest, ev.randomness, ev.value)
  BY <1>4, <1>5 DEF ChameleonVerify
<1>9. BlockDigest(ev.seq, ev.content) = digest
  BY <1>3, <1>5
<1>10. QED
  BY <1>1, <1>5, <1>6, <1>7, <1>8, <1>9, Zenon DEF VerifyBlock

LEMMA InvariantAccepts ==
  ASSUME Auditable, IInv
  PROVE  AuditAccepts
<1> SUFFICES ASSUME q # 0, NEW challenged \in {{s} : s \in Blocks} \cup Samples
             PROVE  Accepted(Root(bat), Given(challenged))
  BY DEF AuditAccepts
<1>1. challenged \in SUBSET Blocks /\ challenged # {}
  BY ChallengedAre
<1>2. VerifyAudit(Root(bat), ProveAudit(challenged))
  BY <1>1, ProofVerifies
<1>3. \A s \in challenged : VerifyBlock(Evidence(s), ProveAudit(challenged))
  BY <1>1, BlocksVerify
<1>4. QED
  BY <1>2, <1>3 DEF Accepted, Given

(* Whatever was redacted, in whatever order and however often the scheme    *)
(* was set up again, every block and every sample is accepted against the   *)
(* root (refreshPath, EphemeralAdapt, VerifyAudit), at every arity.         *)
THEOREM AuditsAccepted == ASSUME Auditable PROVE Spec => []AuditAccepts
<1>1. IInv => AuditAccepts
  BY InvariantAccepts
<1>2. QED
  BY <1>1, Invariant, PTL

-----------------------------------------------------------------------------
(* What is accepted is what the chain holds                                 *)

(* Openings of a node carry the commitment it has now.                      *)
OpenedAsIs(openings, i) == \A o \in openings : o.node = i => o.commitment = bat[i].commitment

(* From a node to the next one down: the value its parent opens is the      *)
(* commitment of both.                                                      *)
LEMMA OpenedBelow ==
  ASSUME NEW n \in Nat, q \in Nat \ {0}, Formed(bat, n, q),
         NEW i \in 1 .. n, LinkedAt(bat, i, q),
         NEW openings, VerifyAudit(Root(bat), openings),
         OpenedAsIs(openings, Parent(i, q)), Opens(openings, Parent(i, q), ChildPosition(i, q))
  PROVE  OpenedAsIs(openings, i)
<1>1. PICK p, pos : p = Parent(i, q) /\ pos = ChildPosition(i, q)
  OBVIOUS
<1>2. p \in 0 .. n /\ pos \in 2 .. q + 1 /\ i = q * p + (pos - 1)
  <2>1. i \in Nat \ {0}
    OBVIOUS
  <2>2. p \in 0 .. i - 1 /\ pos \in 2 .. q + 1 /\ i = q * p + (pos - 1)
    BY <2>1, <1>1, ParentFacts
  <2>3. QED
    BY <2>2
<1>3. pos > 1 /\ i = Children(p, q)[pos - 1]
  <2>1. pos - 1 \in 1 .. q /\ pos > 1
    BY <1>2
  <2>2. QED
    BY <2>1, <1>2 DEF Children
<1>4. PICK o \in openings : o.node = p /\ o.pos = pos
  BY <1>1 DEF Opens
<1>5. o.commitment = Commit(bat[p].vector)
  BY <1>1, <1>2, <1>4 DEF OpenedAsIs, Formed
<1>6. o.value = o.commitment.commits[pos]
  BY <1>4 DEF VerifyAudit
<1>7. o.value = bat[p].vector[pos]
  BY <1>5, <1>6 DEF Commit
<1>8. o.value = ChildScalar(bat[i].commitment)
  BY <1>1, <1>7 DEF LinkedAt
<1>9. ASSUME NEW c \in openings, c.node = i
      PROVE  c.commitment = bat[i].commitment
  <2>1. o.value = ChildScalar(c.commitment)
    BY <1>3, <1>4, <1>9 DEF VerifyAudit
  <2>2. ChildScalar(c.commitment).child = ChildScalar(bat[i].commitment).child
    BY <2>1, <1>8
  <2>3. QED
    BY <2>2 DEF ChildScalar
<1>10. QED
  BY <1>9 DEF OpenedAsIs

(* Down the path, from the root the light node trusts.                      *)
LEMMA OpenedDownThePath ==
  ASSUME NEW n \in Nat, q \in Nat \ {0}, IsTree(bat, n, q), NEW s \in 1 .. n,
         NEW openings, VerifyAudit(Root(bat), openings), PathOpened(openings, s, q)
  PROVE  OpenedAsIs(openings, s)
<1>1. PICK path, l : path = Path(s, q) /\ l = Len(path)
  OBVIOUS
<1>2. IsPath(path, s, q)
  BY <1>1, PathIs
<1>3. /\ l \in Nat \ {0} /\ DOMAIN path = 1 .. l /\ path[1] = s /\ path[l] = 0
      /\ \A k \in 1 .. l : path[k] \in 0 .. s
      /\ \A k \in 1 .. l - 1 : path[k] # 0 /\ path[k + 1] = Parent(path[k], q)
  BY <1>1, <1>2, SequenceFacts DEF IsPath
<1> DEFINE P == {m \in Nat : m <= l - 1 => OpenedAsIs(openings, path[l - m])}
<1>4. 0 \in P
  <2>1. OpenedAsIs(openings, 0)
    BY DEF OpenedAsIs, VerifyAudit, Root
  <2>2. l - 0 = l
    BY <1>3
  <2>3. QED
    BY <2>1, <2>2, <1>3
<1>5. ASSUME NEW m \in Nat, m \in P
      PROVE  m + 1 \in P
  <2> SUFFICES ASSUME m + 1 <= l - 1
               PROVE  OpenedAsIs(openings, path[l - (m + 1)])
    OBVIOUS
  <2>1. m <= l - 1
    BY <1>3
  <2>2. PICK k : k = l - (m + 1)
    OBVIOUS
  <2>3. k \in 1 .. l - 1 /\ k \in 1 .. l /\ k + 1 = l - m
    BY <1>3, <2>2
  <2>4. PICK i : i = path[k]
    OBVIOUS
  <2>5. i # 0 /\ i \in 0 .. s /\ path[l - m] = Parent(i, q)
    BY <1>3, <2>3, <2>4
  <2>6. i \in 1 .. n
    BY <2>5
  <2>7. OpenedAsIs(openings, Parent(i, q))
    BY <1>5, <2>1, <2>5
  <2>8. Opens(openings, Parent(i, q), ChildPosition(i, q))
    <3>1. i \in ToSet(path)
      BY <1>3, <2>3, <2>4 DEF ToSet
    <3>2. QED
      BY <3>1, <2>5, <1>1 DEF PathOpened
  <2>9. Formed(bat, n, q) /\ LinkedAt(bat, i, q)
    BY <2>6 DEF IsTree
  <2>10. OpenedAsIs(openings, i)
    BY <2>6, <2>7, <2>8, <2>9, OpenedBelow
  <2>11. QED
    BY <2>2, <2>4, <2>10
<1>6. l - 1 \in P /\ l - 1 \in Nat /\ l - (l - 1) = 1
  <2>1. l - 1 \in Nat /\ l - (l - 1) = 1
    BY <1>3
  <2> HIDE DEF P
  <2>2. QED
    BY <2>1, <1>4, <1>5, SetInduction
<1>7. QED
  BY <1>3, <1>6

LEMMA InvariantSees ==
  ASSUME Auditable, IInv
  PROVE  LightNodeSeesCurrent
<1> SUFFICES ASSUME light # Nothing, Accepted(Root(bat), light), NEW ev \in light.evidence
             PROVE  ev.content = chain[ev.seq].content
  BY DEF LightNodeSeesCurrent
<1>1. PICK s, openings, n : s = ev.seq /\ openings = light.openings /\ n = Len(Order)
  OBVIOUS
<1>2. q # 0 /\ s \in Blocks /\ PathOpened(openings, s, q)
  BY <1>1 DEF IInv, AnswerComplete
<1>3. /\ q \in Nat \ {0} /\ n \in Nat /\ s \in 1 .. n /\ s \in 0 .. n
      /\ IsTree(bat, n, q) /\ Genuine(chain[s], s) /\ bat[s].vector[1] = ScalarOf(chain[s])
  <2>1. q \in Nat \ {0} /\ n \in Nat /\ s \in 1 .. n /\ Follows(bat, chain, n, q)
    BY <1>1, <1>2, ConstantFacts DEF IInv, TreeBound, Blocks
  <2>2. s \in 0 .. n
    BY <2>1
  <2>3. QED
    BY <2>1, <2>2 DEF Follows
<1>4. VerifyAudit(Root(bat), openings) /\ VerifyBlock(ev, openings)
  BY <1>1 DEF Accepted
<1>5. OpenedAsIs(openings, s)
  BY <1>2, <1>3, <1>4, OpenedDownThePath
<1>6. PICK digest : digest = BlockDigest(s, ev.content)
  OBVIOUS
<1>7. PICK o \in openings :
        o.node = s /\ o.pos = 1 /\ o.value = ScalarOf([digest |-> digest, value |-> ev.value])
  BY <1>1, <1>4, <1>6 DEF VerifyBlock
<1>8. o.value = bat[s].vector[1]
  <2>1. o.commitment.commits[1] = o.value
    BY <1>4, <1>7 DEF VerifyAudit
  <2>2. o.commitment = Commit(bat[s].vector)
    BY <1>3, <1>5, <1>7 DEF OpenedAsIs, IsTree, Formed
  <2>3. QED
    BY <2>1, <2>2 DEF Commit
<1>9. ScalarOf(chain[s]) = ScalarOf([digest |-> digest, value |-> ev.value])
  BY <1>3, <1>7, <1>8
<1>10. chain[s].digest = digest
  BY <1>9 DEF ScalarOf
<1>11. chain[s].digest = BlockDigest(s, chain[s].content)
  BY <1>3 DEF Genuine, Intact
<1>12. QED
  BY <1>1, <1>6, <1>10, <1>11 DEF BlockDigest

(* Against the current root a light node accepts, of what it was ever       *)
(* given, only what the chain holds now (wiring.go:196-207).                *)
THEOREM AnswersCurrent == ASSUME Auditable PROVE Spec => []LightNodeSeesCurrent
<1>1. IInv => LightNodeSeesCurrent
  BY InvariantSees
<1>2. QED
  BY <1>1, Invariant, PTL

-----------------------------------------------------------------------------
(* Types                                                                    *)

Typed ==
  /\ q \in Arities \cup {0}
  /\ q = 0 => DOMAIN bat = {} /\ DOMAIN chain = {}
  /\ redactions \in 0 .. MaxRedactions
  /\ version \in [Blocks -> 0 .. redactions]
  /\ \A s \in DOMAIN chain : chain[s].content \in Contents
  /\ \A a \in authorized : a.content \in Contents

LEMMA InitTyped ==
  ASSUME Auditable, Init
  PROVE  Typed
<1>1. DOMAIN bat = {} /\ DOMAIN chain = {}
  BY DEF Init
<1>2. 0 \in 0 .. MaxRedactions /\ 0 \in 0 .. 0
  BY DEF Auditable
<1>3. version \in [Blocks -> 0 .. redactions] /\ redactions \in 0 .. MaxRedactions
  BY <1>2 DEF Init
<1>4. QED
  BY <1>1, <1>3 DEF Init, Typed

LEMMA NextTyped ==
  ASSUME Auditable, IInv, Typed, [Next]_vars
  PROVE  Typed'
<1>1. ASSUME NEW arity \in Arities, Setup(arity)
      PROVE  Typed'
  <2>1. PICK built : built = Build(arity, prevHash)
    OBVIOUS
  <2>2. /\ q' = arity /\ chain' = built.blocks /\ authorized' = {} /\ redactions' = redactions
        /\ version' = [s \in Blocks |-> 0]
    BY <1>1, <2>1 DEF Setup
  <2>3. arity \in Nat \ {0} /\ Len(Order) \in Nat
    BY ConstantFacts
  <2>4. /\ DOMAIN built.blocks = 1 .. Len(Order)
        /\ \A s \in 1 .. Len(Order) : built.blocks[s].content = Original
    BY <2>1, <2>3, ChainBuilt, SequenceFacts
  <2>5. 0 \in 0 .. redactions
    BY DEF Typed
  <2>6. version' \in [Blocks -> 0 .. redactions]
    BY <2>2, <2>5
  <2>7. QED
    BY <2>2, <2>3, <2>4, <2>6 DEF Typed, Auditable, Blocks
<1>2. ASSUME NEW s \in Blocks, Query(s)
      PROVE  Typed'
  BY <1>2 DEF Query, Typed, Blocks
<1>3. ASSUME NEW s \in Blocks, NEW content \in Contents, Authorize(s, content)
      PROVE  Typed'
  BY <1>3 DEF Authorize, Typed, Blocks
<1>4. ASSUME NEW a \in authorized, Redact(a)
      PROVE  Typed'
  <2>1. /\ redactions < MaxRedactions /\ redactions' = redactions + 1 /\ authorized' = authorized
        /\ q' = q /\ version' = [version EXCEPT ![a.seq] = @ + 1]
    BY <1>4 DEF Redact
  <2>2. redactions' \in 0 .. MaxRedactions
    BY <2>1 DEF Typed, Auditable
  <2>3. version' \in [Blocks -> 0 .. redactions']
    <3>1. \A v \in 0 .. redactions : v \in 0 .. redactions + 1 /\ v + 1 \in 0 .. redactions + 1
      BY DEF Typed
    <3>2. PICK low, high : low = 0 .. redactions /\ high = 0 .. redactions + 1
      OBVIOUS
    <3>3. version \in [Blocks -> low] /\ \A v \in low : v \in high /\ v + 1 \in high
      BY <3>1, <3>2 DEF Typed
    <3>4. [version EXCEPT ![a.seq] = @ + 1] \in [Blocks -> high]
      BY <3>3
    <3>5. QED
      BY <3>2, <3>4, <2>1 DEF Blocks
  <2>4. q # 0
    BY DEF IInv, GrantsKnown
  <2>5. PICK b, ctx, m : b = [chain[a.seq] EXCEPT !.content = a.content, !.digest = m,
                                !.randomness = Adapt(ctx, chain[a.seq].digest, @, m)]
                         /\ chain' = [chain EXCEPT ![a.seq] = b]
    BY <1>4, Zenon DEF Redact
  <2>6. b.content = a.content
    <3>1. a.seq \in DOMAIN chain
      BY <2>4 DEF IInv, GrantsKnown, TreeBound
    <3>2. Genuine(chain[a.seq], a.seq)
      BY <2>4 DEF IInv, GrantsKnown, TreeBound, Follows, Blocks
    <3>3. PICK prev, old, value : chain[a.seq] = Intact(prev, old, value, a.seq)
      BY <3>2 DEF Genuine
    <3>4. QED
      BY <2>5, <3>3 DEF Intact
  <2>7. \A s \in DOMAIN chain' : chain'[s].content \in Contents
    BY <2>5, <2>6 DEF Typed
  <2>8. QED
    BY <2>1, <2>2, <2>3, <2>4, <2>7 DEF Typed
<1>5. ASSUME NEW challenged \in Samples, Audit(challenged)
      PROVE  Typed'
  BY <1>5 DEF Audit, Typed, Blocks
<1>6. CASE UNCHANGED vars
  BY <1>6 DEF vars, Typed, Blocks
<1>7. QED
  BY <1>1, <1>2, <1>3, <1>4, <1>5, <1>6 DEF Next

LEMMA TypedOK ==
  ASSUME Auditable, IInv, Typed
  PROVE  TypeOK
<1>1. CASE q = 0
  <2>1. DOMAIN bat = {}
    BY <1>1 DEF Typed
  <2>2. version \in [Blocks -> 0 .. MaxRedactions]
    <3>1. 0 .. redactions \subseteq 0 .. MaxRedactions
      BY DEF Typed, Auditable
    <3>2. QED
      BY <3>1 DEF Typed
  <2>3. QED
    BY <1>1, <2>1, <2>2 DEF Typed, TypeOK
<1>2. CASE q # 0
  <2>1. PICK n : n = Len(Order)
    OBVIOUS
  <2>2. /\ n \in Nat /\ q \in Nat \ {0} /\ DOMAIN chain = 1 .. n /\ Formed(bat, n, q)
    BY <1>2, <2>1, ConstantFacts DEF IInv, TreeBound, Follows, IsTree, Blocks
  <2>3. ASSUME NEW i \in DOMAIN bat
        PROVE  Len(bat[i].vector) = q + 1 /\ bat[i].commitment = Commit(bat[i].vector)
    <3>1. PICK vector, l : vector = bat[i].vector /\ l = Len(vector)
      OBVIOUS
    <3>2. IsSequence(vector) /\ DOMAIN vector = 1 .. q + 1 /\ q + 1 \in Nat
      BY <2>2, <3>1 DEF Formed
    <3>3. l = q + 1
      BY <3>1, <3>2, LengthIs
    <3>4. QED
      BY <2>2, <3>1, <3>3 DEF Formed
  <2>4. Occupied = Blocks /\ DOMAIN bat = 0 .. Len(Order) /\ Len(chain) = Len(Order)
    <3>1. Len(chain) = n
      BY <1>2, <2>2, LengthIs DEF IInv, TreeBound
    <3>2. QED
      BY <3>1, <1>2, <2>1, <2>2, OccupiedAre DEF Formed
  <2>5. version \in [Blocks -> 0 .. MaxRedactions]
    <3>1. 0 .. redactions \subseteq 0 .. MaxRedactions
      BY DEF Typed, Auditable
    <3>2. QED
      BY <3>1 DEF Typed
  <2>6. QED
    BY <2>3, <2>4, <2>5 DEF Typed, TypeOK
<1>3. QED
  BY <1>1, <1>2

(* Every variable has its type: the tree has a node for every block and no  *)
(* other but the root, each of arity + 1 scalars and their commitment.      *)
THEOREM TypeCorrect == ASSUME Auditable PROVE Spec => []TypeOK
<1>1. Init => IInv /\ Typed
  BY InitIInv, InitTyped
<1>2. IInv /\ Typed /\ [Next]_vars => IInv' /\ Typed'
  BY NextIInv, NextTyped
<1>3. IInv /\ Typed => TypeOK
  BY TypedOK
<1>4. QED
  BY <1>1, <1>2, <1>3, PTL DEF Spec
=============================================================================
