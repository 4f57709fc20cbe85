---------------------------- MODULE SettingsProofs ----------------------------
(***************************************************************************)
(* Theorems about the advice on PROXIED expressions, for chains of any     *)
(* length and names of any depth, and about Settings, for every            *)
(* configuration that can be written.                                      *)
(***************************************************************************)
EXTENDS Settings, DomainSets, Integers, Sequences, FiniteSets, FiniteSetTheorems,
        WellFoundedInduction, TLAPS

-----------------------------------------------------------------------------
(* Sets of domains                                                         *)

Names == Seq(STRING)
AtomSets == [kind : {"is", "sub"}, name : Names]
LiteralSet == [negated : BOOLEAN, set : AtomSets]

\* A strict suffix, label by label.
LEMMA SuffixAt ==
  ASSUME NEW x \in Names, NEW s \in Names
  PROVE  HasStrictSuffix(x, s) <=>
           /\ Len(s) < Len(x)
           /\ \A k \in 1 .. Len(s) : x[(Len(x) - Len(s)) + k] = s[k]
<1> DEFINE n == Len(x) - Len(s)
           t == SubSeq(x, n + 1, Len(x))
<1>1. Len(x) \in Nat /\ Len(s) \in Nat /\ n \in Int
  BY DEF Names
<1>2. ASSUME n > 0
      PROVE  t \in Names /\ Len(t) = Len(s) /\ \A k \in 1 .. Len(s) : t[k] = x[n + k]
  <2>1. n \in Nat /\ n + 1 \in 1 .. Len(x) + 1 /\ Len(x) \in 0 .. Len(x)
    BY <1>1, <1>2
  <2>2. Len(t) = Len(s) /\ \A k \in 1 .. Len(s) : t[k] = x[(n + 1) + k - 1]
    BY <1>1, <2>1 DEF Names
  <2>3. \A k \in 1 .. Len(s) : (n + 1) + k - 1 = n + k
    BY <1>1
  <2>4. t \in Names
    BY <1>1, <2>1 DEF Names
  <2>5. QED
    BY <2>2, <2>3, <2>4
<1>3. ASSUME n > 0 PROVE t = s <=> \A k \in 1 .. Len(s) : x[n + k] = s[k]
  <2>1. t \in Names /\ Len(t) = Len(s) /\ \A k \in 1 .. Len(s) : t[k] = x[n + k]
    BY <1>2, <1>3
  <2> HIDE DEF t
  <2>2. t = s <=> \A k \in 1 .. Len(s) : t[k] = s[k]
    <3>1. t \in Seq(STRING) /\ s \in Seq(STRING) /\ Len(t) = Len(s)
      BY <2>1 DEF Names
    <3>2. QED
      BY <3>1
  <2>3. QED
    BY <2>1, <2>2
<1>4. HasStrictSuffix(x, s) <=> n > 0 /\ t = s
  BY DEF HasStrictSuffix
<1>5. n > 0 <=> Len(s) < Len(x)
  BY <1>1
<1> HIDE DEF t
<1>6. QED
  BY <1>3, <1>4, <1>5

\* A suffix of a suffix is a suffix.
LEMMA SuffixOfSuffix ==
  ASSUME NEW x \in Names, NEW y \in Names, NEW z \in Names,
         HasStrictSuffix(x, y), HasStrictSuffix(y, z)
  PROVE  HasStrictSuffix(x, z)
<1>1. Len(x) \in Nat /\ Len(y) \in Nat /\ Len(z) \in Nat
  BY DEF Names
<1>2. Len(y) < Len(x) /\ \A k \in 1 .. Len(y) : x[(Len(x) - Len(y)) + k] = y[k]
  BY SuffixAt
<1>3. Len(z) < Len(y) /\ \A k \in 1 .. Len(z) : y[(Len(y) - Len(z)) + k] = z[k]
  BY SuffixAt
<1>4. ASSUME NEW k \in 1 .. Len(z) PROVE x[(Len(x) - Len(z)) + k] = z[k]
  <2>1. (Len(y) - Len(z)) + k \in 1 .. Len(y)
    BY <1>1, <1>3
  <2>2. (Len(x) - Len(y)) + ((Len(y) - Len(z)) + k) = (Len(x) - Len(z)) + k
    BY <1>1
  <2>3. x[(Len(x) - Len(y)) + ((Len(y) - Len(z)) + k)] = y[(Len(y) - Len(z)) + k]
    BY <1>2, <2>1
  <2>4. QED
    BY <1>3, <2>2, <2>3
<1>5. Len(z) < Len(x)
  BY <1>1, <1>2, <1>3
<1>6. QED
  BY <1>4, <1>5, SuffixAt

\* Two suffixes of one name: the shorter is a suffix of the longer.
LEMMA SuffixesNested ==
  ASSUME NEW x \in Names, NEW y \in Names, NEW z \in Names,
         HasStrictSuffix(x, y), HasStrictSuffix(x, z), Len(z) <= Len(y)
  PROVE  y = z \/ HasStrictSuffix(y, z)
<1>1. Len(x) \in Nat /\ Len(y) \in Nat /\ Len(z) \in Nat
  BY DEF Names
<1>2. Len(y) < Len(x) /\ \A k \in 1 .. Len(y) : x[(Len(x) - Len(y)) + k] = y[k]
  BY SuffixAt
<1>3. Len(z) < Len(x) /\ \A k \in 1 .. Len(z) : x[(Len(x) - Len(z)) + k] = z[k]
  BY SuffixAt
<1>4. ASSUME NEW k \in 1 .. Len(z) PROVE y[(Len(y) - Len(z)) + k] = z[k]
  <2>1. (Len(y) - Len(z)) + k \in 1 .. Len(y)
    BY <1>1
  <2>2. (Len(x) - Len(y)) + ((Len(y) - Len(z)) + k) = (Len(x) - Len(z)) + k
    BY <1>1
  <2>3. x[(Len(x) - Len(y)) + ((Len(y) - Len(z)) + k)] = y[(Len(y) - Len(z)) + k]
    BY <1>2, <2>1
  <2>4. QED
    BY <1>3, <2>2, <2>3
<1>5. CASE Len(z) < Len(y)
  BY <1>4, <1>5, SuffixAt
<1>6. CASE Len(z) = Len(y)
  <2>1. \A k \in 1 .. Len(z) : y[k] = z[k]
    <3>1. \A k \in 1 .. Len(z) : (Len(y) - Len(z)) + k = k
      BY <1>1, <1>6
    <3>2. QED
      BY <1>4, <3>1
  <2>2. QED
    BY <1>6, <2>1 DEF Names
<1>7. QED
  BY <1>1, <1>5, <1>6

\* A set that contains another contains every domain of it.
LEMMA SubsumesRight ==
  ASSUME NEW p \in AtomSets, NEW q \in AtomSets, NEW d \in Names, Subsumes(p, q), InSet(q, d)
  PROVE  InSet(p, d)
<1>1. CASE p = q
  BY <1>1
<1>2. CASE p.kind = "sub" /\ HasStrictSuffix(q.name, p.name)
  <2>1. p.name \in Names /\ q.name \in Names
    BY DEF AtomSets
  <2>2. CASE q.kind = "is"
    BY <1>2, <2>2 DEF InSet
  <2>3. CASE q.kind # "is"
    <3>1. HasStrictSuffix(d, q.name)
      BY <2>3 DEF InSet
    <3>2. HasStrictSuffix(d, p.name)
      BY <1>2, <2>1, <3>1, SuffixOfSuffix
    <3>3. QED
      BY <1>2, <3>2 DEF InSet
  <2>4. QED
    BY <2>2, <2>3
<1>3. QED
  BY <1>1, <1>2 DEF Subsumes

\* Sets that are called disjoint have no domain in common.
LEMMA DisjointRight ==
  ASSUME NEW p \in AtomSets, NEW q \in AtomSets, NEW d \in Names, Disjoint(p, q), InSet(p, d)
  PROVE  ~InSet(q, d)
<1>1. /\ p.name \in Names /\ q.name \in Names
      /\ p.kind \in {"is", "sub"} /\ q.kind \in {"is", "sub"}
  BY DEF AtomSets
<1>2. CASE p.kind = "is" /\ q.kind = "is"
  BY <1>2 DEF Disjoint, InSet
<1>3. CASE p.kind = "is" /\ q.kind = "sub"
  BY <1>3 DEF Disjoint, InSet
<1>4. CASE p.kind = "sub" /\ q.kind = "is"
  BY <1>4 DEF Disjoint, InSet
<1>5. CASE p.kind = "sub" /\ q.kind = "sub"
  <2>1. /\ p.name # q.name
        /\ ~HasStrictSuffix(p.name, q.name) /\ ~HasStrictSuffix(q.name, p.name)
    BY <1>5 DEF Disjoint
  <2>2. HasStrictSuffix(d, p.name)
    BY <1>5 DEF InSet
  <2>3. ASSUME HasStrictSuffix(d, q.name) PROVE FALSE
    <3>1. Len(p.name) \in Nat /\ Len(q.name) \in Nat
      BY <1>1 DEF Names
    <3>2. CASE Len(q.name) <= Len(p.name)
      BY <1>1, <2>1, <2>2, <2>3, <3>2, SuffixesNested
    <3>3. CASE Len(p.name) <= Len(q.name)
      BY <1>1, <2>1, <2>2, <2>3, <3>3, SuffixesNested
    <3>4. QED
      BY <3>1, <3>2, <3>3
  <2>4. QED
    BY <1>5, <2>3 DEF InSet
<1>6. QED
  BY <1>1, <1>2, <1>3, <1>4, <1>5

\* Containment is transitive.
LEMMA SubsumesTransitive ==
  ASSUME NEW p \in AtomSets, NEW q \in AtomSets, NEW r \in AtomSets,
         Subsumes(p, q), Subsumes(q, r)
  PROVE  Subsumes(p, r)
<1>1. p.name \in Names /\ q.name \in Names /\ r.name \in Names
  BY DEF AtomSets
<1>2. CASE p = q \/ q = r
  BY <1>2
<1>3. CASE p # q /\ q # r
  <2>1. /\ p.kind = "sub" /\ HasStrictSuffix(q.name, p.name)
        /\ HasStrictSuffix(r.name, q.name)
    BY <1>3 DEF Subsumes
  <2>2. QED
    BY <1>1, <2>1, SuffixOfSuffix DEF Subsumes
<1>4. QED
  BY <1>2, <1>3

\* Of two sets that are not the same, the one that contains the other has fewer labels.
LEMMA SubsumesShorter ==
  ASSUME NEW p \in AtomSets, NEW q \in AtomSets, Subsumes(p, q), p # q
  PROVE  Len(p.name) < Len(q.name)
<1>1. p.name \in Names /\ q.name \in Names
  BY DEF AtomSets
<1>2. HasStrictSuffix(q.name, p.name)
  BY DEF Subsumes
<1>3. QED
  BY <1>1, <1>2, SuffixAt

\* Hence two sets that contain each other are the same.
LEMMA SubsumesAntisymmetric ==
  ASSUME NEW p \in AtomSets, NEW q \in AtomSets, Subsumes(p, q), Subsumes(q, p)
  PROVE  p = q
<1>1. Len(p.name) \in Nat /\ Len(q.name) \in Nat
  BY DEF AtomSets, Names
<1>2. SUFFICES ASSUME p # q PROVE FALSE
  OBVIOUS
<1>3. Len(p.name) < Len(q.name) /\ Len(q.name) < Len(p.name)
  BY <1>2, SubsumesShorter
<1>4. QED
  BY <1>1, <1>3

-----------------------------------------------------------------------------
(* Which terms of a chain may go                                           *)

\* What is to be left out for what: nothing for itself, and what goes for what goes
\* for a third goes for the third.
StrictOn(S, Gone) ==
  /\ \A a \in S : <<a, a>> \notin Gone
  /\ \A a, b, c \in S : <<a, b>> \in Gone /\ <<b, c>> \in Gone => <<a, c>> \in Gone

\* What stays, and lets x go unless it is x.
StaysFor(S, Gone, x, y) ==
  /\ y = x \/ <<x, y>> \in Gone
  /\ \A z \in S : <<y, z>> \notin Gone

\* A transitive relation on a finite set that relates nothing to itself leads, from
\* wherever one starts, to an element from which it leads no further.
LEMMA LeadsToAnEnd ==
  ASSUME NEW S, IsFiniteSet(S), NEW Gone, StrictOn(S, Gone), NEW x \in S
  PROVE  \E y \in S : StaysFor(S, Gone, x, y)
<1> DEFINE T == {y \in S : y = x \/ <<x, y>> \in Gone}
           After(y) == {z \in S : <<y, z>> \in Gone}
           A == {After(y) : y \in T}
<1>1. A \subseteq FiniteSubsetsOf(S) /\ A # {}
  <2>1. \A y \in T : After(y) \subseteq S /\ IsFiniteSet(After(y))
    BY FS_Subset
  <2>2. x \in T
    OBVIOUS
  <2>3. After(x) \in A
    BY <2>2
  <2>4. ASSUME NEW m \in A PROVE m \in FiniteSubsetsOf(S)
    <3>1. PICK y \in T : m = After(y)
      OBVIOUS
    <3>2. m \subseteq S /\ IsFiniteSet(m)
      BY <2>1, <3>1
    <3>3. QED
      BY <3>2 DEF FiniteSubsetsOf
  <2> HIDE DEF A
  <2>5. QED
    BY <2>3, <2>4
<1>2. IsWellFoundedOn(StrictSubsetOrdering(S), FiniteSubsetsOf(S))
  BY FS_StrictSubsetOrderingWellFounded
<1>3. PICK m \in A : \A n \in A : ~(<<n, m>> \in StrictSubsetOrdering(S))
  BY <1>1, <1>2, WFMin
<1>4. PICK y \in T : m = After(y)
  OBVIOUS
<1>5. ASSUME NEW z \in S, <<y, z>> \in Gone PROVE FALSE
  <2>1. z \in T
    BY <1>5 DEF StrictOn
  <2>2. After(z) \subseteq After(y)
    BY <1>5 DEF StrictOn
  <2>3. z \in After(y) /\ z \notin After(z)
    BY <1>5 DEF StrictOn
  <2>4. After(z) \in SUBSET S /\ After(y) \in SUBSET S /\ After(z) # After(y)
    BY <2>3
  <2>5. <<After(z), After(y)>> \in StrictSubsetOrdering(S)
    BY <2>2, <2>4 DEF StrictSubsetOrdering
  <2>6. After(z) \in A
    BY <2>1
  <2>7. QED
    BY <1>3, <1>4, <2>5, <2>6
<1>6. QED
  BY <1>5 DEF StaysFor

\* Which of two literals goes because of the other.
OrGone(lits) ==
  {p \in PositivePairs(lits) : /\ Subsumes(lits[p[2]].set, lits[p[1]].set)
                               /\ FirstToGo(lits, p[1], p[2])}
AndGone(lits) ==
  {p \in PositivePairs(lits) : /\ Subsumes(lits[p[1]].set, lits[p[2]].set)
                               /\ FirstToGo(lits, p[1], p[2])}

\* A term of a disjunction goes for one that contains it.
LEMMA OrGoneIs ==
  ASSUME NEW lits \in Seq(LiteralSet), NEW i \in DOMAIN lits, NEW j \in DOMAIN lits
  PROVE  <<i, j>> \in OrGone(lits) <=>
           /\ i # j /\ ~lits[i].negated /\ ~lits[j].negated
           /\ Subsumes(lits[j].set, lits[i].set)
           /\ lits[i].set # lits[j].set \/ i >= j
  BY DEF OrGone, PositivePairs, FirstToGo

\* The same of a conjunction.
LEMMA AndGoneIs ==
  ASSUME NEW lits \in Seq(LiteralSet), NEW i \in DOMAIN lits, NEW j \in DOMAIN lits
  PROVE  <<i, j>> \in AndGone(lits) <=>
           /\ i # j /\ ~lits[i].negated /\ ~lits[j].negated
           /\ Subsumes(lits[i].set, lits[j].set)
           /\ lits[i].set # lits[j].set \/ i >= j
  BY DEF AndGone, PositivePairs, FirstToGo

\* A literal of a chain has its parts.
LEMMA LiteralOf ==
  ASSUME NEW lits \in Seq(LiteralSet), NEW i \in DOMAIN lits
  PROVE  i \in Nat /\ lits[i].negated \in BOOLEAN /\ lits[i].set \in AtomSets
<1>1. i \in Nat /\ lits[i] \in LiteralSet
  OBVIOUS
<1>2. QED
  BY <1>1 DEF LiteralSet

\* Containment, and of two that are the same the later, is transitive.
LEMMA ContainmentTransitive ==
  ASSUME NEW a \in AtomSets, NEW b \in AtomSets, NEW c \in AtomSets,
         NEW i \in Nat, NEW j \in Nat, NEW k \in Nat,
         i # j, j # k, a # b \/ i >= j, b # c \/ j >= k
  PROVE  /\ Subsumes(a, b) /\ Subsumes(b, c) => Subsumes(a, c) /\ (a # c \/ i > k)
         /\ Subsumes(b, a) /\ Subsumes(c, b) => Subsumes(c, a) /\ (a # c \/ i > k)
<1>1. ASSUME a = b, b = c PROVE i > k
  BY <1>1
<1>2. ASSUME Subsumes(a, b), Subsumes(b, c) PROVE Subsumes(a, c) /\ (a = c => a = b)
  BY <1>2, SubsumesTransitive, SubsumesAntisymmetric
<1>3. ASSUME Subsumes(b, a), Subsumes(c, b) PROVE Subsumes(c, a) /\ (a = c => a = b)
  BY <1>3, SubsumesTransitive, SubsumesAntisymmetric
<1>4. QED
  BY <1>1, <1>2, <1>3

\* What goes because of what goes because of a third goes because of the third.
LEMMA OrGoneTransitive ==
  ASSUME NEW lits \in Seq(LiteralSet),
         NEW i \in DOMAIN lits, NEW j \in DOMAIN lits, NEW k \in DOMAIN lits,
         <<i, j>> \in OrGone(lits), <<j, k>> \in OrGone(lits)
  PROVE  <<i, k>> \in OrGone(lits)
<1>1. PICK a \in AtomSets, b \in AtomSets, c \in AtomSets :
        a = lits[i].set /\ b = lits[j].set /\ c = lits[k].set
  BY LiteralOf
<1>2. i \in Nat /\ j \in Nat /\ k \in Nat
  BY LiteralOf
<1>3. /\ i # j /\ ~lits[i].negated /\ ~lits[j].negated
      /\ Subsumes(b, a) /\ (a # b \/ i >= j)
  BY <1>1, OrGoneIs
<1>4. /\ j # k /\ ~lits[k].negated
      /\ Subsumes(c, b) /\ (b # c \/ j >= k)
  BY <1>1, OrGoneIs
<1>5. Subsumes(c, a) /\ (a # c \/ i > k)
  BY <1>2, <1>3, <1>4, ContainmentTransitive
<1>6. i # k /\ (a # c \/ i >= k)
  BY <1>1, <1>2, <1>5
<1>7. QED
  BY <1>1, <1>3, <1>4, <1>5, <1>6, OrGoneIs

\* The same of a conjunction.
LEMMA AndGoneTransitive ==
  ASSUME NEW lits \in Seq(LiteralSet),
         NEW i \in DOMAIN lits, NEW j \in DOMAIN lits, NEW k \in DOMAIN lits,
         <<i, j>> \in AndGone(lits), <<j, k>> \in AndGone(lits)
  PROVE  <<i, k>> \in AndGone(lits)
<1>1. PICK a \in AtomSets, b \in AtomSets, c \in AtomSets :
        a = lits[i].set /\ b = lits[j].set /\ c = lits[k].set
  BY LiteralOf
<1>2. i \in Nat /\ j \in Nat /\ k \in Nat
  BY LiteralOf
<1>3. /\ i # j /\ ~lits[i].negated /\ ~lits[j].negated
      /\ Subsumes(a, b) /\ (a # b \/ i >= j)
  BY <1>1, AndGoneIs
<1>4. /\ j # k /\ ~lits[k].negated
      /\ Subsumes(b, c) /\ (b # c \/ j >= k)
  BY <1>1, AndGoneIs
<1>5. Subsumes(a, c) /\ (a # c \/ i > k)
  BY <1>2, <1>3, <1>4, ContainmentTransitive
<1>6. i # k /\ (a # c \/ i >= k)
  BY <1>1, <1>2, <1>5
<1>7. QED
  BY <1>1, <1>3, <1>4, <1>5, <1>6, AndGoneIs

\* Of the terms of a chain by which one may go, one stays.
LEMMA OneStays ==
  ASSUME NEW lits \in Seq(LiteralSet), NEW Gone \in {OrGone(lits), AndGone(lits)},
         NEW i \in DOMAIN lits
  PROVE  \E j \in DOMAIN lits : /\ j = i \/ <<i, j>> \in Gone
                               /\ \A k \in DOMAIN lits : <<j, k>> \notin Gone
<1>1. IsFiniteSet(DOMAIN lits)
  <2>1. Len(lits) \in Nat /\ DOMAIN lits = 1 .. Len(lits)
    OBVIOUS
  <2>2. QED
    BY <2>1, FS_Interval
<1>2. CASE Gone = OrGone(lits)
  <2>1. \A a \in DOMAIN lits : <<a, a>> \notin Gone
    BY <1>2, OrGoneIs
  <2>2. \A a, b, c \in DOMAIN lits : <<a, b>> \in Gone /\ <<b, c>> \in Gone => <<a, c>> \in Gone
    BY <1>2, OrGoneTransitive
  <2>3. QED
    <3>1. PICK S : S = DOMAIN lits
      OBVIOUS
    <3>2. StrictOn(S, Gone)
      BY <2>1, <2>2, <3>1 DEF StrictOn
    <3>3. IsFiniteSet(S) /\ i \in S
      BY <1>1, <3>1
    <3>4. \E y \in S : StaysFor(S, Gone, i, y)
      BY <3>2, <3>3, LeadsToAnEnd
    <3>5. QED
      BY <3>1, <3>4 DEF StaysFor
<1>3. CASE Gone = AndGone(lits)
  <2>1. \A a \in DOMAIN lits : <<a, a>> \notin Gone
    BY <1>3, AndGoneIs
  <2>2. \A a, b, c \in DOMAIN lits : <<a, b>> \in Gone /\ <<b, c>> \in Gone => <<a, c>> \in Gone
    BY <1>3, AndGoneTransitive
  <2>3. QED
    <3>1. PICK S : S = DOMAIN lits
      OBVIOUS
    <3>2. StrictOn(S, Gone)
      BY <2>1, <2>2, <3>1 DEF StrictOn
    <3>3. IsFiniteSet(S) /\ i \in S
      BY <1>1, <3>1
    <3>4. \E y \in S : StaysFor(S, Gone, i, y)
      BY <3>2, <3>3, LeadsToAnEnd
    <3>5. QED
      BY <3>1, <3>4 DEF StaysFor
<1>4. QED
  BY <1>2, <1>3

OrKept(lits) == DOMAIN lits \ {t.index : t \in OrRedundancies(lits)}
AndKept(lits) == DOMAIN lits \ {t.index : t \in AndRedundancies(lits)}

\* The terms that are not called redundant are those that no other lets go.
LEMMA KeptAre ==
  ASSUME NEW lits \in Seq(LiteralSet), NEW j \in DOMAIN lits
  PROVE  /\ j \in OrKept(lits) <=> \A k \in DOMAIN lits : <<j, k>> \notin OrGone(lits)
         /\ j \in AndKept(lits) <=> \A k \in DOMAIN lits : <<j, k>> \notin AndGone(lits)
<1>1. OrRedundancies(lits) = {RedundantTerm("||", lits, p[1]) : p \in OrGone(lits)}
  BY DEF OrRedundancies, OrGone
<1>2. AndRedundancies(lits) = {RedundantTerm("&&", lits, p[1]) : p \in AndGone(lits)}
  BY DEF AndRedundancies, AndGone
<1>3. \A op, i : RedundantTerm(op, lits, i).index = i
  BY DEF RedundantTerm
<1>4. \A p \in OrGone(lits) : p = <<p[1], p[2]>> /\ p[1] \in DOMAIN lits /\ p[2] \in DOMAIN lits
  BY DEF OrGone, PositivePairs
<1>5. \A p \in AndGone(lits) : p = <<p[1], p[2]>> /\ p[1] \in DOMAIN lits /\ p[2] \in DOMAIN lits
  BY DEF AndGone, PositivePairs
<1>6. {t.index : t \in OrRedundancies(lits)} = {p[1] : p \in OrGone(lits)}
  BY <1>1, <1>3
<1>7. {t.index : t \in AndRedundancies(lits)} = {p[1] : p \in AndGone(lits)}
  BY <1>2, <1>3
<1>8. j \in OrKept(lits) <=> \A k \in DOMAIN lits : <<j, k>> \notin OrGone(lits)
  BY <1>4, <1>6 DEF OrKept
<1>9. j \in AndKept(lits) <=> \A k \in DOMAIN lits : <<j, k>> \notin AndGone(lits)
  BY <1>5, <1>7 DEF AndKept
<1>10. QED
  BY <1>8, <1>9

\* All the terms of a chain that are called redundant may go together, whatever
\* contains what and however often a term is repeated: without them, the chain says
\* the same of every domain.
THEOREM RedundantTermsMayGo ==
  ASSUME NEW lits \in Seq(LiteralSet), NEW d \in Names
  PROVE  /\ HoldsOf("||", lits, OrKept(lits), d) <=> HoldsOf("||", lits, DOMAIN lits, d)
         /\ HoldsOf("&&", lits, AndKept(lits), d) <=> HoldsOf("&&", lits, DOMAIN lits, d)
<1>1. OrKept(lits) \subseteq DOMAIN lits /\ AndKept(lits) \subseteq DOMAIN lits
  BY DEF OrKept, AndKept
<1>2. ASSUME NEW i \in DOMAIN lits, Holds(lits[i], d)
      PROVE  \E j \in OrKept(lits) : Holds(lits[j], d)
  <2>1. PICK j \in DOMAIN lits : /\ j = i \/ <<i, j>> \in OrGone(lits)
                                /\ \A k \in DOMAIN lits : <<j, k>> \notin OrGone(lits)
    BY OneStays
  <2>2. j \in OrKept(lits)
    BY <2>1, KeptAre
  <2>3. CASE j = i
    BY <1>2, <2>2, <2>3
  <2>4. CASE <<i, j>> \in OrGone(lits)
    <3>1. ~lits[i].negated /\ ~lits[j].negated /\ Subsumes(lits[j].set, lits[i].set)
      BY <2>4, OrGoneIs
    <3>2. InSet(lits[i].set, d)
      BY <1>2, <3>1 DEF Holds
    <3>3. lits[i].set \in AtomSets /\ lits[j].set \in AtomSets
      BY LiteralOf
    <3>4. InSet(lits[j].set, d)
      BY <3>1, <3>2, <3>3, SubsumesRight
    <3>5. Holds(lits[j], d)
      BY <3>1, <3>4, LiteralOf DEF Holds
    <3>6. QED
      BY <2>2, <3>5
  <2>5. QED
    BY <2>1, <2>3, <2>4
<1>3. ASSUME NEW i \in DOMAIN lits, ~Holds(lits[i], d)
      PROVE  \E j \in AndKept(lits) : ~Holds(lits[j], d)
  <2>1. PICK j \in DOMAIN lits : /\ j = i \/ <<i, j>> \in AndGone(lits)
                                /\ \A k \in DOMAIN lits : <<j, k>> \notin AndGone(lits)
    BY OneStays
  <2>2. j \in AndKept(lits)
    BY <2>1, KeptAre
  <2>3. CASE j = i
    BY <1>3, <2>2, <2>3
  <2>4. CASE <<i, j>> \in AndGone(lits)
    <3>1. ~lits[i].negated /\ ~lits[j].negated /\ Subsumes(lits[i].set, lits[j].set)
      BY <2>4, AndGoneIs
    <3>2. ~InSet(lits[i].set, d)
      BY <1>3, <3>1, LiteralOf DEF Holds
    <3>3. lits[i].set \in AtomSets /\ lits[j].set \in AtomSets
      BY LiteralOf
    <3>4. ~InSet(lits[j].set, d)
      BY <3>1, <3>2, <3>3, SubsumesRight
    <3>5. ~Holds(lits[j], d)
      BY <3>1, <3>4, LiteralOf DEF Holds
    <3>6. QED
      BY <2>2, <3>5
  <2>5. QED
    BY <2>1, <2>3, <2>4
<1>4. QED
  BY <1>1, <1>2, <1>3 DEF HoldsOf

\* A conjunction that is called contradictory holds of no domain, and a disjunction
\* that is called tautological holds of every one.
THEOREM DecidedChainsAreConstant ==
  ASSUME NEW lits \in Seq(LiteralSet), NEW d \in Names
  PROVE  /\ Contradictory(lits) => ~HoldsOf("&&", lits, DOMAIN lits, d)
         /\ Tautological(lits) => HoldsOf("||", lits, DOMAIN lits, d)
<1>1. ASSUME Contradictory(lits) PROVE ~HoldsOf("&&", lits, DOMAIN lits, d)
  <2>1. PICK i \in DOMAIN lits : \E j \in DOMAIN lits :
               /\ i # j /\ ~lits[i].negated
               /\ IF lits[j].negated THEN Subsumes(lits[j].set, lits[i].set)
                                     ELSE Disjoint(lits[i].set, lits[j].set)
    BY <1>1 DEF Contradictory
  <2>2. PICK j \in DOMAIN lits :
               /\ ~lits[i].negated
               /\ lits[j].negated => Subsumes(lits[j].set, lits[i].set)
               /\ ~lits[j].negated => Disjoint(lits[i].set, lits[j].set)
    BY <2>1
  <2>3. lits[i].set \in AtomSets /\ lits[j].set \in AtomSets
    BY LiteralOf
  <2>4. lits[j].negated \in BOOLEAN
    BY LiteralOf
  <2>5. ASSUME Holds(lits[i], d), Holds(lits[j], d) PROVE FALSE
    <3>1. InSet(lits[i].set, d)
      BY <2>2, <2>5 DEF Holds
    <3>2. CASE lits[j].negated
      <4>1. InSet(lits[j].set, d)
        BY <2>2, <2>3, <3>1, <3>2, SubsumesRight
      <4>2. QED
        BY <2>5, <3>2, <4>1, LiteralOf DEF Holds
    <3>3. CASE ~lits[j].negated
      <4>1. ~InSet(lits[j].set, d)
        BY <2>2, <2>3, <3>1, <3>3, DisjointRight
      <4>2. QED
        BY <2>5, <3>3, <4>1, LiteralOf DEF Holds
    <3>4. QED
      BY <3>2, <3>3
  <2>6. QED
    BY <2>5 DEF HoldsOf
<1>2. ASSUME Tautological(lits) PROVE HoldsOf("||", lits, DOMAIN lits, d)
  <2>1. PICK i \in DOMAIN lits : \E j \in DOMAIN lits :
               ~lits[i].negated /\ lits[j].negated /\ Subsumes(lits[i].set, lits[j].set)
    BY <1>2 DEF Tautological
  <2>2. PICK j \in DOMAIN lits :
               ~lits[i].negated /\ lits[j].negated /\ Subsumes(lits[i].set, lits[j].set)
    BY <2>1
  <2>3. lits[i].set \in AtomSets /\ lits[j].set \in AtomSets
    BY LiteralOf
  <2>4. Holds(lits[i], d) \/ Holds(lits[j], d)
    <3>1. CASE InSet(lits[j].set, d)
      <4>1. InSet(lits[i].set, d)
        BY <2>2, <2>3, <3>1, SubsumesRight
      <4>2. QED
        BY <2>2, <4>1, LiteralOf DEF Holds
    <3>2. CASE ~InSet(lits[j].set, d)
      BY <2>2, <3>2, LiteralOf DEF Holds
    <3>3. QED
      BY <3>1, <3>2
  <2>5. QED
    BY <2>4 DEF HoldsOf
<1>3. QED
  BY <1>1, <1>2

-----------------------------------------------------------------------------
(* What is accepted                                                        *)

\* That no check of BuildConfig fails.
Acceptable(r) ==
  /\ OpinionsMerge(r)
  /\ \E f \in IDs!Families : IsUsed(r, f)
  /\ r.UPDATE_CRON = "@once" => r.UPDATE_ON_START
  /\ Managed(r) # {}
  /\ StaticIP6Compatible(r)
  /\ r.UPDATE_CRON = "@once" /\ r.DELETE_ON_STOP => \A f \in IDs!Families : IsOff(r, f)
  /\ ActiveDomains(r) # {} => ParseProxied(r.PROXIED).ok
  /\ ~SelectorFails(ActiveDomains(r) # {}, r.MANAGED_RECORDS_COMMENT_REGEX, r.RECORD_COMMENT)
  /\ ~SelectorFails(r.WAF_LISTS # {}, r.MANAGED_WAF_LIST_ITEMS_COMMENT_REGEX,
                    r.WAF_LIST_ITEM_COMMENT)

\* The reasons to refuse a configuration leave exactly this.
LEMMA FailuresAre ==
  ASSUME NEW r
  PROVE  (\A i \in DOMAIN Failures(r) : ~Failures(r)[i][1]) <=> Acceptable(r)
<1> DEFINE F == Failures(r)
<1>1. DOMAIN F = 1 .. 9
  BY DEF Failures
<1>2. F[1][1] <=> ~OpinionsMerge(r)
  BY DEF Failures
<1>3. F[2][1] <=> \A f \in IDs!Families : ~IsUsed(r, f)
  BY DEF Failures
<1>4. F[3][1] <=> r.UPDATE_CRON = "@once" /\ ~r.UPDATE_ON_START
  BY DEF Failures
<1>5. F[4][1] <=> Managed(r) = {}
  BY DEF Failures
<1>6. F[5][1] <=> ~StaticIP6Compatible(r)
  BY DEF Failures
<1>7. F[6][1] <=> /\ r.UPDATE_CRON = "@once" /\ r.DELETE_ON_STOP
                  /\ \E f \in IDs!Families : ~IsOff(r, f)
  BY DEF Failures
<1>8. F[7][1] <=> ActiveDomains(r) # {} /\ ~ParseProxied(r.PROXIED).ok
  BY DEF Failures
<1>9. F[8][1] <=> SelectorFails(ActiveDomains(r) # {}, r.MANAGED_RECORDS_COMMENT_REGEX,
                                r.RECORD_COMMENT)
  BY DEF Failures
<1>10. F[9][1] <=> SelectorFails(r.WAF_LISTS # {}, r.MANAGED_WAF_LIST_ITEMS_COMMENT_REGEX,
                                 r.WAF_LIST_ITEM_COMMENT)
  BY DEF Failures
<1> HIDE DEF F
<1>11. (\A i \in DOMAIN F : ~F[i][1]) <=>
         /\ ~F[1][1] /\ ~F[2][1] /\ ~F[3][1] /\ ~F[4][1] /\ ~F[5][1] /\ ~F[6][1]
         /\ ~F[7][1] /\ ~F[8][1] /\ ~F[9][1]
  BY <1>1
<1>12. (\A i \in DOMAIN F : ~F[i][1]) <=> Acceptable(r)
  BY <1>2, <1>3, <1>4, <1>5, <1>6, <1>7, <1>8, <1>9, <1>10, <1>11 DEF Acceptable
<1>13. QED
  BY <1>12 DEF F

\* A configuration is built exactly if it passes all checks.
LEMMA BuildIs ==
  ASSUME NEW r
  PROVE  /\ BuildConfig(r).ok <=> Acceptable(r)
         /\ BuildConfig(r).ok <=> BuildConfig(r).ok = TRUE
         /\ Acceptable(r) => /\ BuildConfig(r).value = BuiltConfig(r)
                             /\ BuildConfig(r).warnings = Warnings(r)
<1> DEFINE failed == {i \in DOMAIN Failures(r) : Failures(r)[i][1]}
<1>1. failed = {} <=> Acceptable(r)
  BY FailuresAre
<1>2. failed # {} => BuildConfig(r).ok = FALSE
  BY DEF BuildConfig, Refused
<1>3. failed = {} => BuildConfig(r) =
                      [ok |-> TRUE, value |-> BuiltConfig(r), warnings |-> Warnings(r)]
  BY DEF BuildConfig
<1>4. QED
  BY <1>1, <1>2, <1>3

-----------------------------------------------------------------------------
(* Host IDs                                                                *)

\* The entries that may have opinions on the host IDs of a domain.
IP6Entries(r) == EntriesIn(r, HostID6Settings)

\* Every IPv6 domain has host IDs, and each is in an entry.
LEMMA IP6DomainsAre ==
  ASSUME NEW r
  PROVE  /\ ByFamily(r)["IP6"] = {e.domain : e \in IP6Entries(r)}
         /\ DOMAIN HostID6(r) = ByFamily(r)["IP6"]
<1>1. {DomainsOf["IP6"], "DOMAINS"} = HostID6Settings
  BY DEF DomainsOf, HostID6Settings
<1>2. "IP6" \in IDs!Families
  BY DEF IDs!Families
<1>3. ByFamily(r)["IP6"] = ProjectDomains(r, {DomainsOf["IP6"], "DOMAINS"})
  BY <1>2 DEF ByFamily
<1>4. ByFamily(r)["IP6"] = ProjectDomains(r, HostID6Settings)
  BY <1>1, <1>3
<1>5. QED
  BY <1>4 DEF ProjectDomains, IP6Entries, HostID6

\* If the opinions can be had together, the host IDs of a domain are those of each
\* opinion on it, and there are some.
LEMMA HostIDsAgree ==
  ASSUME NEW r, OpinionsMerge(r)
  PROVE  /\ \A d \in ByFamily(r)["IP6"] : HostID6(r)[d] # {}
         /\ \A e \in IP6Entries(r) : OpinionsOf(e) \subseteq {HostID6(r)[e.domain]}
<1> DEFINE on(d) == OpinionsOn(r, HostID6Settings, d)
<1>1. ASSUME NEW d \in ByFamily(r)["IP6"], NEW s \in on(d) PROVE s # {} /\ HostID6(r)[d] = s
  <2>1. Agree(on(d))
    BY <1>1 DEF OpinionsMerge
  <2>2. \A t \in on(d) : t = s
    BY <1>1, <2>1 DEF Agree
  <2>3. s # {}
    BY <1>1, <2>1 DEF Agree
  <2>4. d \in ExplicitHostID6(r)
    BY <1>1 DEF ExplicitHostID6
  <2>5. HostID6(r)[d] = CHOOSE t \in on(d) : TRUE
    BY <1>1, <2>4 DEF HostID6
  <2>6. (CHOOSE t \in on(d) : TRUE) \in on(d)
    BY <1>1
  <2>7. QED
    BY <2>2, <2>3, <2>5, <2>6
<1>2. ASSUME NEW d \in ByFamily(r)["IP6"] PROVE HostID6(r)[d] # {}
  <2>1. CASE d \in ExplicitHostID6(r)
    BY <1>1, <2>1 DEF ExplicitHostID6
  <2>2. CASE d \notin ExplicitHostID6(r)
    BY <2>2 DEF HostID6
  <2>3. QED
    BY <2>1, <2>2
<1>3. ASSUME NEW e \in IP6Entries(r), NEW s \in OpinionsOf(e) PROVE s = HostID6(r)[e.domain]
  <2>1. e.domain \in ByFamily(r)["IP6"]
    BY IP6DomainsAre
  <2>2. s \in on(e.domain)
    BY DEF OpinionsOn, IP6Entries
  <2>3. QED
    BY <1>1, <2>1, <2>2
<1>4. QED
  BY <1>2, <1>3

\* If deriving the addresses of all domains finds no problem, then every entry is
\* compatible with every host ID: nothing that is tried is left out of the groups.
LEMMA NoProblem ==
  ASSUME NEW policies, NEW entries, NEW domains,
         IDs!DeriveDomains(policies, entries, domains).problems = {},
         NEW d \in domains, NEW e \in entries, NEW v \in policies[d]
  PROVE  IDs!Compatible(e, v)
<1>1. IDs!ProblemGroups(policies, entries, domains) = {}
  BY DEF IDs!DeriveDomains
<1>2. SUFFICES ASSUME ~IDs!Compatible(e, v) PROVE FALSE
  OBVIOUS
<1>3. <<d, e, v>> \in IDs!Attempts(policies, entries, domains)
  BY DEF IDs!Attempts
<1>4. <<d, e, v>> \in {t \in IDs!Attempts(policies, entries, domains) : ~IDs!Compatible(t[2], t[3])}
  BY <1>2, <1>3
<1>5. QED
  <2> DEFINE all == IDs!Attempts(policies, entries, domains)
             bad == {t \in all : ~IDs!Compatible(t[2], t[3])}
             key(t) == IDs!Incompatibility(t[2], t[3])
             keys == {key(t) : t \in bad}
             group(k) == {t \in bad : key(t) = k}
             problem(k) == [problem |-> k, domains |-> {t[1] : t \in group(k)},
                            derivations |-> {t[3] : t \in group(k)},
                            observed |-> {t[2] : t \in group(k)}]
  <2>1. IDs!ProblemGroups(policies, entries, domains) = {problem(k) : k \in keys}
    BY Zenon DEF IDs!ProblemGroups
  <2>2. key(<<d, e, v>>) \in keys
    BY <1>4
  <2> HIDE DEF keys, problem
  <2>3. QED
    BY <1>1, <2>1, <2>2

-----------------------------------------------------------------------------
(* Every configuration that can be written                                 *)

\* The inductive invariant: all settings have a value, and a provider is one, so that
\* fixed prefixes are only those of a static provider.
RawInv ==
  /\ raw = [s \in DOMAIN DefaultRaw |-> raw[s]]
  /\ \A s \in ProviderSettings : IsProvider(raw[s])

\* What the check of static prefixes is for: it looks at static providers only, and no
\* other has entries.
LEMMA StaticEntriesFit ==
  ASSUME RawInv, StaticIP6Compatible(raw), "IP6" \in Managed(raw),
         NEW d \in ByFamily(raw)["IP6"], NEW e \in raw.IP6_PROVIDER.entries,
         NEW v \in HostID6(raw)[d]
  PROVE  IDs!Compatible(e, v)
<1>1. "IP6_PROVIDER" \in ProviderSettings
  BY DEF ProviderSettings, ProviderOf, IDs!Families
<1>2. IsProvider(raw.IP6_PROVIDER)
  BY <1>1 DEF RawInv
<1>3. raw.IP6_PROVIDER.kind = "static"
  BY <1>2 DEF IsProvider, NoProvider, Detecting, Static
<1>4. IDs!DeriveDomains(HostID6(raw), raw.IP6_PROVIDER.entries, ByFamily(raw)["IP6"]).problems = {}
  BY <1>3 DEF StaticIP6Compatible
<1>5. QED
  BY <1>4, NoProblem

\* What passes the checks is ready, conjunct by conjunct.
LEMMA AcceptableIsReady ==
  ASSUME RawInv
  PROVE  AcceptedIsReady
<1> SUFFICES ASSUME Acceptable(raw), NEW c, c = BuiltConfig(raw)
             PROVE  Ready(c)
  BY BuildIs DEF AcceptedIsReady
<1>a. /\ c.provider = [f \in Managed(raw) |-> raw[ProviderOf[f]]]
      /\ c.detectionFilter = [f \in Managed(raw) |-> raw[FilterOf[f]]]
      /\ c.domains = ByFamily(raw)
      /\ c.hostID6 = HostID6Policies(raw)
      /\ c.wafLists = raw.WAF_LISTS
      /\ DOMAIN c.proxied = ActiveDomains(raw)
  BY DEF BuiltConfig
<1>b. /\ c.recordComment = raw.RECORD_COMMENT
      /\ ActiveDomains(raw) # {} => c.managedRecords = raw.MANAGED_RECORDS_COMMENT_REGEX
      /\ c.wafListItemComment = raw.WAF_LIST_ITEM_COMMENT
      /\ raw.WAF_LISTS # {} => c.managedWAFListItems = raw.MANAGED_WAF_LIST_ITEMS_COMMENT_REGEX
      /\ c.allowWholeWAFListDeleteOnShutdown =
           (raw.WAF_LISTS = {} \/ raw.MANAGED_WAF_LIST_ITEMS_COMMENT_REGEX = "")
      /\ c.updateCron = raw.UPDATE_CRON
      /\ c.updateOnStart = raw.UPDATE_ON_START
      /\ c.deleteOnStop = raw.DELETE_ON_STOP
  BY DEF BuiltConfig
<1>c. \A f \in Managed(raw) : f \in IDs!Families
  BY DEF Managed
<1>1. DOMAIN c.provider # {} /\ DOMAIN c.detectionFilter = DOMAIN c.provider
  BY <1>a DEF Acceptable
<1>2. ASSUME NEW f \in DOMAIN c.provider
      PROVE  /\ c.provider[f] # NoProvider
             /\ c.domains[f] # {} \/ c.wafLists # {}
             /\ c.domains[f] \subseteq DOMAIN c.proxied
  <2>1. f \in Managed(raw)
    BY <1>a
  <2>2. c.provider[f] = raw[ProviderOf[f]]
    BY <1>a, <2>1
  <2>3. raw[ProviderOf[f]] # NoProvider /\ IsUsed(raw, f)
    BY <2>1 DEF Managed
  <2>4. ByFamily(raw)[f] \subseteq ActiveDomains(raw)
    BY <2>1 DEF ActiveDomains
  <2>5. QED
    BY <1>a, <2>2, <2>3, <2>4 DEF IsUsed
<1>3. ASSUME c.updateCron = "@once"
      PROVE  /\ c.updateOnStart
             /\ c.deleteOnStop => \A f \in DOMAIN c.provider : c.provider[f] = Static({})
  <2>1. c.updateOnStart
    BY <1>3, <1>b DEF Acceptable
  <2>2. ASSUME c.deleteOnStop, NEW f \in DOMAIN c.provider PROVE c.provider[f] = Static({})
    <3>1. f \in Managed(raw)
      BY <1>a
    <3>2. IsOff(raw, f)
      BY <1>3, <1>b, <1>c, <2>2, <3>1 DEF Acceptable
    <3>3. QED
      BY <1>a, <3>1, <3>2 DEF IsOff, IsExplicitEmpty
  <2>3. QED
    BY <2>1, <2>2
<1>4. ASSUME "IP6" \in DOMAIN c.provider
      PROVE  /\ DOMAIN c.hostID6 = c.domains["IP6"]
             /\ \A e \in EntriesIn(raw, HostID6Settings) :
                  OpinionsOf(e) \subseteq {c.hostID6[e.domain]}
             /\ \A d \in DOMAIN c.hostID6 : c.hostID6[d] # {}
             /\ \A d \in DOMAIN c.hostID6, e \in c.provider["IP6"].entries :
                  \A v \in c.hostID6[d] : IDs!Compatible(e, v)
  <2>1. "IP6" \in Managed(raw)
    BY <1>4, <1>a
  <2>2. c.hostID6 = HostID6(raw)
    BY <1>a, <2>1 DEF HostID6Policies
  <2>3. DOMAIN c.hostID6 = c.domains["IP6"]
    BY <1>a, <2>2, IP6DomainsAre
  <2>4. OpinionsMerge(raw) /\ StaticIP6Compatible(raw)
    BY DEF Acceptable
  <2>5. \A e \in EntriesIn(raw, HostID6Settings) : OpinionsOf(e) \subseteq {c.hostID6[e.domain]}
    BY <2>2, <2>4, HostIDsAgree DEF IP6Entries
  <2>6. \A d \in DOMAIN c.hostID6 : c.hostID6[d] # {}
    BY <1>a, <2>2, <2>3, <2>4, HostIDsAgree
  <2>7. c.provider["IP6"] = raw.IP6_PROVIDER
    BY <1>a, <2>1 DEF ProviderOf
  <2>8. ASSUME NEW d \in DOMAIN c.hostID6, NEW e \in c.provider["IP6"].entries,
               NEW v \in c.hostID6[d]
        PROVE  IDs!Compatible(e, v)
    BY <1>a, <2>1, <2>2, <2>3, <2>4, <2>7, <2>8, StaticEntriesFit
  <2>9. QED
    BY <2>3, <2>5, <2>6, <2>8
<1>5. ASSUME DOMAIN c.proxied # {} PROVE MatchString(c.managedRecords, c.recordComment)
  <2>1. ActiveDomains(raw) # {}
    BY <1>5, <1>a
  <2>2. MatchString(raw.MANAGED_RECORDS_COMMENT_REGEX, raw.RECORD_COMMENT)
    BY <2>1 DEF Acceptable, SelectorFails
  <2>3. QED
    BY <1>b, <2>1, <2>2
<1>6. ASSUME c.wafLists # {}
      PROVE  /\ MatchString(c.managedWAFListItems, c.wafListItemComment)
             /\ c.allowWholeWAFListDeleteOnShutdown
                  => MatchString(c.managedWAFListItems, "any comment")
  <2>1. raw.WAF_LISTS # {}
    BY <1>6, <1>a
  <2>2. MatchString(raw.MANAGED_WAF_LIST_ITEMS_COMMENT_REGEX, raw.WAF_LIST_ITEM_COMMENT)
    BY <2>1 DEF Acceptable, SelectorFails
  <2>3. QED
    BY <1>b, <2>1, <2>2 DEF MatchString
<1>7. QED
  BY <1>1, <1>2, <1>3, <1>4, <1>5, <1>6 DEF Ready

\* No edit leaves the invariant.
LEMMA SettingsInv == EditsSpec => []RawInv
<1>1. NoEdit => RawInv
  <2>1. DefaultRaw = [s \in DOMAIN DefaultRaw |-> DefaultRaw[s]]
    BY DEF DefaultRaw
  <2>2. \A s \in ProviderSettings : IsProvider(DefaultRaw[s])
    <3>1. ProviderSettings = {"IP4_PROVIDER", "IP6_PROVIDER"}
      BY DEF ProviderSettings, ProviderOf, IDs!Families
    <3>2. DefaultRaw["IP4_PROVIDER"] = Detecting /\ DefaultRaw["IP6_PROVIDER"] = Detecting
      BY DEF DefaultRaw
    <3>3. IsProvider(Detecting)
      BY DEF IsProvider
    <3>4. QED
      BY <3>1, <3>2, <3>3
  <2>3. QED
    BY <2>1, <2>2 DEF NoEdit, RawInv
<1>2. ASSUME RawInv, Edit PROVE RawInv'
  <2>1. PICK e \in Edits : raw' = [raw EXCEPT ![e[1]] = e[2]]
    BY <1>2 DEF Edit
  <2>2. e[1] \in DOMAIN DefaultRaw /\ (e[1] \in ProviderSettings => IsProvider(e[2]))
    BY SettingsAssumption
  <2>3. DOMAIN raw = DOMAIN DefaultRaw
    BY <1>2 DEF RawInv
  <2>4. ASSUME NEW s \in ProviderSettings PROVE IsProvider(raw'[s])
    <3>1. s \in DOMAIN DefaultRaw
      BY DEF ProviderSettings, ProviderOf, IDs!Families, DefaultRaw
    <3>2. CASE s = e[1]
      BY <2>1, <2>2, <2>3, <3>1, <3>2
    <3>3. CASE s # e[1]
      <4>1. raw'[s] = raw[s]
        BY <2>1, <2>3, <3>1, <3>3
      <4>2. QED
        BY <1>2, <4>1 DEF RawInv
    <3>4. QED
      BY <3>2, <3>3
  <2>5. raw' = [s \in DOMAIN DefaultRaw |-> raw'[s]]
    BY <2>1, <2>3
  <2>6. QED
    BY <2>4, <2>5 DEF RawInv
<1>3. ASSUME RawInv, AddEntry PROVE RawInv'
  <2>1. PICK e \in NewEntries : raw' = [raw EXCEPT ![e[1]] = Append(@, e[2])]
    BY <1>3 DEF AddEntry
  <2>2. e[1] \notin ProviderSettings
    BY SettingsAssumption DEF ProviderSettings, ProviderOf, IDs!Families
  <2>3. DOMAIN raw = DOMAIN DefaultRaw
    BY <1>3 DEF RawInv
  <2>4. ASSUME NEW s \in ProviderSettings PROVE IsProvider(raw'[s])
    <3>1. s \in DOMAIN DefaultRaw
      BY DEF ProviderSettings, ProviderOf, IDs!Families, DefaultRaw
    <3>2. raw'[s] = raw[s]
      BY <2>1, <2>2, <2>3, <3>1
    <3>3. QED
      BY <1>3, <3>2 DEF RawInv
  <2>5. raw' = [s \in DOMAIN DefaultRaw |-> raw'[s]]
    BY <2>1, <2>3
  <2>6. QED
    BY <2>4, <2>5 DEF RawInv
<1>4. RawInv /\ UNCHANGED <<raw, edits>> => RawInv'
  BY DEF RawInv
<1>5. QED
  BY <1>1, <1>2, <1>3, <1>4, PTL DEF EditsSpec

\* BuildConfig accepts no configuration that the updater cannot keep, however many
\* settings are edited and whatever the domains, host IDs, prefixes and comments are.
THEOREM OnlyReadyIsAccepted == EditsSpec => []AcceptedIsReady
  BY SettingsInv, AcceptableIsReady, PTL

-----------------------------------------------------------------------------
(* What is ignored                                                         *)

\* The settings that list something.
Lists == {"DOMAINS", "IP4_DOMAINS", "IP6_DOMAINS", "WAF_LISTS"}

\* The part of the settings that the updater looks at.
SameView(r, q) ==
  /\ \A s \in Lists : q[s] = r[s]
  /\ Managed(q) = Managed(r)
  /\ \A f \in Managed(r) : /\ q[ProviderOf[f]] = r[ProviderOf[f]]
                           /\ q[FilterOf[f]] = r[FilterOf[f]]
                           /\ q[PrefixLenOf[f]] = r[PrefixLenOf[f]]
  /\ ActiveDomains(r) # {} => \A s \in RecordSettings : q[s] = r[s]
  /\ r.WAF_LISTS # {} => \A s \in WAFSettings : q[s] = r[s]
  /\ \A s \in {"UPDATE_CRON", "UPDATE_ON_START", "DELETE_ON_STOP"} : q[s] = r[s]

\* The domains, their host IDs and what is used depend on the lists only.
LEMMA ListsDecide ==
  ASSUME NEW r, NEW q, \A s \in Lists : q[s] = r[s]
  PROVE  /\ ByFamily(q) = ByFamily(r) /\ HostID6(q) = HostID6(r)
         /\ OpinionsMerge(q) <=> OpinionsMerge(r)
         /\ \A f \in IDs!Families : IsUsed(q, f) <=> IsUsed(r, f)
         /\ Managed(q) = Managed(r) => ActiveDomains(q) = ActiveDomains(r)
<1>1. ASSUME NEW settings \in SUBSET Lists PROVE EntriesIn(q, settings) = EntriesIn(r, settings)
  <2>1. \A s \in settings : q[s] = r[s]
    OBVIOUS
  <2>2. QED
    BY <2>1 DEF EntriesIn
<1>2. ASSUME NEW f \in IDs!Families PROVE ByFamily(q)[f] = ByFamily(r)[f]
  <2>1. {DomainsOf[f], "DOMAINS"} \in SUBSET Lists
    BY DEF IDs!Families, DomainsOf, Lists
  <2>2. ProjectDomains(q, {DomainsOf[f], "DOMAINS"}) = ProjectDomains(r, {DomainsOf[f], "DOMAINS"})
    BY <1>1, <2>1 DEF ProjectDomains
  <2>3. QED
    BY <2>2 DEF ByFamily
<1>3. ByFamily(q) = ByFamily(r)
  BY <1>2 DEF ByFamily
<1>4. HostID6Settings \in SUBSET Lists
  BY DEF HostID6Settings, Lists
<1>5. EntriesIn(q, HostID6Settings) = EntriesIn(r, HostID6Settings)
  BY <1>1, <1>4
<1>6. \A d : OpinionsOn(q, HostID6Settings, d) = OpinionsOn(r, HostID6Settings, d)
  BY <1>5 DEF OpinionsOn
<1>7. ExplicitHostID6(q) = ExplicitHostID6(r)
  BY <1>3, <1>6 DEF ExplicitHostID6
<1>8. HostID6(q) = HostID6(r)
  <2> DEFINE any(S) == CHOOSE s \in S : TRUE
             given(x) == [d \in ByFamily(x)["IP6"] |->
                            IF d \in ExplicitHostID6(x)
                            THEN any(OpinionsOn(x, HostID6Settings, d)) ELSE {IDs!Preserve}]
  <2>1. HostID6(q) = given(q) /\ HostID6(r) = given(r)
    BY DEF HostID6
  <2> HIDE DEF any
  <2>2. given(q) = given(r)
    BY <1>3, <1>6, <1>7
  <2>3. QED
    BY <2>1, <2>2
<1>9. OpinionsMerge(q) <=> OpinionsMerge(r)
  BY <1>3, <1>6 DEF OpinionsMerge
<1>10. \A f \in IDs!Families : IsUsed(q, f) <=> IsUsed(r, f)
  BY <1>3 DEF IsUsed, Lists
<1>11. Managed(q) = Managed(r) => ActiveDomains(q) = ActiveDomains(r)
  BY <1>3 DEF ActiveDomains
<1>12. QED
  BY <1>3, <1>8, <1>9, <1>10, <1>11

\* What the updater does with settings.
Does(r) == Effective(BuiltConfig(r))

\* The parts of it, in terms of the settings.
LEMMA DoesIs ==
  ASSUME NEW r
  PROVE  /\ Does(r).provider = [f \in Managed(r) |-> r[ProviderOf[f]]]
         /\ Does(r).detectionFilter = [f \in Managed(r) |-> r[FilterOf[f]]]
         /\ Does(r).prefixLen = [f \in Managed(r) |-> r[PrefixLenOf[f]]]
         /\ Does(r).domains = [f \in Managed(r) |-> ByFamily(r)[f]]
         /\ Does(r).hostID6 = HostID6Policies(r)
         /\ Does(r).wafLists = r.WAF_LISTS
         /\ Does(r).records =
              IF ActiveDomains(r) = {} THEN <<>>
              ELSE <<r.TTL, [d \in ActiveDomains(r) |->
                               EvaluateProxied(ParseProxied(r.PROXIED).value, d)],
                     r.RECORD_COMMENT, r.MANAGED_RECORDS_COMMENT_REGEX>>
         /\ Does(r).items =
              IF r.WAF_LISTS = {} THEN <<>>
              ELSE <<r.WAF_LIST_DESCRIPTION, r.WAF_LIST_ITEM_COMMENT,
                     r.MANAGED_WAF_LIST_ITEMS_COMMENT_REGEX,
                     BuiltConfig(r).allowWholeWAFListDeleteOnShutdown>>
         /\ Does(r).lifecycle = <<r.UPDATE_CRON, r.UPDATE_ON_START, r.DELETE_ON_STOP>>
<1> DEFINE c == BuiltConfig(r)
<1>1. /\ c.provider = [f \in Managed(r) |-> r[ProviderOf[f]]]
      /\ c.detectionFilter = [f \in Managed(r) |-> r[FilterOf[f]]]
      /\ c.defaultPrefixLen = [f \in IDs!Families |-> r[PrefixLenOf[f]]]
      /\ c.domains = ByFamily(r) /\ c.hostID6 = HostID6Policies(r) /\ c.wafLists = r.WAF_LISTS
  BY DEF BuiltConfig
<1>2. /\ c.ttl = r.TTL
      /\ c.proxied = [d \in ActiveDomains(r) |-> EvaluateProxied(ParseProxied(r.PROXIED).value, d)]
      /\ c.recordComment = r.RECORD_COMMENT
      /\ ActiveDomains(r) # {} => c.managedRecords = r.MANAGED_RECORDS_COMMENT_REGEX
      /\ c.wafListDescription = r.WAF_LIST_DESCRIPTION
      /\ c.wafListItemComment = r.WAF_LIST_ITEM_COMMENT
      /\ r.WAF_LISTS # {} => c.managedWAFListItems = r.MANAGED_WAF_LIST_ITEMS_COMMENT_REGEX
      /\ c.updateCron = r.UPDATE_CRON /\ c.updateOnStart = r.UPDATE_ON_START
      /\ c.deleteOnStop = r.DELETE_ON_STOP
  BY DEF BuiltConfig
<1>3. DOMAIN c.proxied = ActiveDomains(r)
  BY <1>2
<1>4. \A f \in Managed(r) : f \in IDs!Families
  BY DEF Managed
<1> HIDE DEF c
<1>5. /\ Does(r).provider = c.provider /\ Does(r).detectionFilter = c.detectionFilter
      /\ Does(r).prefixLen = [f \in DOMAIN c.provider |-> c.defaultPrefixLen[f]]
      /\ Does(r).domains = [f \in DOMAIN c.provider |-> c.domains[f]]
      /\ Does(r).hostID6 = c.hostID6 /\ Does(r).wafLists = c.wafLists
      /\ Does(r).records = IF DOMAIN c.proxied # {}
                           THEN <<c.ttl, c.proxied, c.recordComment, c.managedRecords>> ELSE <<>>
      /\ Does(r).items = IF c.wafLists = {} THEN <<>>
                         ELSE <<c.wafListDescription, c.wafListItemComment,
                                c.managedWAFListItems, c.allowWholeWAFListDeleteOnShutdown>>
      /\ Does(r).lifecycle = <<c.updateCron, c.updateOnStart, c.deleteOnStop>>
  BY DEF Does, Effective, c
<1>7. Does(r).prefixLen = [f \in Managed(r) |-> r[PrefixLenOf[f]]]
  BY <1>1, <1>4, <1>5
<1>8. Does(r).domains = [f \in Managed(r) |-> ByFamily(r)[f]]
  BY <1>1, <1>5
<1>9. Does(r).records = IF ActiveDomains(r) = {} THEN <<>>
                        ELSE <<r.TTL, [d \in ActiveDomains(r) |->
                                         EvaluateProxied(ParseProxied(r.PROXIED).value, d)],
                               r.RECORD_COMMENT, r.MANAGED_RECORDS_COMMENT_REGEX>>
  BY <1>2, <1>3, <1>5
<1>10. Does(r).items = IF r.WAF_LISTS = {} THEN <<>>
                       ELSE <<r.WAF_LIST_DESCRIPTION, r.WAF_LIST_ITEM_COMMENT,
                              r.MANAGED_WAF_LIST_ITEMS_COMMENT_REGEX,
                              c.allowWholeWAFListDeleteOnShutdown>>
  BY <1>1, <1>2, <1>5
<1>11. Does(r).lifecycle = <<r.UPDATE_CRON, r.UPDATE_ON_START, r.DELETE_ON_STOP>>
  BY <1>2, <1>5
<1>12. QED
  BY <1>1, <1>5, <1>7, <1>8, <1>9, <1>10, <1>11 DEF c

\* There is no more to it than its parts.
LEMMA DoesTheSame ==
  ASSUME NEW r, NEW q,
         \A field \in {"provider", "detectionFilter", "prefixLen", "domains", "hostID6",
                       "wafLists", "records", "items", "lifecycle"} :
           Does(q)[field] = Does(r)[field]
  PROVE  Does(q) = Does(r)
<1>1. ASSUME NEW x
      PROVE  Does(x) = [provider |-> Does(x).provider, detectionFilter |-> Does(x).detectionFilter,
                        prefixLen |-> Does(x).prefixLen, domains |-> Does(x).domains,
                        hostID6 |-> Does(x).hostID6, wafLists |-> Does(x).wafLists,
                        records |-> Does(x).records, items |-> Does(x).items,
                        lifecycle |-> Does(x).lifecycle]
  BY DEF Does, Effective
<1>2. QED
  BY <1>1

\* Settings that look the same are accepted or refused together and do the same.
LEMMA SameViewSameEffect ==
  ASSUME NEW r, NEW q, SameView(r, q)
  PROVE  /\ Acceptable(r) => Acceptable(q)
         /\ Does(q) = Does(r)
<1>1. /\ ByFamily(q) = ByFamily(r) /\ HostID6(q) = HostID6(r)
      /\ OpinionsMerge(q) <=> OpinionsMerge(r)
      /\ \A f \in IDs!Families : IsUsed(q, f) <=> IsUsed(r, f)
      /\ Managed(q) = Managed(r) /\ ActiveDomains(q) = ActiveDomains(r)
  BY ListsDecide DEF SameView
<1>2. /\ q.WAF_LISTS = r.WAF_LISTS
      /\ q.UPDATE_CRON = r.UPDATE_CRON /\ q.UPDATE_ON_START = r.UPDATE_ON_START
      /\ q.DELETE_ON_STOP = r.DELETE_ON_STOP
  BY DEF SameView, Lists
<1>3. ActiveDomains(r) # {} =>
        /\ q.TTL = r.TTL /\ q.PROXIED = r.PROXIED /\ q.RECORD_COMMENT = r.RECORD_COMMENT
        /\ q.MANAGED_RECORDS_COMMENT_REGEX = r.MANAGED_RECORDS_COMMENT_REGEX
  BY DEF SameView, RecordSettings
<1>4. r.WAF_LISTS # {} =>
        /\ q.WAF_LIST_DESCRIPTION = r.WAF_LIST_DESCRIPTION
        /\ q.WAF_LIST_ITEM_COMMENT = r.WAF_LIST_ITEM_COMMENT
        /\ q.MANAGED_WAF_LIST_ITEMS_COMMENT_REGEX = r.MANAGED_WAF_LIST_ITEMS_COMMENT_REGEX
  BY DEF SameView, WAFSettings
<1>5. \A f \in Managed(r) : /\ q[ProviderOf[f]] = r[ProviderOf[f]]
                            /\ q[FilterOf[f]] = r[FilterOf[f]]
                            /\ q[PrefixLenOf[f]] = r[PrefixLenOf[f]]
  BY DEF SameView
<1>6. "IP6" \in Managed(r) => q.IP6_PROVIDER = r.IP6_PROVIDER
  BY <1>5 DEF ProviderOf
<1>7. StaticIP6Compatible(q) <=> StaticIP6Compatible(r)
  BY <1>1, <1>6 DEF StaticIP6Compatible
<1>8. \A f \in IDs!Families : IsOff(q, f) <=> IsOff(r, f)
  BY <1>1, <1>5 DEF IsOff
<1>9. Acceptable(r) => Acceptable(q)
  <2>1. SUFFICES ASSUME Acceptable(r) PROVE Acceptable(q)
    OBVIOUS
  <2>2. /\ OpinionsMerge(q)
        /\ \E f \in IDs!Families : IsUsed(q, f)
        /\ q.UPDATE_CRON = "@once" => q.UPDATE_ON_START
        /\ Managed(q) # {}
        /\ StaticIP6Compatible(q)
        /\ q.UPDATE_CRON = "@once" /\ q.DELETE_ON_STOP => \A f \in IDs!Families : IsOff(q, f)
    BY <1>1, <1>2, <1>7, <1>8, <2>1 DEF Acceptable
  <2>3. /\ ActiveDomains(q) # {} => ParseProxied(q.PROXIED).ok
        /\ ~SelectorFails(ActiveDomains(q) # {}, q.MANAGED_RECORDS_COMMENT_REGEX, q.RECORD_COMMENT)
    <3>1. CASE ActiveDomains(r) = {}
      BY <1>1, <3>1 DEF SelectorFails
    <3>2. CASE ActiveDomains(r) # {}
      BY <1>1, <1>3, <2>1, <3>2 DEF Acceptable
    <3>3. QED
      BY <3>1, <3>2
  <2>4. ~SelectorFails(q.WAF_LISTS # {}, q.MANAGED_WAF_LIST_ITEMS_COMMENT_REGEX,
                       q.WAF_LIST_ITEM_COMMENT)
    <3>1. CASE r.WAF_LISTS = {}
      BY <1>2, <3>1 DEF SelectorFails
    <3>2. CASE r.WAF_LISTS # {}
      BY <1>2, <1>4, <2>1, <3>2 DEF Acceptable
    <3>3. QED
      BY <3>1, <3>2
  <2>5. QED
    BY <2>2, <2>3, <2>4 DEF Acceptable
<1>10. /\ Does(q).provider = Does(r).provider
       /\ Does(q).detectionFilter = Does(r).detectionFilter
       /\ Does(q).prefixLen = Does(r).prefixLen
  <2>1. \A x : /\ Does(x).provider = [f \in Managed(x) |-> x[ProviderOf[f]]]
               /\ Does(x).detectionFilter = [f \in Managed(x) |-> x[FilterOf[f]]]
               /\ Does(x).prefixLen = [f \in Managed(x) |-> x[PrefixLenOf[f]]]
    BY DoesIs, Zenon
  <2>2. Does(q).provider = Does(r).provider
    <3>1. [f \in Managed(r) |-> q[ProviderOf[f]]] = [f \in Managed(r) |-> r[ProviderOf[f]]]
      BY <1>5
    <3>2. /\ Does(q).provider = [f \in Managed(q) |-> q[ProviderOf[f]]]
          /\ Does(r).provider = [f \in Managed(r) |-> r[ProviderOf[f]]]
      BY <2>1, Zenon
    <3>3. QED
      BY <1>1, <3>1, <3>2
  <2>3. Does(q).detectionFilter = Does(r).detectionFilter
    <3>1. [f \in Managed(r) |-> q[FilterOf[f]]] = [f \in Managed(r) |-> r[FilterOf[f]]]
      BY <1>5
    <3>2. /\ Does(q).detectionFilter = [f \in Managed(q) |-> q[FilterOf[f]]]
          /\ Does(r).detectionFilter = [f \in Managed(r) |-> r[FilterOf[f]]]
      BY <2>1, Zenon
    <3>3. QED
      BY <1>1, <3>1, <3>2
  <2>4. Does(q).prefixLen = Does(r).prefixLen
    <3>1. [f \in Managed(r) |-> q[PrefixLenOf[f]]] = [f \in Managed(r) |-> r[PrefixLenOf[f]]]
      BY <1>5
    <3>2. /\ Does(q).prefixLen = [f \in Managed(q) |-> q[PrefixLenOf[f]]]
          /\ Does(r).prefixLen = [f \in Managed(r) |-> r[PrefixLenOf[f]]]
      BY <2>1, Zenon
    <3>3. QED
      BY <1>1, <3>1, <3>2
  <2>5. QED
    BY <2>2, <2>3, <2>4
<1>11. Does(q).domains = Does(r).domains
  <2>1. \A x : Does(x).domains = [f \in Managed(x) |-> ByFamily(x)[f]]
    BY DoesIs, Zenon
  <2>2. QED
    BY <1>1, <2>1
<1>12. Does(q).hostID6 = Does(r).hostID6
  <2>1. \A x : Does(x).hostID6 = HostID6Policies(x)
    BY DoesIs, Zenon
  <2>2. QED
    BY <1>1, <2>1 DEF HostID6Policies
<1>13. Does(q).wafLists = Does(r).wafLists
  BY <1>2, DoesIs
<1>14. Does(q).records = Does(r).records
  <2>a. \A x : Does(x).records =
           IF ActiveDomains(x) = {} THEN <<>>
           ELSE <<x.TTL, [d \in ActiveDomains(x) |->
                            EvaluateProxied(ParseProxied(x.PROXIED).value, d)],
                  x.RECORD_COMMENT, x.MANAGED_RECORDS_COMMENT_REGEX>>
    BY DoesIs, Zenon
  <2>1. CASE ActiveDomains(r) = {}
    BY <1>1, <2>1, <2>a
  <2>2. CASE ActiveDomains(r) # {}
    BY <1>1, <1>3, <2>2, <2>a
  <2>3. QED
    BY <2>1, <2>2
<1>15. Does(q).items = Does(r).items
  <2>1. CASE r.WAF_LISTS = {}
    BY <1>2, <2>1, DoesIs
  <2>2. CASE r.WAF_LISTS # {}
    <3>1. BuiltConfig(q).allowWholeWAFListDeleteOnShutdown
            = BuiltConfig(r).allowWholeWAFListDeleteOnShutdown
      BY <1>2, <1>4, <2>2 DEF BuiltConfig
    <3>2. \A x : Does(x).items =
             IF x.WAF_LISTS = {} THEN <<>>
             ELSE <<x.WAF_LIST_DESCRIPTION, x.WAF_LIST_ITEM_COMMENT,
                    x.MANAGED_WAF_LIST_ITEMS_COMMENT_REGEX,
                    BuiltConfig(x).allowWholeWAFListDeleteOnShutdown>>
      BY DoesIs, Zenon
    <3>3. QED
      BY <1>2, <1>4, <2>2, <3>1, <3>2
  <2>3. QED
    BY <2>1, <2>2
<1>16. Does(q).lifecycle = Does(r).lifecycle
  <2>1. \A x : Does(x).lifecycle = <<x.UPDATE_CRON, x.UPDATE_ON_START, x.DELETE_ON_STOP>>
    BY DoesIs, Zenon
  <2>2. QED
    BY <1>2, <2>1
<1>17. QED
  <2>1. Does(q) = Does(r)
    BY <1>10, <1>11, <1>12, <1>13, <1>14, <1>15, <1>16, DoesTheSame
  <2>2. QED
    BY <1>9, <2>1

\* Whatever is looked at can be told from what is done.
LEMMA DoesTells ==
  ASSUME NEW r
  PROVE  /\ DOMAIN Does(r).provider = Managed(r)
         /\ \A f \in Managed(r) : /\ Does(r).detectionFilter[f] = r[FilterOf[f]]
                                  /\ Does(r).prefixLen[f] = r[PrefixLenOf[f]]
         /\ ActiveDomains(r) # {} => /\ Does(r).records[1] = r.TTL
                                     /\ Does(r).records[3] = r.RECORD_COMMENT
                                     /\ Does(r).records[4] = r.MANAGED_RECORDS_COMMENT_REGEX
         /\ r.WAF_LISTS # {} => /\ Does(r).items[1] = r.WAF_LIST_DESCRIPTION
                                /\ Does(r).items[2] = r.WAF_LIST_ITEM_COMMENT
                                /\ Does(r).items[3] = r.MANAGED_WAF_LIST_ITEMS_COMMENT_REGEX
         /\ Does(r).lifecycle[1] = r.UPDATE_CRON
         /\ Does(r).lifecycle[2] = r.UPDATE_ON_START
         /\ Does(r).lifecycle[3] = r.DELETE_ON_STOP
<1>1. DOMAIN Does(r).provider = Managed(r)
  <2>1. Does(r).provider = [f \in Managed(r) |-> r[ProviderOf[f]]]
    BY DoesIs, Zenon
  <2>2. QED
    BY <2>1
<1>2. \A f \in Managed(r) : /\ Does(r).detectionFilter[f] = r[FilterOf[f]]
                            /\ Does(r).prefixLen[f] = r[PrefixLenOf[f]]
  <2>1. /\ Does(r).detectionFilter = [f \in Managed(r) |-> r[FilterOf[f]]]
        /\ Does(r).prefixLen = [f \in Managed(r) |-> r[PrefixLenOf[f]]]
    BY DoesIs, Zenon
  <2>2. QED
    BY <2>1
<1>3. ASSUME ActiveDomains(r) # {}
      PROVE  /\ Does(r).records[1] = r.TTL
             /\ Does(r).records[3] = r.RECORD_COMMENT
             /\ Does(r).records[4] = r.MANAGED_RECORDS_COMMENT_REGEX
  <2> DEFINE proxied == [d \in ActiveDomains(r) |->
                           EvaluateProxied(ParseProxied(r.PROXIED).value, d)]
  <2>1. Does(r).records =
          IF ActiveDomains(r) = {} THEN <<>>
          ELSE <<r.TTL, proxied, r.RECORD_COMMENT, r.MANAGED_RECORDS_COMMENT_REGEX>>
    BY DoesIs, Zenon
  <2> HIDE DEF proxied
  <2>2. Does(r).records = <<r.TTL, proxied, r.RECORD_COMMENT, r.MANAGED_RECORDS_COMMENT_REGEX>>
    BY <1>3, <2>1, Zenon
  <2>3. QED
    BY <2>2
<1>4. ASSUME r.WAF_LISTS # {}
      PROVE  /\ Does(r).items[1] = r.WAF_LIST_DESCRIPTION
             /\ Does(r).items[2] = r.WAF_LIST_ITEM_COMMENT
             /\ Does(r).items[3] = r.MANAGED_WAF_LIST_ITEMS_COMMENT_REGEX
  <2>1. Does(r).items =
          IF r.WAF_LISTS = {} THEN <<>>
          ELSE <<r.WAF_LIST_DESCRIPTION, r.WAF_LIST_ITEM_COMMENT,
                 r.MANAGED_WAF_LIST_ITEMS_COMMENT_REGEX,
                 BuiltConfig(r).allowWholeWAFListDeleteOnShutdown>>
    BY DoesIs, Zenon
  <2>2. Does(r).items = <<r.WAF_LIST_DESCRIPTION, r.WAF_LIST_ITEM_COMMENT,
                          r.MANAGED_WAF_LIST_ITEMS_COMMENT_REGEX,
                          BuiltConfig(r).allowWholeWAFListDeleteOnShutdown>>
    BY <1>4, <2>1, Zenon
  <2>3. QED
    BY <2>2
<1>5. /\ Does(r).lifecycle[1] = r.UPDATE_CRON
      /\ Does(r).lifecycle[2] = r.UPDATE_ON_START
      /\ Does(r).lifecycle[3] = r.DELETE_ON_STOP
  <2>1. Does(r).lifecycle = <<r.UPDATE_CRON, r.UPDATE_ON_START, r.DELETE_ON_STOP>>
    BY DoesIs, Zenon
  <2>2. QED
    BY <2>1
<1>6. QED
  BY <1>1, <1>2, <1>3, <1>4, <1>5

\* The settings that no one looks at.
Moot(s) ==
  \/ \E f \in IDs!Families : s = ProviderOf[f] /\ ~IsUsed(raw, f)
  \/ \E f \in IDs!Families \ Managed(raw) : s \in {FilterOf[f], PrefixLenOf[f]}
  \/ s \in RecordSettings /\ ActiveDomains(raw) = {}
  \/ s \in WAFSettings /\ raw.WAF_LISTS = {}

\* The settings by name.
LEMMA SettingNames ==
  /\ DOMAIN DefaultRaw =
       {"IP4_PROVIDER", "IP6_PROVIDER", "IP4_DETECTION_FILTER", "IP6_DETECTION_FILTER",
        "IP4_DEFAULT_PREFIX_LEN", "IP6_DEFAULT_PREFIX_LEN", "DOMAINS", "IP4_DOMAINS",
        "IP6_DOMAINS", "WAF_LISTS", "UPDATE_CRON", "UPDATE_ON_START", "DELETE_ON_STOP",
        "TTL", "PROXIED", "RECORD_COMMENT", "MANAGED_RECORDS_COMMENT_REGEX",
        "WAF_LIST_DESCRIPTION", "WAF_LIST_ITEM_COMMENT", "MANAGED_WAF_LIST_ITEMS_COMMENT_REGEX"}
  /\ IDs!Families = {"IP4", "IP6"}
  /\ ProviderOf["IP4"] = "IP4_PROVIDER" /\ ProviderOf["IP6"] = "IP6_PROVIDER"
  /\ FilterOf["IP4"] = "IP4_DETECTION_FILTER" /\ FilterOf["IP6"] = "IP6_DETECTION_FILTER"
  /\ PrefixLenOf["IP4"] = "IP4_DEFAULT_PREFIX_LEN" /\ PrefixLenOf["IP6"] = "IP6_DEFAULT_PREFIX_LEN"
<1>1. DOMAIN DefaultRaw =
       {"IP4_PROVIDER", "IP6_PROVIDER", "IP4_DETECTION_FILTER", "IP6_DETECTION_FILTER",
        "IP4_DEFAULT_PREFIX_LEN", "IP6_DEFAULT_PREFIX_LEN", "DOMAINS", "IP4_DOMAINS",
        "IP6_DOMAINS", "WAF_LISTS", "UPDATE_CRON", "UPDATE_ON_START", "DELETE_ON_STOP",
        "TTL", "PROXIED", "RECORD_COMMENT", "MANAGED_RECORDS_COMMENT_REGEX",
        "WAF_LIST_DESCRIPTION", "WAF_LIST_ITEM_COMMENT", "MANAGED_WAF_LIST_ITEMS_COMMENT_REGEX"}
  BY DEF DefaultRaw
<1>2. QED
  BY <1>1 DEF IDs!Families, ProviderOf, FilterOf, PrefixLenOf

\* What the settings are without one.
LEMMA WithoutIs ==
  ASSUME RawInv, NEW s \in Optional
  PROVE  /\ s \notin Lists
         /\ \A t \in DOMAIN DefaultRaw : t # s => Without(s)[t] = raw[t]
         /\ s \in {"IP4_PROVIDER", "IP6_PROVIDER"} => Without(s)[s] = NoProvider
         /\ s \notin {"IP4_PROVIDER", "IP6_PROVIDER"} => Without(s)[s] = DefaultRaw[s]
<1>1. DOMAIN raw = DOMAIN DefaultRaw
  BY DEF RawInv
<1>2. s \in DOMAIN raw /\ s \notin Lists
  BY <1>1 DEF Optional, Lists
<1>3. QED
  BY <1>1, <1>2 DEF Without

\* Without its provider, a family is not managed; the others are as before.
LEMMA ManagedWithout ==
  ASSUME RawInv, NEW s \in Optional
  PROVE  Managed(Without(s)) = {f \in Managed(raw) : s # ProviderOf[f]}
<1>1. \A t \in Lists : Without(s)[t] = raw[t]
  BY WithoutIs, SettingNames DEF Lists
<1>2. \A f \in IDs!Families : IsUsed(Without(s), f) <=> IsUsed(raw, f)
  BY <1>1, ListsDecide
<1>3. ASSUME NEW f \in IDs!Families
      PROVE  Without(s)[ProviderOf[f]] =
               IF s = ProviderOf[f] THEN NoProvider ELSE raw[ProviderOf[f]]
  <2>1. ProviderOf[f] \in DOMAIN DefaultRaw /\ ProviderOf[f] \in {"IP4_PROVIDER", "IP6_PROVIDER"}
    BY SettingNames
  <2>2. QED
    BY <2>1, WithoutIs
<1>4. QED
  BY <1>2, <1>3 DEF Managed

\* A configuration that is accepted is accepted without a setting that no one looks
\* at, and does the same.
LEMMA MootIsInert ==
  ASSUME RawInv, Acceptable(raw), NEW s \in Optional, Moot(s)
  PROVE  Acceptable(Without(s)) /\ Does(Without(s)) = Does(raw)
<1> DEFINE q == Without(s)
<1>1. \A t \in Lists : q[t] = raw[t]
  BY WithoutIs, SettingNames DEF Lists
<1>2. ASSUME NEW f \in Managed(raw) PROVE s \notin {ProviderOf[f], FilterOf[f], PrefixLenOf[f]}
  <2>1. f \in IDs!Families /\ IsUsed(raw, f)
    BY DEF Managed
  <2>2. QED
    BY <1>2, <2>1, SettingNames DEF Moot, RecordSettings, WAFSettings
<1>3. Managed(q) = Managed(raw)
  BY <1>2, ManagedWithout
<1>4. ASSUME NEW f \in Managed(raw)
      PROVE  /\ q[ProviderOf[f]] = raw[ProviderOf[f]] /\ q[FilterOf[f]] = raw[FilterOf[f]]
             /\ q[PrefixLenOf[f]] = raw[PrefixLenOf[f]]
  <2>1. f \in IDs!Families
    BY DEF Managed
  <2>2. {ProviderOf[f], FilterOf[f], PrefixLenOf[f]} \subseteq DOMAIN DefaultRaw
    BY <2>1, SettingNames
  <2>3. QED
    BY <1>2, <2>2, WithoutIs
<1>5. ASSUME ActiveDomains(raw) # {}, NEW t \in RecordSettings PROVE q[t] = raw[t]
  <2>1. s \notin RecordSettings
    BY <1>5, SettingNames DEF Moot, RecordSettings, WAFSettings
  <2>2. t \in DOMAIN DefaultRaw
    BY SettingNames DEF RecordSettings
  <2>3. QED
    BY <1>5, <2>1, <2>2, WithoutIs
<1>6. ASSUME raw.WAF_LISTS # {}, NEW t \in WAFSettings PROVE q[t] = raw[t]
  <2>1. s \notin WAFSettings
    BY <1>6, SettingNames DEF Moot, RecordSettings, WAFSettings
  <2>2. t \in DOMAIN DefaultRaw
    BY SettingNames DEF WAFSettings
  <2>3. QED
    BY <1>6, <2>1, <2>2, WithoutIs
<1>7. ASSUME NEW t \in {"UPDATE_CRON", "UPDATE_ON_START", "DELETE_ON_STOP"} PROVE q[t] = raw[t]
  <2>1. s # t
    BY SettingNames DEF Moot, RecordSettings, WAFSettings
  <2>2. QED
    BY <2>1, WithoutIs, SettingNames
<1> HIDE DEF q
<1>8. SameView(raw, q)
  BY <1>1, <1>3, <1>4, <1>5, <1>6, <1>7 DEF SameView
<1>9. QED
  BY <1>8, SameViewSameEffect DEF q

\* Without any other one, what is done differs if it differs from its default.
LEMMA OthersMatter ==
  ASSUME RawInv, NEW s \in Optional, ~Moot(s), s # "PROXIED", raw[s] # Without(s)[s]
  PROVE  Does(Without(s)) # Does(raw)
<1> DEFINE q == Without(s)
<1>1. SUFFICES ASSUME Does(q) = Does(raw) PROVE FALSE
  OBVIOUS
<1>a. \A t \in Lists : q[t] = raw[t]
  BY WithoutIs, SettingNames DEF Lists
<1>b. q[s] # raw[s]
  OBVIOUS
<1>c. \A f \in Managed(raw) : f \in IDs!Families
  BY DEF Managed
<1>d. Managed(q) = {f \in Managed(raw) : s # ProviderOf[f]}
  BY ManagedWithout
<1>e. q.WAF_LISTS = raw.WAF_LISTS
  BY <1>a DEF Lists
<1>f. s \in {"IP4_PROVIDER", "IP6_PROVIDER"} => q[s] = NoProvider
  BY WithoutIs
<1> HIDE DEF q
<1>2. Managed(q) = Managed(raw)
  BY <1>1, DoesTells
<1>3. ActiveDomains(q) = ActiveDomains(raw)
  BY <1>2, <1>a, ListsDecide
<1>4. ASSUME NEW f \in IDs!Families, s = ProviderOf[f] PROVE FALSE
  <2>1. IsUsed(raw, f)
    BY <1>4 DEF Moot
  <2>2. raw[ProviderOf[f]] # NoProvider
    BY <1>4, <1>b, <1>f, SettingNames
  <2>3. f \in Managed(raw)
    BY <2>1, <2>2 DEF Managed
  <2>4. QED
    BY <1>2, <1>4, <1>d, <2>3
<1>5. ASSUME NEW f \in IDs!Families, s \in {FilterOf[f], PrefixLenOf[f]} PROVE FALSE
  <2>1. f \in Managed(raw)
    BY <1>5 DEF Moot
  <2>2. q[FilterOf[f]] = raw[FilterOf[f]] /\ q[PrefixLenOf[f]] = raw[PrefixLenOf[f]]
    <3>1. \A x : \A g \in Managed(x) : /\ Does(x).detectionFilter[g] = x[FilterOf[g]]
                                       /\ Does(x).prefixLen[g] = x[PrefixLenOf[g]]
      BY DoesTells, Zenon
    <3>2. f \in Managed(q)
      BY <1>2, <2>1
    <3>3. /\ Does(q).detectionFilter[f] = q[FilterOf[f]]
          /\ Does(q).prefixLen[f] = q[PrefixLenOf[f]]
          /\ Does(raw).detectionFilter[f] = raw[FilterOf[f]]
          /\ Does(raw).prefixLen[f] = raw[PrefixLenOf[f]]
      BY <2>1, <3>1, <3>2, Zenon
    <3>4. QED
      BY <1>1, <3>3
  <2>3. QED
    BY <1>5, <1>b, <2>2
<1>6. ASSUME s \in RecordSettings PROVE FALSE
  <2>1. ActiveDomains(raw) # {}
    BY <1>6 DEF Moot
  <2>2. /\ q.TTL = raw.TTL /\ q.RECORD_COMMENT = raw.RECORD_COMMENT
        /\ q.MANAGED_RECORDS_COMMENT_REGEX = raw.MANAGED_RECORDS_COMMENT_REGEX
    <3>1. \A x : ActiveDomains(x) # {} =>
                   /\ Does(x).records[1] = x.TTL /\ Does(x).records[3] = x.RECORD_COMMENT
                   /\ Does(x).records[4] = x.MANAGED_RECORDS_COMMENT_REGEX
      BY DoesTells, Zenon
    <3>2. QED
      BY <1>1, <1>3, <2>1, <3>1
  <2>3. QED
    BY <1>6, <1>b, <2>2 DEF RecordSettings
<1>7. ASSUME s \in WAFSettings PROVE FALSE
  <2>1. raw.WAF_LISTS # {}
    BY <1>7 DEF Moot
  <2>2. /\ q.WAF_LIST_DESCRIPTION = raw.WAF_LIST_DESCRIPTION
        /\ q.WAF_LIST_ITEM_COMMENT = raw.WAF_LIST_ITEM_COMMENT
        /\ q.MANAGED_WAF_LIST_ITEMS_COMMENT_REGEX = raw.MANAGED_WAF_LIST_ITEMS_COMMENT_REGEX
    <3>1. \A x : x.WAF_LISTS # {} =>
                   /\ Does(x).items[1] = x.WAF_LIST_DESCRIPTION
                   /\ Does(x).items[2] = x.WAF_LIST_ITEM_COMMENT
                   /\ Does(x).items[3] = x.MANAGED_WAF_LIST_ITEMS_COMMENT_REGEX
      BY DoesTells, Zenon
    <3>2. QED
      BY <1>1, <1>e, <2>1, <3>1
  <2>3. QED
    BY <1>7, <1>b, <2>2 DEF WAFSettings
<1>8. ASSUME s \in {"UPDATE_CRON", "UPDATE_ON_START", "DELETE_ON_STOP"} PROVE FALSE
  <2>1. \A x : /\ Does(x).lifecycle[1] = x.UPDATE_CRON
               /\ Does(x).lifecycle[2] = x.UPDATE_ON_START
               /\ Does(x).lifecycle[3] = x.DELETE_ON_STOP
    BY DoesTells, Zenon
  <2>2. QED
    BY <1>1, <1>8, <1>b, <2>1
<1>9. QED
  BY <1>4, <1>5, <1>6, <1>7, <1>8, SettingNames DEF Optional, RecordSettings, WAFSettings

\* The settings that are said to be ignored are those that no one looks at.
LEMMA IgnoredAre ==
  ASSUME RawInv, NEW s \in Optional
  PROVE  Ignored(s) \in Warnings(raw) <=> Moot(s) /\ raw[s] # Without(s)[s]
<1>1. Ignored(s) \in Warnings(raw) <=> s \in IgnoredSettings(raw)
  <2>1. \A w \in ShadowedFamilyIntents(raw) : w.kind \in {"listing", "hostid6"}
    <3>1. \A f, D : IgnoredListing(f, D).kind = "listing"
      BY DEF IgnoredListing
    <3>2. \A S, D : IgnoredHostID6(S, D).kind = "hostid6"
      BY DEF IgnoredHostID6
    <3>3. QED
      BY <3>1, <3>2 DEF ShadowedFamilyIntents
  <2>2. \A w \in SuspiciousMACs(raw) : w.kind = "MAC"
    BY DEF SuspiciousMACs, SuspiciousMAC
  <2>3. \A w \in OwnershipGaps(raw) : w.kind = "not isolated"
    <3>1. \A t : NotIsolated(t).kind = "not isolated"
      BY DEF NotIsolated
    <3>2. QED
      BY <3>1 DEF OwnershipGaps
  <2>4. CleanUpOnly(Managed(raw)).kind = "clean-up only"
    BY DEF CleanUpOnly
  <2>5. \A t : Ignored(t).kind = "ignored" /\ Ignored(t).setting = t
    BY DEF Ignored
  <2>6. Ignored(s) \in Warnings(raw) <=> Ignored(s) \in {Ignored(t) : t \in IgnoredSettings(raw)}
    BY <2>1, <2>2, <2>3, <2>4, <2>5 DEF Warnings
  <2>7. QED
    BY <2>5, <2>6
<1>2. CASE s \in {"IP4_PROVIDER", "IP6_PROVIDER"}
  <2>1. PICK f \in IDs!Families : s = ProviderOf[f]
    BY <1>2, SettingNames
  <2>2. \A g \in IDs!Families : s = ProviderOf[g] => g = f
    BY <2>1, SettingNames
  <2>3. s \in IgnoredSettings(raw) <=> raw[s] # NoProvider /\ ~IsUsed(raw, f)
    <3>1. s \notin RecordSettings /\ s \notin WAFSettings
          /\ \A g \in IDs!Families : s # FilterOf[g] /\ s # PrefixLenOf[g]
      BY <1>2, SettingNames DEF RecordSettings, WAFSettings
    <3>2. QED
      BY <2>1, <2>2, <3>1 DEF IgnoredSettings
  <2>4. Moot(s) <=> ~IsUsed(raw, f)
    BY <1>2, <2>1, <2>2, SettingNames DEF Moot, RecordSettings, WAFSettings
  <2>5. Without(s)[s] = NoProvider
    BY <1>2, WithoutIs
  <2>6. QED
    BY <1>1, <2>3, <2>4, <2>5
<1>3. CASE s \notin {"IP4_PROVIDER", "IP6_PROVIDER"}
  <2>1. \A f \in IDs!Families : s # ProviderOf[f]
    BY <1>3, SettingNames
  <2>2. Without(s)[s] = DefaultRaw[s]
    BY <1>3, WithoutIs
  <2>3. s \in IgnoredSettings(raw) <=> Moot(s) /\ raw[s] # DefaultRaw[s]
    BY <2>1 DEF IgnoredSettings, Moot
  <2>4. QED
    BY <1>1, <2>2, <2>3
<1>4. QED
  BY <1>2, <1>3

\* Where IPv6 is disabled, a domain that is listed for it is in the one listing, and a
\* domain with host IDs only is in the one group of the domains with the same host IDs.
LEMMA ShadowsAre ==
  ASSUME NEW d \in ByFamily(raw)["IP6"]
  PROVE  Cardinality(Shadows(Warnings(raw), d)) =
           IF /\ "IP6" \notin Managed(raw)
              /\ d \in ProjectDomains(raw, {"IP6_DOMAINS"}) \cup ExplicitHostID6(raw)
           THEN 1 ELSE 0
<1> DEFINE S == Shadows(Warnings(raw), d)
           L == ProjectDomains(raw, {"IP6_DOMAINS"})
           U == UnlistedHostID6(raw)
           like(e) == IgnoredHostID6(HostID6(raw)[e],
                                     {x \in U : HostID6(raw)[x] = HostID6(raw)[e]})
           listings == {IgnoredListing(f, ProjectDomains(raw, {DomainsOf[f]})) :
                          f \in {g \in IDs!Families \ Managed(raw) :
                                   ProjectDomains(raw, {DomainsOf[g]}) # {}}}
           hostids == IF "IP6" \in Managed(raw) THEN {} ELSE {like(e) : e \in U}
<1>a. ShadowedFamilyIntents(raw) = listings \cup hostids
  BY Zenon DEF ShadowedFamilyIntents
<1>b. U = ExplicitHostID6(raw) \ L
  BY DEF UnlistedHostID6
<1>c. \A f, D : /\ IgnoredListing(f, D).kind = "listing" /\ IgnoredListing(f, D).family = f
                /\ IgnoredListing(f, D).domains = D
  BY DEF IgnoredListing
<1>d. \A X, D : IgnoredHostID6(X, D).kind = "hostid6" /\ IgnoredHostID6(X, D).domains = D
  BY DEF IgnoredHostID6
<1>e. DomainsOf["IP6"] = "IP6_DOMAINS" /\ "IP6" \in IDs!Families
  BY DEF DomainsOf, IDs!Families
<1>1. \A w \in Warnings(raw) : w.kind \in {"listing", "hostid6"} => w \in listings \cup hostids
  <2>1. \A s : Ignored(s).kind = "ignored"
    BY DEF Ignored
  <2>2. \A w \in SuspiciousMACs(raw) : w.kind = "MAC"
    BY DEF SuspiciousMACs, SuspiciousMAC
  <2>3. \A w \in OwnershipGaps(raw) : w.kind = "not isolated"
    <3>1. \A t : NotIsolated(t).kind = "not isolated"
      BY DEF NotIsolated
    <3>2. QED
      BY <3>1 DEF OwnershipGaps
  <2>4. CleanUpOnly(Managed(raw)).kind = "clean-up only"
    BY DEF CleanUpOnly
  <2> HIDE DEF listings, hostids
  <2>5. QED
    BY <1>a, <2>1, <2>2, <2>3, <2>4 DEF Warnings
<1>2. listings \cup hostids \subseteq Warnings(raw)
  BY <1>a DEF Warnings
<1>3. S = {w \in listings \cup hostids : /\ w.kind \in {"listing", "hostid6"}
                                         /\ w.kind = "listing" => w.family = "IP6"
                                         /\ d \in w.domains}
  <2> HIDE DEF listings, hostids
  <2>1. QED
    BY <1>1, <1>2 DEF Shadows
<1>4. ASSUME NEW w \in listings, w.family = "IP6", d \in w.domains
      PROVE  /\ w = IgnoredListing("IP6", L) /\ d \in L /\ "IP6" \notin Managed(raw)
  <2>1. PICK f \in IDs!Families \ Managed(raw) :
               w = IgnoredListing(f, ProjectDomains(raw, {DomainsOf[f]}))
    OBVIOUS
  <2>2. f = "IP6"
    BY <1>4, <1>c, <2>1
  <2>3. QED
    BY <1>4, <1>c, <1>e, <2>1, <2>2
<1>5. ASSUME "IP6" \notin Managed(raw), d \in L
      PROVE  IgnoredListing("IP6", L) \in listings
  BY <1>5, <1>e
<1>6. ASSUME NEW w \in hostids, d \in w.domains
      PROVE  w = like(d) /\ d \in U /\ "IP6" \notin Managed(raw)
  <2>1. PICK e \in U : w = like(e)
    BY <1>6
  <2>2. w.domains = {x \in U : HostID6(raw)[x] = HostID6(raw)[e]}
    BY <1>d, <2>1
  <2>3. d \in U /\ HostID6(raw)[d] = HostID6(raw)[e]
    BY <1>6, <2>2
  <2>4. "IP6" \notin Managed(raw)
    BY <1>6
  <2>5. QED
    BY <2>1, <2>3, <2>4
<1>7. ASSUME "IP6" \notin Managed(raw), d \in U
      PROVE  like(d) \in hostids /\ d \in like(d).domains /\ like(d).kind = "hostid6"
  BY <1>7, <1>d
<1>8. ASSUME NEW w \in listings PROVE w.kind = "listing"
  <2>1. PICK f : w = IgnoredListing(f, ProjectDomains(raw, {DomainsOf[f]}))
    BY <1>8
  <2>2. QED
    BY <1>c, <2>1
<1>9. ASSUME NEW w \in hostids PROVE w.kind = "hostid6"
  <2>1. PICK e : w = like(e)
    BY <1>9
  <2>2. QED
    BY <1>d, <2>1
<1>10. CASE "IP6" \notin Managed(raw) /\ d \in L
  <2>1. d \notin U
    BY <1>10, <1>b
  <2> HIDE DEF listings, hostids, like, U, L, S
  <2>2. S = {IgnoredListing("IP6", L)}
    <3>1. \A w \in S : w = IgnoredListing("IP6", L)
      BY <1>3, <1>4, <1>6, <1>8, <1>9, <2>1
    <3>2. IgnoredListing("IP6", L) \in S
      BY <1>3, <1>5, <1>c, <1>10
    <3>3. QED
      BY <3>1, <3>2
  <2>3. Cardinality(S) = 1
    BY <2>2, FS_Singleton
  <2>4. QED
    BY <1>10, <2>3 DEF L, S
<1>11. CASE "IP6" \notin Managed(raw) /\ d \in U
  <2>1. d \notin L /\ d \in ExplicitHostID6(raw)
    BY <1>11, <1>b
  <2> HIDE DEF listings, hostids, like, U, L, S
  <2>2. S = {like(d)}
    <3>1. \A w \in S : w = like(d)
      BY <1>3, <1>4, <1>6, <1>8, <1>9, <2>1
    <3>2. like(d) \in S
      BY <1>3, <1>7, <1>11
    <3>3. QED
      BY <3>1, <3>2
  <2>3. Cardinality(S) = 1
    BY <2>2, FS_Singleton
  <2>4. QED
    BY <1>11, <2>1, <2>3 DEF L, S
<1>12. CASE "IP6" \in Managed(raw) \/ d \notin L \cup ExplicitHostID6(raw)
  <2> HIDE DEF listings, hostids, like, L, S
  <2>1. \A w : w \notin S
    BY <1>3, <1>4, <1>6, <1>8, <1>9, <1>12, <1>b
  <2>2. S = {}
    BY <2>1
  <2>3. Cardinality(S) = 0
    BY <2>2, FS_EmptySet
  <2>4. QED
    BY <1>12, <2>3 DEF L, S
<1>13. QED
  BY <1>10, <1>11, <1>12, <1>b

\* Of what passes the checks, what is ignored is named, and nothing else.
LEMMA AcceptableIsInert ==
  ASSUME RawInv
  PROVE  IgnoredIsInert
<1> SUFFICES ASSUME Acceptable(raw), NEW build, build = BuildConfig(raw)
             PROVE  CallsWhatIsInert(build) /\ CallsWhatIsShadowed(build)
  BY BuildIs DEF IgnoredIsInert
<1>1. build.value = BuiltConfig(raw) /\ build.warnings = Warnings(raw)
  BY BuildIs
<1>2. ASSUME NEW s \in Optional
      PROVE  \/ Ignored(s) \notin build.warnings /\ (s = "PROXIED" \/ raw[s] = Without(s)[s])
             \/ /\ raw[s] # Without(s)[s]
                /\ Ignored(s) \in build.warnings <=> SameEffect(build, BuildConfig(Without(s)))
  <2>1. Ignored(s) \in build.warnings <=> Moot(s) /\ raw[s] # Without(s)[s]
    BY <1>1, IgnoredAre
  <2>2. Moot(s) => SameEffect(build, BuildConfig(Without(s)))
    BY <1>1, BuildIs, MootIsInert DEF SameEffect, Does
  <2>3. ASSUME SameEffect(build, BuildConfig(Without(s))) PROVE Does(Without(s)) = Does(raw)
    <3>1. BuildConfig(Without(s)).ok
      BY <2>3 DEF SameEffect
    <3>2. BuildConfig(Without(s)).value = BuiltConfig(Without(s))
      BY <3>1, BuildIs
    <3>3. QED
      BY <1>1, <2>3, <3>2 DEF SameEffect, Does
  <2>4. ~Moot(s) /\ s # "PROXIED" /\ raw[s] # Without(s)[s]
          => ~SameEffect(build, BuildConfig(Without(s)))
    BY <2>3, OthersMatter
  <2>5. QED
    BY <2>1, <2>2, <2>4
<1>3. CallsWhatIsInert(build)
  BY <1>2 DEF CallsWhatIsInert
<1>4. DOMAIN build.value.provider = Managed(raw)
  <2>1. BuiltConfig(raw).provider = [f \in Managed(raw) |-> raw[ProviderOf[f]]]
    BY DEF BuiltConfig
  <2>2. QED
    BY <1>1, <2>1
<1>5. CallsWhatIsShadowed(build)
  <2>1. ASSUME NEW d \in ByFamily(raw)["IP6"]
        PROVE  Cardinality(Shadows(build.warnings, d)) =
                 IF IsShadowed(build, d) THEN 1 ELSE 0
    <3>1. Shadows(build.warnings, d) = Shadows(Warnings(raw), d)
      BY <1>1
    <3>2. QED
      BY <1>4, <3>1, ShadowsAre DEF IsShadowed
  <2>2. QED
    BY <2>1 DEF CallsWhatIsShadowed
<1>6. QED
  BY <1>3, <1>5

\* In every configuration that BuildConfig accepts, the settings that are said to be
\* ignored are those without which it would be accepted as well and the updater would
\* do the same, and each IPv6 intent that is shadowed is in exactly one warning.
THEOREM IgnoredMeansInert == EditsSpec => []IgnoredIsInert
  BY SettingsInv, AcceptableIsInert, PTL
===============================================================================
