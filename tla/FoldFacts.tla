------------------------------- MODULE FoldFacts -------------------------------
(***************************************************************************)
(* Facts about folds, for the proofs that need them: what FoldLeft and     *)
(* MapThenSumSet of the community modules compute.                         *)
(*                                                                         *)
(* Both iterate a function over all subsets of a set, taking one element   *)
(* away at a time.  That there is such a function, and that two of them    *)
(* agree where their arguments do, is shown without an induction rule: a   *)
(* family of subsets of a finite set in which a statement fails has a      *)
(* smallest member, and that one cannot be.                                *)
(***************************************************************************)
EXTENDS FiniteSetTheorems, FiniteSetsExt, TLAPS

SubsetFamily(F, S) == F \subseteq SUBSET S /\ F # {}
HasSmallest(F) == \E m \in F : \A s \in F : s \subseteq m => s = m

\* Among subsets of a finite set there is one with no other below it.
LEMMA SmallestSubset ==
  ASSUME NEW S, IsFiniteSet(S), NEW F, SubsetFamily(F, S)
  PROVE  HasSmallest(F)
<1>1. F \subseteq FiniteSubsetsOf(S)
  BY FS_FiniteSubsetsOfFinite DEF SubsetFamily
<1>2. PICK m \in F : \A s \in F : <<s, m>> \notin StrictSubsetOrdering(S)
  <2>1. IsWellFoundedOn(StrictSubsetOrdering(S), FiniteSubsetsOf(S))
    BY FS_StrictSubsetOrderingWellFounded
  <2>2. QED
    BY <1>1, <2>1, WFMin DEF SubsetFamily
<1>3. ASSUME NEW s \in F, s \subseteq m, s # m
      PROVE  FALSE
  <2>1. <<s, m>> \in (SUBSET S) \X (SUBSET S)
    BY DEF SubsetFamily
  <2>2. QED
    BY <1>2, <1>3, <2>1 DEF StrictSubsetOrdering
<1>4. QED
  BY <1>3 DEF HasSmallest

\* What holds at 0 and climbs by one step holds up to n.
LEMMA Climbing ==
  ASSUME NEW n \in Nat, NEW G, 0 \in G, \A m \in 0..(n - 1) : m \in G => m + 1 \in G
  PROVE  \A m \in 0..n : m \in G
<1> DEFINE F == {0..m : m \in {k \in 0..n : k \notin G}}
<1>1. ASSUME NEW k \in 0..n, k \notin G
      PROVE  FALSE
  <2>1. SubsetFamily(F, 0..n)
    BY <1>1 DEF SubsetFamily
  <2>2. IsFiniteSet(0..n)
    BY FS_Interval
  <2>3. PICK s \in F : \A t \in F : t \subseteq s => t = s
    <3> HIDE DEF F
    <3>1. HasSmallest(F)
      BY <2>1, <2>2, SmallestSubset
    <3>2. QED
      BY <3>1 DEF HasSmallest
  <2>4. PICK m \in 0..n : m \notin G /\ s = 0..m
    OBVIOUS
  <2>5. m # 0 /\ m - 1 \in 0..(n - 1) /\ (m - 1) + 1 = m
    BY <2>4
  <2>6. m - 1 \notin G
    BY <2>4, <2>5
  <2>7. 0..(m - 1) \in F
    BY <2>5, <2>6
  <2>8. 0..(m - 1) \subseteq s /\ m \in s /\ m \notin 0..(m - 1)
    BY <2>4, <2>5
  <2>9. QED
    BY <2>3, <2>7, <2>8
<1>2. QED
  BY <1>1

\* A finite, non-empty set of integers has a last member.
LEMMA MaxIsLast ==
  ASSUME NEW S, IsFiniteSet(S), S \subseteq Int, S # {}
  PROVE  Max(S) \in S /\ \A x \in S : x <= Max(S)
<1> DEFINE Above(x) == {y \in S : y > x}
           F == {Above(x) : x \in S}
<1>1. SubsetFamily(F, S)
  BY DEF SubsetFamily
<1>2. PICK m \in F : \A s \in F : s \subseteq m => s = m
  <2> HIDE DEF F
  <2>1. HasSmallest(F)
    BY <1>1, SmallestSubset
  <2>2. QED
    BY <2>1 DEF HasSmallest
<1>3. PICK x \in S : m = Above(x)
  OBVIOUS
<1>4. ASSUME NEW y \in S, y > x
      PROVE  FALSE
  <2>1. \A z \in S : z > y => z > x
    BY <1>4
  <2>2. Above(y) \subseteq m
    BY <1>3, <2>1
  <2>3. y \in m /\ y \notin Above(y)
    BY <1>3, <1>4
  <2>4. QED
    BY <1>2, <2>2, <2>3
<1>5. \A y \in S : x >= y
  BY <1>4
<1>6. \E z \in S : \A y \in S : z >= y
  BY <1>5
<1>7. QED
  BY <1>6 DEF Max

-----------------------------------------------------------------------------
(* Sums.                                                                   *)

SumOver(F, S) == MapThenSumSet(LAMBDA i : F[i], S)

Pick(s) == CHOOSE x \in s : TRUE
Adds(it, F, S) == it = [s \in SUBSET S |-> IF s = {} THEN 0 ELSE F[Pick(s)] + it[s \ {Pick(s)}]]
AgreeOn(g, h, S) == \A s \in S : g[s] = h[s]

LEMMA PickIsOne == \A s : s # {} => Pick(s) \in s
  BY DEF Pick

LEMMA SumIsIteration ==
  \A F, S : SumOver(F, S) = (CHOOSE it : Adds(it, F, S))[S]
  BY DEF SumOver, MapThenSumSet, MapThenFoldSet, Adds, Pick

LEMMA SumsAgree ==
  ASSUME NEW S, IsFiniteSet(S), NEW T, NEW F, NEW G, AgreeOn(F, G, S \cap T),
         NEW g, Adds(g, F, S), NEW h, Adds(h, G, T)
  PROVE  AgreeOn(g, h, SUBSET (S \cap T))
<1> SUFFICES ASSUME NEW s \in SUBSET (S \cap T)
             PROVE  g[s] = h[s]
  BY DEF AgreeOn
<1> DEFINE B == {t \in SUBSET (S \cap T) : g[t] # h[t]}
<1>1. ASSUME B # {}
      PROVE  FALSE
  <2>1. PICK m \in B : \A t \in B : t \subseteq m => t = m
    <3>1. SubsetFamily(B, S)
      BY <1>1 DEF SubsetFamily
    <3> HIDE DEF B
    <3>2. HasSmallest(B)
      BY <3>1, SmallestSubset
    <3>3. QED
      BY <3>2 DEF HasSmallest
  <2>2. m \in SUBSET S /\ m \in SUBSET T /\ g[m] # h[m]
    OBVIOUS
  <2>3. CASE m = {}
    BY <2>2, <2>3 DEF Adds
  <2>4. CASE m # {}
    <3> DEFINE x == Pick(m)
    <3>1. x \in m
      BY <2>4, PickIsOne
    <3> HIDE DEF x
    <3>2. g[m \ {x}] = h[m \ {x}]
      <4>1. m \ {x} \in SUBSET (S \cap T) /\ m \ {x} \subseteq m /\ m \ {x} # m
        BY <2>2, <3>1
      <4>2. QED
        BY <2>1, <4>1
    <3>3. g[m] = F[x] + g[m \ {x}] /\ h[m] = G[x] + h[m \ {x}]
      BY <2>2, <2>4 DEF Adds, x
    <3>4. F[x] = G[x]
      BY <2>2, <3>1 DEF AgreeOn
    <3>5. QED
      BY <2>2, <3>2, <3>3, <3>4
  <2>5. QED
    BY <2>3, <2>4
<1>2. QED
  BY <1>1

LEMMA SumExists ==
  ASSUME NEW S, IsFiniteSet(S), NEW F
  PROVE  \E it : Adds(it, F, S)
<1> DEFINE B == {t \in SUBSET S : ~\E it : Adds(it, F, t)}
<1>1. ASSUME B # {}
      PROVE  FALSE
  <2>1. PICK m \in B : \A t \in B : t \subseteq m => t = m
    <3>1. SubsetFamily(B, S)
      BY <1>1 DEF SubsetFamily
    <3> HIDE DEF B
    <3>2. HasSmallest(B)
      BY <3>1, SmallestSubset
    <3>3. QED
      BY <3>2 DEF HasSmallest
  <2> DEFINE sum(t) == (CHOOSE it : Adds(it, F, t))[t]
             whole == [t \in SUBSET m |-> IF t = {} THEN 0
                                          ELSE F[Pick(t)] + sum(t \ {Pick(t)})]
  <2>2. m \subseteq S
    OBVIOUS
  <2>3. ASSUME NEW t \in SUBSET m, t # m
        PROVE  Adds(CHOOSE it : Adds(it, F, t), F, t)
    <3>1. \E it : Adds(it, F, t)
      BY <2>1, <2>2, <2>3
    <3>2. QED
      BY <3>1
  <2>4. ASSUME NEW t \in SUBSET m, t # {}
        PROVE  t \ {Pick(t)} \in SUBSET m /\ t \ {Pick(t)} # m
    <3>1. Pick(t) \in t
      BY <2>4, PickIsOne
    <3>2. QED
      BY <3>1
  <2>5. ASSUME NEW t \in SUBSET m, t # m
        PROVE  whole[t] = sum(t)
    <3> DEFINE g == CHOOSE it : Adds(it, F, t)
               u == t \ {Pick(t)}
               h == CHOOSE it : Adds(it, F, u)
    <3>1. Adds(g, F, t)
      BY <2>3, <2>5
    <3>2. CASE t = {}
      <4>1. g[t] = 0
        <5> HIDE DEF g
        <5>1. QED
          BY <3>1, <3>2 DEF Adds
      <4>2. QED
        BY <3>2, <4>1
    <3>3. CASE t # {}
      <4>1. u \in SUBSET m /\ u # m /\ t \cap u = u
        BY <2>4, <3>3
      <4>2. Adds(h, F, u)
        BY <2>3, <4>1
      <4>3. g[u] = h[u]
        <5>1. IsFiniteSet(t) /\ AgreeOn(F, F, t \cap u)
          BY <2>2, FS_Subset DEF AgreeOn
        <5> HIDE DEF g, h, u
        <5>2. AgreeOn(g, h, SUBSET (t \cap u))
          BY <3>1, <4>2, <5>1, SumsAgree
        <5>3. QED
          BY <4>1, <5>2 DEF AgreeOn
      <4>4. g[t] = F[Pick(t)] + g[u]
        <5> HIDE DEF g
        <5>1. QED
          BY <3>1, <3>3 DEF Adds
      <4>5. QED
        BY <3>3, <4>3, <4>4
    <3>4. QED
      BY <3>2, <3>3
  <2>6. ASSUME NEW t \in SUBSET m, t # {}
        PROVE  whole[t] = F[Pick(t)] + whole[t \ {Pick(t)}]
    <3>1. whole[t \ {Pick(t)}] = sum(t \ {Pick(t)})
      <4> HIDE DEF whole, sum
      <4>1. QED
        BY <2>4, <2>5, <2>6
    <3>2. QED
      BY <2>6, <3>1
  <2>7. Adds(whole, F, m)
    <3>1. whole[{}] = 0 /\ whole = [t \in SUBSET m |-> whole[t]]
      OBVIOUS
    <3> HIDE DEF whole
    <3>2. whole = [t \in SUBSET m |-> IF t = {} THEN 0
                                      ELSE F[Pick(t)] + whole[t \ {Pick(t)}]]
      BY <2>6, <3>1
    <3>3. QED
      BY <3>2 DEF Adds
  <2>8. m \notin B
    <3> HIDE DEF whole
    <3>1. QED
      BY <2>7
  <2>9. QED
    BY <2>8
<1>2. QED
  BY <1>1

\* Whatever iteration is chosen over a larger set, it sums the smaller one.
LEMMA SumWithin ==
  ASSUME NEW S, IsFiniteSet(S), NEW F, NEW g, Adds(g, F, S), NEW s \in SUBSET S
  PROVE  g[s] = SumOver(F, s)
<1> DEFINE h == CHOOSE it : Adds(it, F, s)
<1>1. IsFiniteSet(s)
  BY FS_Subset
<1>2. Adds(h, F, s)
  <2>1. \E it : Adds(it, F, s)
    BY <1>1, SumExists
  <2>2. QED
    BY <2>1
<1>3. S \cap s = s /\ AgreeOn(F, F, S \cap s)
  BY DEF AgreeOn
<1>4. g[s] = h[s]
  <2> HIDE DEF h
  <2>1. AgreeOn(g, h, SUBSET (S \cap s))
    BY <1>2, <1>3, SumsAgree
  <2>2. QED
    BY <1>3, <2>1 DEF AgreeOn
<1>5. QED
  BY <1>4, SumIsIteration

\* Nothing sums to zero; a sum takes one member that the fold picks at a time.
LEMMA SumSteps ==
  ASSUME NEW S, IsFiniteSet(S), NEW F
  PROVE  /\ S = {} => SumOver(F, S) = 0
         /\ S # {} => SumOver(F, S) = F[Pick(S)] + SumOver(F, S \ {Pick(S)})
<1>1. PICK g : Adds(g, F, S)
  BY SumExists
<1>2. g[S] = SumOver(F, S)
  BY <1>1, SumWithin
<1>3. g[S \ {Pick(S)}] = SumOver(F, S \ {Pick(S)})
  <2>1. S \ {Pick(S)} \in SUBSET S
    OBVIOUS
  <2>2. QED
    BY <1>1, <2>1, SumWithin
<1>4. QED
  BY <1>1, <1>2, <1>3 DEF Adds

\* Sums of integers are integers, and any member may be taken first.
LEMMA SumTakesAny ==
  ASSUME NEW S, IsFiniteSet(S), NEW F, \A i \in S : F[i] \in Int
  PROVE  /\ SumOver(F, S) \in Int
         /\ \A x \in S : SumOver(F, S) = F[x] + SumOver(F, S \ {x})
<1> DEFINE Good(t) == /\ SumOver(F, t) \in Int
                      /\ \A x \in t : SumOver(F, t) = F[x] + SumOver(F, t \ {x})
           B == {t \in SUBSET S : ~Good(t)}
<1>1. ASSUME B # {}
      PROVE  FALSE
  <2>1. PICK m \in B : \A t \in B : t \subseteq m => t = m
    <3>1. SubsetFamily(B, S)
      BY <1>1 DEF SubsetFamily
    <3> HIDE DEF B
    <3>2. HasSmallest(B)
      BY <3>1, SmallestSubset
    <3>3. QED
      BY <3>2 DEF HasSmallest
  <2>2. m \subseteq S /\ IsFiniteSet(m)
    BY FS_Subset
  <2>3. ASSUME NEW t \in SUBSET m, t # m
        PROVE  Good(t)
    BY <2>1, <2>2, <2>3
  <2>4. CASE m = {}
    <3>1. SumOver(F, m) = 0
      BY <2>2, <2>4, SumSteps
    <3>2. Good(m)
      BY <2>4, <3>1
    <3>3. QED
      BY <3>2
  <2>5. CASE m # {}
    <3> DEFINE y == Pick(m)
    <3>1. y \in m /\ SumOver(F, m) = F[y] + SumOver(F, m \ {y})
      BY <2>2, <2>5, SumSteps, PickIsOne
    <3> HIDE DEF y
    <3>2. ASSUME NEW z \in m
          PROVE  Good(m \ {z}) /\ F[z] \in Int
      <4>1. m \ {z} \in SUBSET m /\ m \ {z} # m
        OBVIOUS
      <4> HIDE DEF Good
      <4>2. QED
        BY <2>2, <2>3, <4>1
    <3>3. SumOver(F, m) \in Int
      BY <3>1, <3>2
    <3>4. ASSUME NEW x \in m, x # y
          PROVE  SumOver(F, m) = F[x] + SumOver(F, m \ {x})
      <4> DEFINE both == m \ {x, y}
      <4>1. SumOver(F, m \ {y}) = F[x] + SumOver(F, both)
        <5>1. x \in m \ {y} /\ (m \ {y}) \ {x} = both
          BY <3>4
        <5>2. QED
          BY <3>1, <3>2, <5>1
      <4>2. SumOver(F, m \ {x}) = F[y] + SumOver(F, both)
        <5>1. y \in m \ {x} /\ (m \ {x}) \ {y} = both
          BY <3>1, <3>4
        <5>2. QED
          BY <3>2, <5>1
      <4>3. SumOver(F, both) \in Int
        <5>1. both \in SUBSET m /\ both # m
          BY <3>1
        <5> HIDE DEF both
        <5>2. QED
          BY <2>3, <5>1
      <4>4. QED
        BY <3>1, <3>2, <4>1, <4>2, <4>3
    <3>5. Good(m)
      BY <3>1, <3>3, <3>4
    <3>6. QED
      BY <3>5
  <2>6. QED
    BY <2>4, <2>5
<1>2. S \notin B
  BY <1>1
<1>3. QED
  BY <1>2

\* A new member adds its number to the sum.
LEMMA SumOfMore ==
  ASSUME NEW S, IsFiniteSet(S), NEW F, NEW x, x \notin S, \A i \in S \cup {x} : F[i] \in Int
  PROVE  SumOver(F, S \cup {x}) = SumOver(F, S) + F[x] /\ SumOver(F, S) \in Int
<1>1. IsFiniteSet(S \cup {x}) /\ (S \cup {x}) \ {x} = S
  BY FS_AddElement
<1>2. SumOver(F, S \cup {x}) = F[x] + SumOver(F, S) /\ SumOver(F, S) \in Int
  <2>1. SumOver(F, S) \in Int
    BY SumTakesAny
  <2>2. SumOver(F, S \cup {x}) = F[x] + SumOver(F, (S \cup {x}) \ {x})
    <3> DEFINE T == S \cup {x}
    <3>1. IsFiniteSet(T) /\ x \in T /\ \A i \in T : F[i] \in Int
      BY <1>1
    <3> HIDE DEF T
    <3>2. \A y \in T : SumOver(F, T) = F[y] + SumOver(F, T \ {y})
      BY <3>1, SumTakesAny
    <3>3. QED
      BY <3>1, <3>2 DEF T
  <2>3. QED
    BY <1>1, <2>1, <2>2
<1>3. QED
  BY <1>2

\* A sum depends on the numbers of its members only.
LEMMA SumOfSame ==
  ASSUME NEW S, IsFiniteSet(S), NEW F, NEW G, AgreeOn(F, G, S)
  PROVE  SumOver(F, S) = SumOver(G, S)
<1>1. PICK g : Adds(g, F, S)
  BY SumExists
<1>2. PICK h : Adds(h, G, S)
  BY SumExists
<1>3. AgreeOn(g, h, SUBSET S)
  <2>1. S \cap S = S
    OBVIOUS
  <2>2. QED
    BY <1>1, <1>2, <2>1, SumsAgree
<1>4. g[S] = SumOver(F, S) /\ h[S] = SumOver(G, S)
  BY <1>1, <1>2, SumWithin
<1>5. QED
  BY <1>3, <1>4 DEF AgreeOn

\* A sum of numbers that are not negative is at least the sum of fewer of them.
LEMMA SumOfFewer ==
  ASSUME NEW S, IsFiniteSet(S), NEW T \in SUBSET S, NEW F, \A i \in S : F[i] \in Nat
  PROVE  SumOver(F, T) <= SumOver(F, S) /\ SumOver(F, S) \in Int /\ SumOver(F, T) \in Int
<1> DEFINE Good(s) == SumOver(F, T \cap s) <= SumOver(F, s)
           B == {s \in SUBSET S : ~Good(s)}
<1>1. ASSUME NEW s \in SUBSET S
      PROVE  /\ IsFiniteSet(s) /\ SumOver(F, s) \in Int
             /\ \A x \in s : SumOver(F, s) = F[x] + SumOver(F, s \ {x})
  <2>1. IsFiniteSet(s) /\ \A i \in s : F[i] \in Int
    BY FS_Subset
  <2>2. QED
    BY <2>1, SumTakesAny
<1>2. ASSUME B # {}
      PROVE  FALSE
  <2>1. PICK m \in B : \A s \in B : s \subseteq m => s = m
    <3>1. SubsetFamily(B, S)
      BY <1>2 DEF SubsetFamily
    <3> HIDE DEF B
    <3>2. HasSmallest(B)
      BY <3>1, SmallestSubset
    <3>3. QED
      BY <3>2 DEF HasSmallest
  <2>2. m \in SUBSET S /\ ~Good(m)
    OBVIOUS
  <2>3. CASE m = {}
    <3>1. T \cap m = m
      BY <2>3
    <3>2. SumOver(F, T \cap m) = SumOver(F, m) /\ SumOver(F, m) \in Int
      BY <1>1, <2>2, <3>1
    <3>3. QED
      BY <2>2, <3>2
  <2>4. CASE m # {}
    <3> DEFINE x == Pick(m)
    <3>1. x \in m
      BY <2>4, PickIsOne
    <3> HIDE DEF x
    <3> DEFINE rest == m \ {x}
    <3>2. rest \in SUBSET S /\ rest \subseteq m /\ rest # m
      BY <2>2, <3>1
    <3>3. Good(rest)
      BY <2>1, <3>2
    <3>4. SumOver(F, m) = F[x] + SumOver(F, rest) /\ F[x] \in Nat
      BY <1>1, <2>2, <3>1
    <3>5. CASE x \in T
      <4>1. T \cap m \in SUBSET S /\ x \in T \cap m /\ (T \cap m) \ {x} = T \cap rest
        BY <2>2, <3>1, <3>5
      <4>2. SumOver(F, T \cap m) = F[x] + SumOver(F, T \cap rest)
        <5> DEFINE u == T \cap m
        <5>1. SumOver(F, u) = F[x] + SumOver(F, u \ {x})
          <6>1. u \in SUBSET S /\ x \in u
            BY <4>1
          <6> HIDE DEF u
          <6>2. QED
            BY <1>1, <6>1
        <5>2. QED
          BY <4>1, <5>1
      <4>3. SumOver(F, rest) \in Int /\ SumOver(F, T \cap rest) \in Int
        BY <1>1, <3>2
      <4>4. QED
        BY <2>2, <3>3, <3>4, <4>2, <4>3
    <3>6. CASE x \notin T
      <4>1. T \cap m = T \cap rest
        BY <3>6
      <4>2. SumOver(F, rest) \in Int /\ SumOver(F, T \cap rest) \in Int
        BY <1>1, <3>2
      <4>3. QED
        BY <2>2, <3>3, <3>4, <4>1, <4>2
    <3>7. QED
      BY <3>5, <3>6
  <2>5. QED
    BY <2>3, <2>4
<1>3. Good(S)
  BY <1>2
<1>4. T \cap S = T
  OBVIOUS
<1>5. QED
  BY <1>1, <1>3, <1>4

ImageOf(f, s) == {f[i] : i \in s}

\* A sum is the same when each member is replaced by another that has its number.
LEMMA SumOfImage ==
  ASSUME NEW S, IsFiniteSet(S), NEW F, NEW G, NEW f,
         \A i, j \in S : f[i] = f[j] => i = j,
         \A i \in S : F[i] \in Int /\ G[f[i]] = F[i]
  PROVE  IsFiniteSet(ImageOf(f, S)) /\ SumOver(F, S) = SumOver(G, ImageOf(f, S))
<1> DEFINE Good(s) == IsFiniteSet(ImageOf(f, s)) /\ SumOver(F, s) = SumOver(G, ImageOf(f, s))
           B == {s \in SUBSET S : ~Good(s)}
<1>1. ASSUME B # {}
      PROVE  FALSE
  <2>1. PICK m \in B : \A s \in B : s \subseteq m => s = m
    <3>1. SubsetFamily(B, S)
      BY <1>1 DEF SubsetFamily
    <3> HIDE DEF B
    <3>2. HasSmallest(B)
      BY <3>1, SmallestSubset
    <3>3. QED
      BY <3>2 DEF HasSmallest
  <2>2. m \in SUBSET S /\ ~Good(m) /\ IsFiniteSet(m)
    BY FS_Subset
  <2>3. CASE m = {}
    <3>1. ImageOf(f, m) = {} /\ SumOver(F, {}) = 0 /\ SumOver(G, {}) = 0
      BY <2>3, SumSteps, FS_EmptySet DEF ImageOf
    <3>2. QED
      BY <2>2, <2>3, <3>1
  <2>4. CASE m # {}
    <3> DEFINE x == Pick(m)
    <3>1. x \in m
      BY <2>4, PickIsOne
    <3> HIDE DEF x
    <3> DEFINE rest == m \ {x}
    <3>2. rest \in SUBSET S /\ rest \subseteq m /\ rest # m
      BY <2>2, <3>1
    <3>3. Good(rest)
      BY <2>1, <3>2
    <3>4. SumOver(F, m) = F[x] + SumOver(F, rest)
      <4>1. \A i \in m : F[i] \in Int
        BY <2>2
      <4>2. QED
        BY <2>2, <3>1, <4>1, SumTakesAny
    <3>5. /\ IsFiniteSet(ImageOf(f, m))
          /\ SumOver(G, ImageOf(f, m)) = G[f[x]] + SumOver(G, ImageOf(f, rest))
      <4> DEFINE u == ImageOf(f, m)
      <4>1. IsFiniteSet(u)
        <5>1. u = ImageOf(f, rest) \cup {f[x]}
          BY <3>1 DEF ImageOf
        <5>2. IsFiniteSet(ImageOf(f, rest))
          BY <3>3
        <5>3. IsFiniteSet(ImageOf(f, rest) \cup {f[x]})
          <6> HIDE DEF rest
          <6>1. QED
            BY <5>2, FS_AddElement
        <5>4. QED
          BY <5>1, <5>3
      <4>2. f[x] \in u /\ (\A k \in u : G[k] \in Int) /\ u \ {f[x]} = ImageOf(f, rest)
        BY <2>2, <3>1 DEF ImageOf
      <4> HIDE DEF u
      <4>3. SumOver(G, u) = G[f[x]] + SumOver(G, u \ {f[x]})
        BY <4>1, <4>2, SumTakesAny
      <4>4. QED
        BY <4>1, <4>2, <4>3 DEF u
    <3>6. QED
      BY <2>2, <3>1, <3>3, <3>4, <3>5
  <2>5. QED
    BY <2>3, <2>4
<1>2. QED
  BY <1>1

================================================================================
