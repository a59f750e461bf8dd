---------------------------- MODULE SumTheorems ----------------------------
(***************************************************************************)
(* What SumFunctionOnSet computes, for every function and every finite     *)
(* set: the sums of money of TillRows.  The library's induction theorems   *)
(* take the predicate as an operator; here induction over a finite set is  *)
(* the choice of a smallest counterexample, which needs a set of them only.*)
(***************************************************************************)
EXTENDS Integers, Functions, FiniteSets, FiniteSetTheorems,
        WellFoundedInduction, TLAPS

-----------------------------------------------------------------------------
(* Induction over a finite set *)

\* A non-empty family of subsets of a finite set has a smallest member: one
\* that strictly includes no other.
LEMMA SmallestMember ==
    ASSUME NEW S, IsFiniteSet(S), NEW F, F \subseteq SUBSET S, F # {}
    PROVE  \E m \in F : \A s \in F : s \subseteq m => s = m
<1>1. FiniteSubsetsOf(S) = SUBSET S
  BY FS_FiniteSubsetsOfFinite
<1>2. IsWellFoundedOn(StrictSubsetOrdering(S), SUBSET S)
  BY <1>1, FS_StrictSubsetOrderingWellFounded
<1>3. PICK m \in F : \A s \in F : <<s, m>> \notin StrictSubsetOrdering(S)
  BY <1>2, WFMin
<1>4. ASSUME NEW s \in F, s \subseteq m, s # m  PROVE FALSE
  <2>1. <<s, m>> \in StrictSubsetOrdering(S)
    BY <1>4 DEF StrictSubsetOrdering
  <2>2. QED
    BY <1>3, <2>1
<1>5. QED
  BY <1>3, <1>4

-----------------------------------------------------------------------------
(* The running sum behind SumFunctionOnSet *)

\* The element a sum takes first.
First(s) == CHOOSE x \in s : TRUE

\* g sums f over the subsets of S, by the equation SumFunctionOnSet is
\* defined with.
IsSum(g, f, S) ==
    g = [s \in SUBSET S |->
           IF s = {} THEN 0 ELSE f[First(s)] + g[s \ {First(s)}]]

\* The library's sum is the running sum at its whole domain.
LEMMA SumUnfold ==
    ASSUME NEW f, NEW S
    PROVE  SumFunctionOnSet(f, S) = (CHOOSE g : IsSum(g, f, S))[S]
BY DEF SumFunctionOnSet, FoldFunctionOnSet, MapThenFoldSet, IsSum, First

\* One step of a running sum.
LEMMA SumStep ==
    ASSUME NEW f, NEW S, NEW g, IsSum(g, f, S), NEW s \in SUBSET S
    PROVE  g[s] = IF s = {} THEN 0 ELSE f[First(s)] + g[s \ {First(s)}]
<1> DEFINE h == [r \in SUBSET S |->
                   IF r = {} THEN 0 ELSE f[First(r)] + g[r \ {First(r)}]]
<1>1. g = h
  BY DEF IsSum
<1>2. h[s] = IF s = {} THEN 0 ELSE f[First(s)] + g[s \ {First(s)}]
  OBVIOUS
<1>3. QED
  BY <1>1, <1>2

\* The member a sum takes first is one of the set.
LEMMA FirstIn == ASSUME NEW s, s # {} PROVE First(s) \in s
BY DEF First

\* Two running sums of f agree where both are defined.
LEMMA SumUnique ==
    ASSUME NEW f, NEW S, NEW T, IsFiniteSet(S),
           NEW g, IsSum(g, f, S), NEW h, IsSum(h, f, T),
           NEW s \in SUBSET S, s \in SUBSET T
    PROVE  g[s] = h[s]
<1> DEFINE F == {r \in SUBSET S : r \subseteq T /\ g[r] # h[r]}
<1>1. SUFFICES ASSUME F # {} PROVE FALSE
  OBVIOUS
<1>2. PICK m \in F : \A r \in F : r \subseteq m => r = m
  <2>1. F \subseteq SUBSET S
    OBVIOUS
  <2> HIDE DEF F
  <2>2. QED
    BY <1>1, <2>1, SmallestMember
<1>3. m \in SUBSET S /\ m \in SUBSET T /\ g[m] # h[m]
  OBVIOUS
<1>4. /\ g[m] = IF m = {} THEN 0 ELSE f[First(m)] + g[m \ {First(m)}]
      /\ h[m] = IF m = {} THEN 0 ELSE f[First(m)] + h[m \ {First(m)}]
  <2> HIDE DEF F
  <2>1. g[m] = IF m = {} THEN 0 ELSE f[First(m)] + g[m \ {First(m)}]
    BY <1>3, SumStep
  <2>2. h[m] = IF m = {} THEN 0 ELSE f[First(m)] + h[m \ {First(m)}]
    BY <1>3, SumStep
  <2>3. QED
    BY <2>1, <2>2
<1>5. m # {}
  BY <1>3, <1>4
<1>6. m \ {First(m)} \in SUBSET S /\ m \ {First(m)} \subseteq T
  BY <1>3
<1>7. m \ {First(m)} # m
  BY <1>5, FirstIn
<1>8. m \ {First(m)} \notin F
  BY <1>2, <1>7
<1>9. g[m \ {First(m)}] = h[m \ {First(m)}]
  BY <1>6, <1>8
<1>10. QED
  BY <1>3, <1>4, <1>5, <1>9

\* A finite set has a running sum.
LEMMA SumExists ==
    ASSUME NEW f, NEW S, IsFiniteSet(S)
    PROVE  \E g : IsSum(g, f, S)
<1> DEFINE F == {r \in SUBSET S : ~\E g : IsSum(g, f, r)}
<1>1. SUFFICES ASSUME F # {} PROVE FALSE
  <2>1. S \in SUBSET S
    OBVIOUS
  <2>2. QED
    BY <2>1
<1>2. PICK m \in F : \A r \in F : r \subseteq m => r = m
  <2>1. F \subseteq SUBSET S
    OBVIOUS
  <2> HIDE DEF F
  <2>2. QED
    BY <1>1, <2>1, SmallestMember
<1> DEFINE G(r) == CHOOSE g : IsSum(g, f, r)
           h == [r \in SUBSET m |->
                   IF r = {} THEN 0
                   ELSE f[First(r)] + G(r \ {First(r)})[r \ {First(r)}]]
<1>3. ASSUME NEW r \in SUBSET m, r # m
      PROVE  IsSum(G(r), f, r) /\ IsFiniteSet(r)
  <2>1. r \in SUBSET S /\ r \notin F
    BY <1>2, <1>3
  <2>2. \E g : IsSum(g, f, r)
    BY <2>1
  <2>3. IsFiniteSet(r)
    BY <2>1, FS_Subset
  <2>4. QED
    BY <2>2, <2>3
<1>4. ASSUME NEW r \in SUBSET m, r # m  PROVE h[r] = G(r)[r]
  <2>1. h[r] = IF r = {} THEN 0
               ELSE f[First(r)] + G(r \ {First(r)})[r \ {First(r)}]
    OBVIOUS
  <2>2. IsSum(G(r), f, r) /\ IsFiniteSet(r)
    BY <1>3, <1>4
  <2>3. G(r)[r] = IF r = {} THEN 0 ELSE f[First(r)] + G(r)[r \ {First(r)}]
    <3> HIDE DEF G
    <3>1. r \in SUBSET r
      OBVIOUS
    <3>2. QED
      BY <2>2, <3>1, SumStep
  <2>4. CASE r = {}
    BY <2>1, <2>3, <2>4
  <2>5. CASE r # {}
    <3> DEFINE q == r \ {First(r)}
    <3>1. q \in SUBSET m /\ q # m /\ q \in SUBSET r
      BY <2>5, FirstIn
    <3>2. IsSum(G(q), f, q)
      BY <1>3, <3>1
    <3>3. G(r)[q] = G(q)[q]
      <4>1. q \in SUBSET q
        OBVIOUS
      <4>2. IsSum(G(r), f, r) /\ IsSum(G(q), f, q) /\ IsFiniteSet(r)
        BY <2>2, <3>2
      <4>3. q \in SUBSET r
        BY <3>1
      <4> HIDE DEF G, q
      <4>4. QED
        BY <4>1, <4>2, <4>3, SumUnique
    <3>4. QED
      BY <2>1, <2>3, <2>5, <3>3
  <2>6. QED
    BY <2>4, <2>5
<1>5. ASSUME NEW r \in SUBSET m
      PROVE  h[r] = IF r = {} THEN 0 ELSE f[First(r)] + h[r \ {First(r)}]
  <2>1. h[r] = IF r = {} THEN 0
               ELSE f[First(r)] + G(r \ {First(r)})[r \ {First(r)}]
    OBVIOUS
  <2>2. CASE r = {}
    BY <2>1, <2>2
  <2>3. CASE r # {}
    <3>1. r \ {First(r)} \in SUBSET m /\ r \ {First(r)} # m
      BY <2>3, FirstIn
    <3>2. h[r \ {First(r)}] = G(r \ {First(r)})[r \ {First(r)}]
      BY <1>4, <3>1
    <3>3. QED
      BY <2>1, <2>3, <3>2
  <2>4. QED
    BY <2>2, <2>3
<1>6. IsSum(h, f, m)
  <2>1. h = [r \in SUBSET m |-> h[r]]
    OBVIOUS
  <2> HIDE DEF h
  <2>2. [r \in SUBSET m |-> h[r]]
          = [r \in SUBSET m |->
               IF r = {} THEN 0 ELSE f[First(r)] + h[r \ {First(r)}]]
    BY <1>5
  <2>3. QED
    BY <2>1, <2>2 DEF IsSum
<1>7. QED
  <2> HIDE DEF h
  <2>1. \E g : IsSum(g, f, m)
    BY <1>6
  <2>2. QED
    BY <1>2, <2>1

\* SumFunctionOnSet is its running sum.
LEMMA SumIsRunning ==
    ASSUME NEW f, NEW S, IsFiniteSet(S), NEW s \in SUBSET S
    PROVE  \E g : IsSum(g, f, S) /\ g[s] = SumFunctionOnSet(f, s)
<1> DEFINE G(r) == CHOOSE g : IsSum(g, f, r)
<1>1. IsFiniteSet(s)
  BY FS_Subset
<1>2. IsSum(G(S), f, S) /\ IsSum(G(s), f, s)
  BY <1>1, SumExists
<1>3. SumFunctionOnSet(f, s) = G(s)[s]
  BY SumUnfold
<1>4. G(S)[s] = G(s)[s]
  <2> HIDE DEF G
  <2>1. s \in SUBSET s
    OBVIOUS
  <2>2. QED
    BY <1>2, <2>1, SumUnique
<1>5. QED
  <2> HIDE DEF G
  <2>1. QED
    BY <1>2, <1>3, <1>4

-----------------------------------------------------------------------------
(* What a sum is *)

\* The sum over nothing is nothing.
LEMMA SumEmpty ==
    ASSUME NEW f
    PROVE  SumFunctionOnSet(f, {}) = 0
<1>1. IsFiniteSet({}) /\ {} \in SUBSET {}
  BY FS_EmptySet
<1>2. PICK g : IsSum(g, f, {}) /\ g[{}] = SumFunctionOnSet(f, {})
  BY <1>1, SumIsRunning
<1>3. g[{}] = 0
  BY <1>1, <1>2, SumStep
<1>4. QED
  BY <1>2, <1>3

\* The equation the module Functions defines a sum with.
LEMMA SumFirst ==
    ASSUME NEW f, NEW S, IsFiniteSet(S), S # {}
    PROVE  SumFunctionOnSet(f, S)
             = f[First(S)] + SumFunctionOnSet(f, S \ {First(S)})
<1> DEFINE q == S \ {First(S)}
<1>1. S \in SUBSET S /\ q \in SUBSET S /\ q \in SUBSET q /\ IsFiniteSet(q)
  BY FS_Subset
<1>2. PICK g : IsSum(g, f, S) /\ g[S] = SumFunctionOnSet(f, S)
  BY <1>1, SumIsRunning
<1>3. PICK h : IsSum(h, f, q) /\ h[q] = SumFunctionOnSet(f, q)
  <2> HIDE DEF q
  <2>1. QED
    BY <1>1, SumIsRunning
<1>4. g[S] = f[First(S)] + g[q]
  <2>1. g[S] = IF S = {} THEN 0 ELSE f[First(S)] + g[S \ {First(S)}]
    BY <1>1, <1>2, SumStep
  <2>2. QED
    BY <2>1
<1>5. g[q] = h[q]
  <2> HIDE DEF q
  <2>1. QED
    BY <1>1, <1>2, <1>3, SumUnique
<1>6. QED
  BY <1>2, <1>3, <1>4, <1>5

\* A sum of integers is an integer.
LEMMA SumInt ==
    ASSUME NEW f, NEW S, IsFiniteSet(S), \A x \in S : f[x] \in Int
    PROVE  SumFunctionOnSet(f, S) \in Int
<1> DEFINE F == {r \in SUBSET S : SumFunctionOnSet(f, r) \notin Int}
<1>1. SUFFICES ASSUME F # {} PROVE FALSE
  <2>1. S \in SUBSET S
    OBVIOUS
  <2>2. QED
    BY <2>1
<1>2. PICK m \in F : \A r \in F : r \subseteq m => r = m
  <2>1. F \subseteq SUBSET S
    OBVIOUS
  <2> HIDE DEF F
  <2>2. QED
    BY <1>1, <2>1, SmallestMember
<1>3. m \in SUBSET S /\ SumFunctionOnSet(f, m) \notin Int /\ IsFiniteSet(m)
  BY FS_Subset
<1>4. m # {}
  BY <1>3, SumEmpty
<1>5. /\ m \ {First(m)} \in SUBSET S /\ m \ {First(m)} # m
      /\ m \ {First(m)} \subseteq m /\ First(m) \in S
  BY <1>3, <1>4, FirstIn
<1>6. SumFunctionOnSet(f, m \ {First(m)}) \in Int
  BY <1>2, <1>5
<1>7. SumFunctionOnSet(f, m) = f[First(m)] + SumFunctionOnSet(f, m \ {First(m)})
  BY <1>3, <1>4, SumFirst
<1>8. f[First(m)] \in Int
  BY <1>5
<1>9. QED
  BY <1>3, <1>6, <1>7, <1>8

\* Any element can be taken out first.
LEMMA SumTake ==
    ASSUME NEW f, NEW S, IsFiniteSet(S), \A x \in S : f[x] \in Int,
           NEW e \in S
    PROVE  SumFunctionOnSet(f, S) = f[e] + SumFunctionOnSet(f, S \ {e})
<1> DEFINE Sum(r) == SumFunctionOnSet(f, r)
           F == {r \in SUBSET S :
                   \E x \in r : Sum(r) # f[x] + Sum(r \ {x})}
<1>1. SUFFICES ASSUME F # {} PROVE FALSE
  <2>1. S \in SUBSET S
    OBVIOUS
  <2>2. QED
    BY <2>1
<1>2. PICK m \in F : \A r \in F : r \subseteq m => r = m
  <2>1. F \subseteq SUBSET S
    OBVIOUS
  <2> HIDE DEF F
  <2>2. QED
    BY <1>1, <2>1, SmallestMember
<1>3. PICK x \in m : Sum(m) # f[x] + Sum(m \ {x})
  OBVIOUS
<1> DEFINE y == First(m)
<1>4. m \in SUBSET S /\ m # {} /\ y \in m /\ x \in S
  BY FirstIn
<1>5. ASSUME NEW r \in SUBSET S  PROVE IsFiniteSet(r) /\ Sum(r) \in Int
  <2>1. IsFiniteSet(r)
    BY FS_Subset
  <2>2. \A z \in r : f[z] \in Int
    OBVIOUS
  <2>3. QED
    BY <2>1, <2>2, SumInt
<1>6. Sum(m) = f[y] + Sum(m \ {y})
  <2>1. IsFiniteSet(m)
    BY <1>4, <1>5
  <2>2. QED
    BY <1>4, <2>1, SumFirst
<1>7. x # y
  BY <1>3, <1>6
<1>8. Sum(m \ {y}) = f[x] + Sum((m \ {y}) \ {x})
  <2>1. m \ {y} \in SUBSET S /\ m \ {y} \subseteq m /\ m \ {y} # m
    BY <1>4
  <2>2. m \ {y} \notin F
    BY <1>2, <2>1
  <2>3. x \in m \ {y}
    BY <1>7
  <2>4. QED
    BY <2>1, <2>2, <2>3
<1>9. Sum(m \ {x}) = f[y] + Sum((m \ {x}) \ {y})
  <2>1. m \ {x} \in SUBSET S /\ m \ {x} \subseteq m /\ m \ {x} # m
    BY <1>4
  <2>2. m \ {x} \notin F
    BY <1>2, <2>1
  <2>3. y \in m \ {x}
    BY <1>4, <1>7
  <2>4. QED
    BY <2>1, <2>2, <2>3
<1> DEFINE k == Sum((m \ {y}) \ {x})
<1>10. Sum((m \ {x}) \ {y}) = k
  <2>1. (m \ {x}) \ {y} = (m \ {y}) \ {x}
    OBVIOUS
  <2>2. QED
    BY <2>1
<1>11. k \in Int /\ f[x] \in Int /\ f[y] \in Int
  <2>1. (m \ {y}) \ {x} \in SUBSET S /\ y \in S
    BY <1>4
  <2>2. QED
    BY <1>4, <1>5, <2>1
<1>12. Sum(m) = f[y] + (f[x] + k) /\ Sum(m \ {x}) = f[y] + k
  BY <1>6, <1>8, <1>9, <1>10
<1>13. Sum(m) # f[x] + Sum(m \ {x})
  BY <1>3
<1>14. QED
  <2> HIDE DEF Sum, y, k
  <2>1. QED
    BY <1>11, <1>12, <1>13

\* A new element adds its value.
LEMMA SumAdd ==
    ASSUME NEW f, NEW S, IsFiniteSet(S), NEW e, e \notin S,
           \A x \in S \cup {e} : f[x] \in Int
    PROVE  SumFunctionOnSet(f, S \cup {e}) = f[e] + SumFunctionOnSet(f, S)
<1>1. IsFiniteSet(S \cup {e})
  BY FS_AddElement
<1>2. (S \cup {e}) \ {e} = S /\ e \in S \cup {e}
  OBVIOUS
<1>3. QED
  BY <1>1, <1>2, SumTake

\* No element of S gives more in f than in g: nor does their sum.
LEMMA SumMonotone ==
    ASSUME NEW f, NEW g, NEW S, IsFiniteSet(S),
           \A x \in S : f[x] \in Int /\ g[x] \in Int /\ f[x] <= g[x]
    PROVE  SumFunctionOnSet(f, S) <= SumFunctionOnSet(g, S)
<1> DEFINE F == {r \in SUBSET S :
                   ~(SumFunctionOnSet(f, r) <= SumFunctionOnSet(g, r))}
<1>1. SUFFICES ASSUME F # {} PROVE FALSE
  <2>1. S \in SUBSET S
    OBVIOUS
  <2>2. QED
    BY <2>1
<1>2. PICK m \in F : \A r \in F : r \subseteq m => r = m
  <2>1. F \subseteq SUBSET S
    OBVIOUS
  <2> HIDE DEF F
  <2>2. QED
    BY <1>1, <2>1, SmallestMember
<1>3. /\ m \in SUBSET S /\ IsFiniteSet(m)
      /\ ~(SumFunctionOnSet(f, m) <= SumFunctionOnSet(g, m))
  BY FS_Subset
<1>4. m # {}
  BY <1>3, SumEmpty
<1> DEFINE e == First(m)  q == m \ {e}
<1>5. q \in SUBSET S /\ q # m /\ q \subseteq m /\ e \in S /\ IsFiniteSet(q)
  BY <1>3, <1>4, FirstIn, FS_Subset
<1>6. SumFunctionOnSet(f, q) <= SumFunctionOnSet(g, q)
  BY <1>2, <1>5
<1>7. /\ SumFunctionOnSet(f, m) = f[e] + SumFunctionOnSet(f, q)
      /\ SumFunctionOnSet(g, m) = g[e] + SumFunctionOnSet(g, q)
  BY <1>3, <1>4, SumFirst
<1>8. SumFunctionOnSet(f, q) \in Int /\ SumFunctionOnSet(g, q) \in Int
  <2>1. \A x \in q : f[x] \in Int /\ g[x] \in Int
    BY <1>5
  <2> HIDE DEF q
  <2>2. QED
    BY <1>5, <2>1, SumInt
<1>9. f[e] \in Int /\ g[e] \in Int /\ f[e] <= g[e]
  BY <1>5
<1> HIDE DEF e, q
<1>10. QED
  BY <1>3, <1>6, <1>7, <1>8, <1>9

\* A sum reads its function on the set only.
LEMMA SumSame ==
    ASSUME NEW f, NEW g, NEW S, IsFiniteSet(S),
           \A x \in S : f[x] \in Int /\ f[x] = g[x]
    PROVE  SumFunctionOnSet(f, S) = SumFunctionOnSet(g, S)
<1>1. /\ SumFunctionOnSet(f, S) \in Int
      /\ SumFunctionOnSet(g, S) \in Int
  BY SumInt
<1>2. \A x \in S : f[x] <= g[x] /\ g[x] <= f[x] /\ g[x] \in Int
  OBVIOUS
<1>3. /\ SumFunctionOnSet(f, S) <= SumFunctionOnSet(g, S)
      /\ SumFunctionOnSet(g, S) <= SumFunctionOnSet(f, S)
  BY <1>2, SumMonotone
<1>4. QED
  BY <1>1, <1>3

\* A sum of amounts is an amount, no less than each.
LEMMA SumNat ==
    ASSUME NEW f, NEW S, IsFiniteSet(S), \A x \in S : f[x] \in Nat
    PROVE  /\ SumFunctionOnSet(f, S) \in Nat
           /\ \A x \in S : f[x] <= SumFunctionOnSet(f, S)
<1>1. ASSUME NEW T \in SUBSET S  PROVE SumFunctionOnSet(f, T) \in Nat
  <2> DEFINE F == {r \in SUBSET T : SumFunctionOnSet(f, r) \notin Nat}
  <2>1. SUFFICES ASSUME F # {} PROVE FALSE
    <3>1. T \in SUBSET T
      OBVIOUS
    <3>2. QED
      BY <3>1
  <2>2. IsFiniteSet(T)
    BY FS_Subset
  <2>3. PICK m \in F : \A r \in F : r \subseteq m => r = m
    <3>1. F \subseteq SUBSET T
      OBVIOUS
    <3> HIDE DEF F
    <3>2. QED
      BY <2>1, <2>2, <3>1, SmallestMember
  <2>4. m \in SUBSET T /\ SumFunctionOnSet(f, m) \notin Nat /\ IsFiniteSet(m)
    BY <2>2, FS_Subset
  <2>5. m # {}
    BY <2>4, SumEmpty
  <2>6. /\ m \ {First(m)} \in SUBSET T /\ m \ {First(m)} # m
        /\ m \ {First(m)} \subseteq m /\ First(m) \in S
    BY <2>4, <2>5, FirstIn
  <2>7. SumFunctionOnSet(f, m \ {First(m)}) \in Nat
    BY <2>3, <2>6
  <2>8. SumFunctionOnSet(f, m) = f[First(m)] + SumFunctionOnSet(f, m \ {First(m)})
    BY <2>4, <2>5, SumFirst
  <2>9. f[First(m)] \in Nat
    BY <2>6
  <2>10. QED
    BY <2>4, <2>7, <2>8, <2>9
<1>2. ASSUME NEW e \in S  PROVE f[e] <= SumFunctionOnSet(f, S)
  <2>1. S \ {e} \in SUBSET S
    OBVIOUS
  <2>2. SumFunctionOnSet(f, S \ {e}) \in Nat
    BY <1>1, <2>1
  <2>3. SumFunctionOnSet(f, S) = f[e] + SumFunctionOnSet(f, S \ {e})
    BY SumTake
  <2>4. f[e] \in Nat
    OBVIOUS
  <2>5. QED
    BY <2>2, <2>3, <2>4
<1>3. S \in SUBSET S
  OBVIOUS
<1>4. QED
  BY <1>1, <1>2, <1>3

=============================================================================
