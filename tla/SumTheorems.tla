----------------------------- MODULE SumTheorems -----------------------------
(***************************************************************************)
(* Facts about sums of a function of naturals over a finite set, as        *)
(* SumFunctionOnSet of Functions computes them, and the induction they     *)
(* need.  A fold is a recursive function, so its equation has to be shown  *)
(* to have a solution: here the number of units that the values stand for. *)
(***************************************************************************)
EXTENDS Integers, FiniteSets, Functions, FiniteSetTheorems, TLAPS

-----------------------------------------------------------------------------
(* Induction, for a set of arguments instead of a predicate. *)

\* A family of subsets of a finite set that has the empty one, and with each subset
\* those with one element more, has them all.
LEMMA SubsetInduction ==
  ASSUME NEW S, IsFiniteSet(S), NEW Q \in SUBSET (SUBSET S),
         {} \in Q, \A T \in Q : \A x \in S \ T : T \cup {x} \in Q
  PROVE  S \in Q
  <1> DEFINE Bad == (SUBSET S) \ Q
             R == StrictSubsetOrdering(S)
  <1>1. SUFFICES ASSUME S \notin Q PROVE FALSE
    OBVIOUS
  <1>2. IsWellFoundedOn(R, SUBSET S)
    BY FS_StrictSubsetOrderingWellFounded, FS_FiniteSubsetsOfFinite
  <1>3. PICK U \in Bad : \A T \in Bad : <<T, U>> \notin R
    <2>1. Bad \subseteq SUBSET S /\ Bad # {}
      BY <1>1
    <2>2. QED
      <3> HIDE DEF Bad, R
      <3>1. QED
        BY <1>2, <2>1, WFMin
  <1>4. PICK x \in U : TRUE
    OBVIOUS
  <1>5. U \ {x} \in SUBSET S /\ U \ {x} # U
    BY <1>4
  <1>6. <<U \ {x}, U>> \in R
    BY <1>5 DEF StrictSubsetOrdering
  <1>7. U \ {x} \in Q
    BY <1>3, <1>5, <1>6
  <1>8. (U \ {x}) \cup {x} \in Q
    BY <1>4, <1>7
  <1>9. QED
    BY <1>4, <1>8

\* A set that has 0 and with each number the next has them all.
LEMMA NumberInduction ==
  ASSUME NEW Q, 0 \in Q, \A n \in Nat : n \in Q => n + 1 \in Q
  PROVE  Nat \subseteq Q
  <1> DEFINE Less == {p \in Nat \X Nat : p[1] < p[2]}
             Bad == Nat \ Q
  <1>1. SUFFICES ASSUME Bad # {} PROVE FALSE
    OBVIOUS
  <1>2. IsWellFoundedOn(Less, Nat)
    BY NatLessThanWellFounded DEF OpToRel
  <1>3. PICK n \in Bad : \A m \in Bad : <<m, n>> \notin Less
    <2>1. Bad \subseteq Nat
      OBVIOUS
    <2>2. QED
      <3> HIDE DEF Bad, Less
      <3>1. QED
        BY <1>1, <1>2, <2>1, WFMin
  <1>4. n \in Nat /\ n # 0 /\ n - 1 \in Nat
    BY <1>3
  <1>5. n - 1 \notin Bad
    <2>1. <<n - 1, n>> \in Less
      BY <1>4
    <2>2. QED
      BY <1>3, <2>1
  <1>6. (n - 1) + 1 \in Q
    BY <1>4, <1>5
  <1>7. QED
    BY <1>4, <1>6

\* A finite set that is not empty has an element with the greatest value.
LEMMA GreatestExists ==
  ASSUME NEW S, IsFiniteSet(S), S # {}, NEW f, \A x \in S : f[x] \in Nat
  PROVE  \E x \in S : \A y \in S : f[y] <= f[x]
  <1> DEFINE Top(T) == \E x \in T : \A y \in T : f[y] <= f[x]
             Q == {T \in SUBSET S : T # {} => Top(T)}
  <1>1. ASSUME NEW T \in Q, NEW x \in S \ T PROVE T \cup {x} \in Q
    <2>1. CASE T = {}
      <3>1. f[x] <= f[x]
        OBVIOUS
      <3>2. QED
        BY <2>1, <3>1
    <2>2. CASE T # {}
      <3>1. PICK t \in T : \A y \in T : f[y] <= f[t]
        BY <2>2
      <3>2. f[x] \in Nat /\ f[t] \in Nat /\ \A y \in T : f[y] \in Nat
        BY <3>1
      <3>3. CASE f[x] <= f[t]
        BY <3>1, <3>3
      <3>4. CASE f[t] <= f[x]
        <4>1. \A y \in T \cup {x} : f[y] <= f[x]
          BY <3>1, <3>2, <3>4
        <4>2. QED
          BY <4>1
      <3>5. QED
        BY <3>2, <3>3, <3>4
    <2>3. QED
      BY <2>1, <2>2
  <1>2. {} \in Q /\ Q \in SUBSET (SUBSET S)
    OBVIOUS
  <1>3. S \in Q
    <2> HIDE DEF Q
    <2>1. QED
      BY <1>1, <1>2, SubsetInduction
  <1>4. QED
    BY <1>3

-----------------------------------------------------------------------------
(* The units of a function's values: <<x, i>> for i up to f[x]. *)

Units(f, S) == {p \in S \X Nat : 1 <= p[2] /\ p[2] <= f[p[1]]}

Counts(f, S) == IsFiniteSet(S) /\ \A x \in S : f[x] \in Nat

LEMMA UnitsOfOne ==
  ASSUME NEW f, NEW x, f[x] \in Nat
  PROVE  IsFiniteSet(Units(f, {x})) /\ Cardinality(Units(f, {x})) = f[x]
  <1> DEFINE g == [i \in 1..f[x] |-> <<x, i>>]
  <1>1. g \in Bijection(1..f[x], Units(f, {x}))
    <2>1. \A i \in 1..f[x] : g[i] = <<x, i>> /\ g[i] \in Units(f, {x})
      BY DEF Units
    <2>2. \A p \in Units(f, {x}) : p[2] \in 1..f[x] /\ p = <<x, p[2]>>
      BY DEF Units
    <2>3. g \in [1..f[x] -> Units(f, {x})]
      BY <2>1
    <2>4. \A i, j \in 1..f[x] : g[i] = g[j] => i = j
      BY <2>1
    <2>5. \A p \in Units(f, {x}) : \E i \in 1..f[x] : g[i] = p
      BY <2>1, <2>2
    <2>6. DOMAIN g = 1..f[x]
      OBVIOUS
    <2>7. QED
      <3> HIDE DEF g
      <3>1. QED
        BY <2>3, <2>4, <2>5, <2>6 DEF Bijection, Injection, Surjection, IsInjective
  <1>2. IsFiniteSet(1..f[x]) /\ Cardinality(1..f[x]) = f[x]
    BY FS_Interval, SMTT(40)
  <1>3. QED
    <2> HIDE DEF g
    <2>1. ExistsBijection(1..f[x], Units(f, {x}))
      BY <1>1 DEF ExistsBijection
    <2>2. QED
      BY <1>2, <2>1, FS_Bijection

LEMMA UnitsOfMore ==
  ASSUME NEW f, NEW S, NEW x, x \notin S, f[x] \in Nat, IsFiniteSet(Units(f, S))
  PROVE  /\ IsFiniteSet(Units(f, S \cup {x}))
         /\ Cardinality(Units(f, S \cup {x})) = Cardinality(Units(f, S)) + f[x]
  <1>1. Units(f, S \cup {x}) = Units(f, S) \cup Units(f, {x})
    BY DEF Units
  <1>2. Units(f, S) \cap Units(f, {x}) = {}
    BY DEF Units
  <1>3. Cardinality({}) = 0 /\ Cardinality(Units(f, S)) \in Nat
    BY FS_EmptySet, FS_CardinalityType
  <1>4. IsFiniteSet(Units(f, {x})) /\ Cardinality(Units(f, {x})) = f[x]
    BY UnitsOfOne
  <1>5. /\ IsFiniteSet(Units(f, S) \cup Units(f, {x}))
        /\ Cardinality(Units(f, S) \cup Units(f, {x}))
             = Cardinality(Units(f, S)) + Cardinality(Units(f, {x}))
                 - Cardinality(Units(f, S) \cap Units(f, {x}))
    BY <1>4, FS_Union
  <1>6. /\ Cardinality(Units(f, S \cup {x})) = Cardinality(Units(f, S) \cup Units(f, {x}))
        /\ Cardinality(Units(f, S) \cap Units(f, {x})) = 0
        /\ IsFiniteSet(Units(f, S \cup {x}))
    BY <1>1, <1>2, <1>3, <1>5, Zenon
  <1>7. QED
    BY <1>3, <1>4, <1>5, <1>6

LEMMA UnitsAreFinite ==
  ASSUME NEW f, NEW S, Counts(f, S)
  PROVE  IsFiniteSet(Units(f, S)) /\ Cardinality(Units(f, S)) \in Nat
  <1> DEFINE Q == {T \in SUBSET S : IsFiniteSet(Units(f, T))}
  <1>1. {} \in Q
    <2>1. Units(f, {}) = {}
      BY DEF Units
    <2>2. QED
      BY <2>1, FS_EmptySet
  <1>2. ASSUME NEW T \in Q, NEW x \in S \ T PROVE T \cup {x} \in Q
    BY UnitsOfMore DEF Counts
  <1>3. S \in Q
    <2>1. IsFiniteSet(S) /\ Q \in SUBSET (SUBSET S)
      BY DEF Counts
    <2>2. QED
      <3> HIDE DEF Q
      <3>1. QED
        BY <1>1, <1>2, <2>1, SubsetInduction
  <1>4. QED
    BY <1>3, FS_CardinalityType

-----------------------------------------------------------------------------
(* Sums. *)

\* The equation of the fold behind SumFunctionOnSet.
Fold(f, S) ==
  CHOOSE iter : iter = [s \in SUBSET S |->
    IF s = {} THEN 0
    ELSE f[CHOOSE x \in s : TRUE] + iter[s \ {CHOOSE x \in s : TRUE}]]

LEMMA SumIsFold == ASSUME NEW f, NEW S PROVE SumFunctionOnSet(f, S) = Fold(f, S)[S]
  BY DEF SumFunctionOnSet, FoldFunctionOnSet, MapThenFoldSet, Fold

\* A sum is a number of units.
LEMMA SumIsUnits ==
  ASSUME NEW f, NEW S, Counts(f, S)
  PROVE  SumFunctionOnSet(f, S) = Cardinality(Units(f, S))
  <1> DEFINE first(s) == CHOOSE x \in s : TRUE
             Solves(h) == h = [s \in SUBSET S |->
                            IF s = {} THEN 0 ELSE f[first(s)] + h[s \ {first(s)}]]
             g == [s \in SUBSET S |-> Cardinality(Units(f, s))]
             Q == {n \in Nat : \A T \in SUBSET S :
                      Cardinality(T) = n => Fold(f, S)[T] = Cardinality(Units(f, T))}
  <1>1. ASSUME NEW s \in SUBSET S PROVE Counts(f, s)
    BY FS_Subset DEF Counts
  <1>2. ASSUME NEW s \in SUBSET S, s # {}
        PROVE  /\ first(s) \in s /\ s \ {first(s)} \in SUBSET S
               /\ Cardinality(Units(f, s)) = Cardinality(Units(f, s \ {first(s)})) + f[first(s)]
    <2>1. first(s) \in s
      BY <1>2
    <2>2. (s \ {first(s)}) \cup {first(s)} = s
      BY <2>1
    <2> HIDE DEF first
    <2>3. QED
      BY <1>1, <2>1, <2>2, UnitsOfMore, UnitsAreFinite DEF Counts
  <1>3. Units(f, {}) = {} /\ Cardinality(Units(f, {})) = 0
    BY FS_EmptySet DEF Units
  <1>4. Solves(g)
    <2>1. ASSUME NEW s \in SUBSET S
          PROVE  g[s] = IF s = {} THEN 0 ELSE f[first(s)] + g[s \ {first(s)}]
      <3> HIDE DEF first
      <3>1. CASE s = {}
        BY <1>3, <3>1
      <3>2. CASE s # {}
        <4>1. Cardinality(Units(f, s \ {first(s)})) \in Nat /\ f[first(s)] \in Nat
          BY <1>1, <1>2, <3>2, UnitsAreFinite DEF Counts
        <4>2. QED
          BY <1>2, <3>2, <4>1
      <3>3. QED
        BY <3>1, <3>2
    <2>2. QED
      BY <2>1
  <1>5. Solves(Fold(f, S))
    <2> HIDE DEF g
    <2>1. \E h : Solves(h)
      BY <1>4
    <2>2. QED
      BY <2>1 DEF Fold
  <1>6. ASSUME NEW T \in SUBSET S
        PROVE  Fold(f, S)[T] =
                 IF T = {} THEN 0 ELSE f[first(T)] + Fold(f, S)[T \ {first(T)}]
    <2> DEFINE F == Fold(f, S)
    <2> HIDE DEF first, F
    <2>1. F = [s \in SUBSET S |-> IF s = {} THEN 0 ELSE f[first(s)] + F[s \ {first(s)}]]
      BY <1>5 DEF F
    <2>2. QED
      BY <2>1 DEF F
  <1>7. Nat \subseteq Q
    <2>1. 0 \in Q
      BY <1>1, <1>3, <1>6, FS_EmptySet DEF Counts
    <2>2. ASSUME NEW n \in Nat, n \in Q PROVE n + 1 \in Q
      <3>1. SUFFICES ASSUME NEW T \in SUBSET S, Cardinality(T) = n + 1
                     PROVE  Fold(f, S)[T] = Cardinality(Units(f, T))
        OBVIOUS
      <3>2. IsFiniteSet(T) /\ T # {}
        BY <1>1, <3>1, FS_EmptySet DEF Counts
      <3> HIDE DEF first
      <3>3. first(T) \in T /\ T \ {first(T)} \in SUBSET S
        BY <1>2, <3>2
      <3>4. Cardinality(T \ {first(T)}) = n
        BY <3>1, <3>2, <3>3, FS_RemoveElement
      <3>5. Fold(f, S)[T \ {first(T)}] = Cardinality(Units(f, T \ {first(T)}))
        BY <2>2, <3>3, <3>4
      <3>6. Cardinality(Units(f, T \ {first(T)})) \in Nat /\ f[first(T)] \in Nat
        BY <1>1, <3>3, UnitsAreFinite DEF Counts
      <3>7. Fold(f, S)[T] = f[first(T)] + Fold(f, S)[T \ {first(T)}]
        BY <1>6, <3>2
      <3>8. Cardinality(Units(f, T)) = Cardinality(Units(f, T \ {first(T)})) + f[first(T)]
        BY <1>2, <3>2
      <3>9. QED
        BY <3>5, <3>6, <3>7, <3>8
    <2>3. QED
      <3> HIDE DEF Q
      <3>1. QED
        BY <2>1, <2>2, NumberInduction
  <1>8. Cardinality(S) \in Nat
    BY FS_CardinalityType DEF Counts
  <1>9. Fold(f, S)[S] = Cardinality(Units(f, S))
    <2>1. Cardinality(S) \in Q
      <3> HIDE DEF Q
      <3>1. QED
        BY <1>7, <1>8
    <2>2. S \in SUBSET S
      OBVIOUS
    <2>3. QED
      BY <2>1, <2>2
  <1>10. QED
    BY <1>9, SumIsFold

Sum(f, S) == SumFunctionOnSet(f, S)

LEMMA SumType == ASSUME NEW f, NEW S, Counts(f, S) PROVE Sum(f, S) \in Nat
  BY SumIsUnits, UnitsAreFinite DEF Sum

LEMMA SumOfNone == ASSUME NEW f PROVE Sum(f, {}) = 0
  <1>1. Counts(f, {}) /\ Units(f, {}) = {}
    BY FS_EmptySet DEF Counts, Units
  <1>2. QED
    BY <1>1, SumIsUnits, FS_EmptySet DEF Sum

LEMMA SumOfMore ==
  ASSUME NEW f, NEW S, Counts(f, S), NEW x, x \notin S, f[x] \in Nat
  PROVE  /\ Counts(f, S \cup {x})
         /\ Sum(f, S \cup {x}) = Sum(f, S) + f[x]
  <1>1. Counts(f, S \cup {x})
    BY FS_AddElement DEF Counts
  <1>2. /\ Sum(f, S) = Cardinality(Units(f, S))
        /\ Sum(f, S \cup {x}) = Cardinality(Units(f, S \cup {x}))
    BY <1>1, SumIsUnits DEF Sum
  <1>3. Cardinality(Units(f, S \cup {x})) = Cardinality(Units(f, S)) + f[x]
    BY UnitsAreFinite, UnitsOfMore
  <1>4. QED
    BY <1>1, <1>2, <1>3

\* Without one of its elements.
LEMMA SumOfLess ==
  ASSUME NEW f, NEW S, Counts(f, S), NEW x \in S
  PROVE  /\ Counts(f, S \ {x})
         /\ Sum(f, S) = Sum(f, S \ {x}) + f[x]
  <1>1. Counts(f, S \ {x}) /\ f[x] \in Nat /\ x \notin S \ {x} /\ (S \ {x}) \cup {x} = S
    BY FS_RemoveElement DEF Counts
  <1>2. QED
    BY <1>1, SumOfMore

\* Smaller values at fewer places.
LEMMA SumGrows ==
  ASSUME NEW f, NEW g, NEW S, NEW T, Counts(g, T), S \subseteq T,
         \A x \in S : f[x] \in Nat /\ f[x] <= g[x]
  PROVE  Counts(f, S) /\ Sum(f, S) <= Sum(g, T)
  <1>1. Counts(f, S)
    BY FS_Subset DEF Counts
  <1>2. Units(f, S) \subseteq Units(g, T)
    <2>1. SUFFICES ASSUME NEW x \in S, NEW i \in Nat, 1 <= i, i <= f[x]
                   PROVE  x \in T /\ i <= g[x]
      BY DEF Units
    <2>2. f[x] \in Nat /\ g[x] \in Nat /\ f[x] <= g[x]
      BY DEF Counts
    <2>3. QED
      BY <2>1, <2>2
  <1>3. QED
    BY <1>1, <1>2, SumIsUnits, UnitsAreFinite, FS_Subset DEF Sum

LEMMA SumAgrees ==
  ASSUME NEW f, NEW g, NEW S, Counts(f, S), \A x \in S : f[x] = g[x]
  PROVE  Counts(g, S) /\ Sum(f, S) = Sum(g, S)
  <1>1. Counts(g, S)
    BY DEF Counts
  <1>2. Sum(f, S) <= Sum(g, S) /\ Sum(g, S) <= Sum(f, S)
    BY <1>1, SumGrows DEF Counts
  <1>3. QED
    BY <1>1, <1>2, SumType

\* The same values, except at x.
SameBut(f, g, S, x) == \A y \in S \ {x} : g[y] = f[y]

\* The value at x changes, and the sum with it.
OneChanges(f, g, S, x) == Counts(f, S) /\ x \in S /\ g[x] \in Nat /\ SameBut(f, g, S, x)

SumFollows(f, g, S, x) ==
  /\ Counts(g, S) /\ Sum(f, S) \in Nat /\ Sum(g, S) \in Nat /\ f[x] \in Nat
  /\ Sum(g, S) + f[x] = Sum(f, S) + g[x]

LEMMA SumChanges ==
  ASSUME NEW f, NEW g, NEW S, NEW x, OneChanges(f, g, S, x)
  PROVE  SumFollows(f, g, S, x)
  <1> USE DEF OneChanges
  <1>1. Counts(g, S)
    BY DEF Counts, SameBut
  <1>2. Sum(f, S \ {x}) = Sum(g, S \ {x})
    BY SumOfLess, SumAgrees DEF SameBut
  <1>3. Sum(f, S \ {x}) \in Nat /\ f[x] \in Nat
    BY SumOfLess, SumType DEF Counts
  <1>4. Sum(f, S) = Sum(f, S \ {x}) + f[x]
    BY SumOfLess
  <1>5. Sum(g, S) = Sum(g, S \ {x}) + g[x]
    BY <1>1, SumOfLess
  <1>6. QED
    BY <1>1, <1>2, <1>3, <1>4, <1>5, SumType DEF SumFollows

\* The same value everywhere.
LEMMA SumOfSame ==
  ASSUME NEW f, NEW S, IsFiniteSet(S), NEW m \in Nat, \A x \in S : f[x] = m
  PROVE  Counts(f, S) /\ Sum(f, S) = m * Cardinality(S)
  <1>1. Counts(f, S)
    BY DEF Counts
  <1>2. Units(f, S) = S \X (1..m)
    <2>1. \A i \in Nat : (1 <= i /\ i <= m) <=> i \in 1..m
      OBVIOUS
    <2>2. QED
      BY <2>1 DEF Units
  <1>3. IsFiniteSet(1..m) /\ Cardinality(1..m) = m
    BY FS_Interval
  <1>4. Cardinality(S \X (1..m)) = Cardinality(S) * m
    BY <1>3, FS_Product
  <1>5. Cardinality(Units(f, S)) = Cardinality(S) * m
    BY <1>2, <1>4, Zenon
  <1>6. Cardinality(S) \in Nat
    BY FS_CardinalityType
  <1>7. QED
    BY <1>1, <1>5, <1>6, SumIsUnits DEF Sum

\* Places that do not overlap.
LEMMA SumOfBoth ==
  ASSUME NEW f, NEW S, NEW T, Counts(f, S), Counts(f, T), S \cap T = {}
  PROVE  Counts(f, S \cup T) /\ Sum(f, S \cup T) = Sum(f, S) + Sum(f, T)
  <1>1. Counts(f, S \cup T)
    BY FS_Union DEF Counts
  <1>2. Units(f, S \cup T) = Units(f, S) \cup Units(f, T)
    BY DEF Units
  <1>3. Units(f, S) \cap Units(f, T) = {}
    BY DEF Units
  <1>4. Cardinality({}) = 0
    BY FS_EmptySet
  <1>5. /\ IsFiniteSet(Units(f, S)) /\ Cardinality(Units(f, S)) \in Nat
        /\ IsFiniteSet(Units(f, T)) /\ Cardinality(Units(f, T)) \in Nat
    BY UnitsAreFinite
  <1>6. Cardinality(Units(f, S) \cup Units(f, T))
          = Cardinality(Units(f, S)) + Cardinality(Units(f, T))
              - Cardinality(Units(f, S) \cap Units(f, T))
    BY <1>5, FS_Union
  <1>7. Cardinality(Units(f, S \cup T)) = Cardinality(Units(f, S)) + Cardinality(Units(f, T))
    <2>1. /\ Cardinality(Units(f, S \cup T)) = Cardinality(Units(f, S) \cup Units(f, T))
          /\ Cardinality(Units(f, S) \cap Units(f, T)) = 0
      BY <1>2, <1>3, <1>4, Zenon
    <2>2. QED
      BY <1>5, <1>6, <2>1
  <1>8. /\ Sum(f, S) = Cardinality(Units(f, S)) /\ Sum(f, T) = Cardinality(Units(f, T))
        /\ Sum(f, S \cup T) = Cardinality(Units(f, S \cup T))
    BY <1>1, SumIsUnits DEF Sum
  <1>9. QED
    BY <1>1, <1>7, <1>8

\* At most m at each place.
LEMMA SumIsBounded ==
  ASSUME NEW f, NEW S, Counts(f, S), NEW m \in Nat, \A x \in S : f[x] <= m
  PROVE  Sum(f, S) <= m * Cardinality(S)
  <1>1. Units(f, S) \subseteq S \X (1..m)
    <2>1. SUFFICES ASSUME NEW x \in S, NEW i \in Nat, 1 <= i, i <= f[x] PROVE i \in 1..m
      BY DEF Units
    <2>2. f[x] \in Nat /\ f[x] <= m
      BY DEF Counts
    <2>3. QED
      BY <2>1, <2>2
  <1>2. IsFiniteSet(1..m) /\ Cardinality(1..m) = m
    BY FS_Interval
  <1>3. IsFiniteSet(S \X (1..m)) /\ Cardinality(S \X (1..m)) = Cardinality(S) * m
    BY <1>2, FS_Product DEF Counts
  <1>4. Cardinality(Units(f, S)) <= Cardinality(S) * m
    BY <1>1, <1>3, FS_Subset
  <1>5. Cardinality(S) \in Nat
    BY FS_CardinalityType DEF Counts
  <1>6. QED
    BY <1>4, <1>5, SumIsUnits DEF Sum

\* One value may grow by what is given up elsewhere, the others do not grow.
LEMMA SumTrades ==
  ASSUME NEW f, NEW g, NEW S, Counts(f, S), Counts(g, S), NEW x \in S,
         \A y \in S \ {x} : g[y] <= f[y],
         NEW a \in Int, NEW b \in Int, b + g[x] <= a + f[x]
  PROVE  b + Sum(g, S) <= a + Sum(f, S)
  <1>1. Counts(f, S \ {x}) /\ Sum(f, S) = Sum(f, S \ {x}) + f[x]
    BY SumOfLess
  <1>2. Counts(g, S \ {x}) /\ Sum(g, S) = Sum(g, S \ {x}) + g[x]
    BY SumOfLess
  <1>3. Sum(g, S \ {x}) <= Sum(f, S \ {x})
    <2>1. \A y \in S \ {x} : g[y] \in Nat /\ g[y] <= f[y]
      BY DEF Counts
    <2>2. QED
      BY <1>1, <2>1, SumGrows
  <1>4. Sum(f, S \ {x}) \in Nat /\ Sum(g, S \ {x}) \in Nat /\ f[x] \in Nat /\ g[x] \in Nat
    BY <1>1, <1>2, SumType DEF Counts
  <1>5. QED
    BY <1>1, <1>2, <1>3, <1>4

\* At most m at each place, and what there is at one of them.
LEMMA SumBesides ==
  ASSUME NEW f, NEW S, Counts(f, S), NEW m \in Nat, NEW x \in S,
         \A y \in S \ {x} : f[y] <= m
  PROVE  /\ m * Cardinality(S) = m * (Cardinality(S) - 1) + m
         /\ Sum(f, S) <= m * (Cardinality(S) - 1) + f[x]
  <1>1. Counts(f, S \ {x}) /\ Sum(f, S) = Sum(f, S \ {x}) + f[x]
    BY SumOfLess
  <1>2. Cardinality(S \ {x}) = Cardinality(S) - 1 /\ Cardinality(S) \in Nat
    BY FS_RemoveElement, FS_CardinalityType DEF Counts
  <1>3. Sum(f, S \ {x}) <= m * (Cardinality(S) - 1)
    BY <1>1, <1>2, SumIsBounded
  <1>4. Sum(f, S \ {x}) \in Nat /\ f[x] \in Nat
    BY <1>1, SumType DEF Counts
  <1>5. m * Cardinality(S) = m * (Cardinality(S) - 1) + m
    BY <1>2
  <1>6. m * (Cardinality(S) - 1) \in Int
    BY <1>2
  <1>7. QED
    <2> DEFINE p == m * (Cardinality(S) - 1)
    <2> HIDE DEF p
    <2>1. p \in Int /\ Sum(f, S \ {x}) <= p
      BY <1>3, <1>6 DEF p
    <2>2. Sum(f, S) <= p + f[x]
      BY <1>1, <1>4, <2>1
    <2>3. QED
      BY <1>5, <2>2 DEF p

\* Two functions added, and one taken m times.
Plus(f, g, S) == [x \in S |-> f[x] + g[x]]

Times(m, f, S) == [x \in S |-> m * f[x]]

LEMMA SumOfSums ==
  ASSUME NEW f, NEW g, NEW S, Counts(f, S), Counts(g, S)
  PROVE  Counts(Plus(f, g, S), S) /\ Sum(Plus(f, g, S), S) = Sum(f, S) + Sum(g, S)
  <1> DEFINE h == Plus(f, g, S)
             Q == {T \in SUBSET S : Sum(h, T) = Sum(f, T) + Sum(g, T)}
  <1>1. \A x \in S : f[x] \in Nat /\ g[x] \in Nat /\ h[x] = f[x] + g[x] /\ h[x] \in Nat
    BY DEF Counts, Plus
  <1> HIDE DEF h
  <1>2. ASSUME NEW T \in SUBSET S PROVE Counts(f, T) /\ Counts(g, T) /\ Counts(h, T)
    BY <1>1, FS_Subset DEF Counts
  <1>3. {} \in Q
    <2>1. Sum(h, {}) = 0 /\ Sum(f, {}) = 0 /\ Sum(g, {}) = 0
      BY SumOfNone
    <2>2. QED
      BY <2>1
  <1>4. ASSUME NEW T \in Q, NEW x \in S \ T PROVE T \cup {x} \in Q
    <2>1. T \in SUBSET S /\ Sum(h, T) = Sum(f, T) + Sum(g, T)
      OBVIOUS
    <2>2. Counts(f, T) /\ Counts(g, T) /\ Counts(h, T)
      BY <1>2, <2>1
    <2>3. Sum(f, T) \in Nat /\ Sum(g, T) \in Nat
      BY <2>2, SumType
    <2>4. f[x] \in Nat /\ g[x] \in Nat /\ h[x] \in Nat /\ h[x] = f[x] + g[x]
      BY <1>1
    <2>5. Sum(f, T \cup {x}) = Sum(f, T) + f[x]
      BY <2>2, <2>4, SumOfMore
    <2>6. Sum(g, T \cup {x}) = Sum(g, T) + g[x]
      BY <2>2, <2>4, SumOfMore
    <2>7. Sum(h, T \cup {x}) = Sum(h, T) + h[x]
      BY <2>2, <2>4, SumOfMore
    <2>8. Sum(h, T \cup {x}) = Sum(f, T \cup {x}) + Sum(g, T \cup {x})
      BY <2>1, <2>3, <2>4, <2>5, <2>6, <2>7
    <2>9. QED
      BY <2>1, <2>8
  <1>5. S \in Q
    <2>1. Q \in SUBSET (SUBSET S) /\ IsFiniteSet(S)
      BY DEF Counts
    <2> HIDE DEF Q
    <2>2. QED
      BY <1>3, <1>4, <2>1, SubsetInduction
  <1>6. QED
    BY <1>2, <1>5 DEF h

LEMMA SumTimes ==
  ASSUME NEW m \in Nat, NEW f, NEW S, Counts(f, S)
  PROVE  Counts(Times(m, f, S), S) /\ Sum(Times(m, f, S), S) = m * Sum(f, S)
  <1> DEFINE h == Times(m, f, S)
             Q == {T \in SUBSET S : Sum(h, T) = m * Sum(f, T)}
  <1>1. \A x \in S : f[x] \in Nat /\ h[x] = m * f[x] /\ h[x] \in Nat
    BY DEF Counts, Times
  <1> HIDE DEF h
  <1>2. ASSUME NEW T \in SUBSET S PROVE Counts(f, T) /\ Counts(h, T)
    BY <1>1, FS_Subset DEF Counts
  <1>3. {} \in Q
    <2>1. Sum(h, {}) = 0 /\ Sum(f, {}) = 0
      BY SumOfNone
    <2>2. QED
      BY <2>1
  <1>4. ASSUME NEW T \in Q, NEW x \in S \ T PROVE T \cup {x} \in Q
    <2>1. T \in SUBSET S /\ Sum(h, T) = m * Sum(f, T)
      OBVIOUS
    <2>2. Counts(f, T) /\ Counts(h, T)
      BY <1>2, <2>1
    <2>3. Sum(f, T) \in Nat
      BY <2>2, SumType
    <2>4. f[x] \in Nat /\ h[x] \in Nat /\ h[x] = m * f[x]
      BY <1>1
    <2>5. Sum(f, T \cup {x}) = Sum(f, T) + f[x]
      BY <2>2, <2>4, SumOfMore
    <2>6. Sum(h, T \cup {x}) = Sum(h, T) + h[x]
      BY <2>2, <2>4, SumOfMore
    <2>7. m * (Sum(f, T) + f[x]) = m * Sum(f, T) + m * f[x]
      <3>1. \A a, b \in Nat : m * (a + b) = m * a + m * b
        OBVIOUS
      <3>2. QED
        BY <2>3, <2>4, <3>1
    <2>8. Sum(h, T \cup {x}) = m * Sum(f, T \cup {x})
      BY <2>1, <2>4, <2>5, <2>6, <2>7
    <2>9. QED
      BY <2>1, <2>8
  <1>5. S \in Q
    <2>1. Q \in SUBSET (SUBSET S) /\ IsFiniteSet(S)
      BY DEF Counts
    <2> HIDE DEF Q
    <2>2. QED
      BY <1>3, <1>4, <2>1, SubsetInduction
  <1>6. QED
    BY <1>2, <1>5 DEF h
=============================================================================
