------------------------------ MODULE SumLemmas ------------------------------
(***************************************************************************)
(* Sums over finite sets, SumFunctionOnSet(w, S), which the books of the   *)
(* models are written with: the recursion equation, that no order is       *)
(* preferred, and how a sum changes with its set and its values.  And the  *)
(* greatest of a finite set of integers, which the models take maxima of.  *)
(*                                                                         *)
(* The induction is over the strict subsets of a finite set, by a smallest *)
(* counterexample (WFMin).                                                 *)
(***************************************************************************)
EXTENDS Integers, FiniteSetsExt, FiniteSetTheorems, TLAPS

Pick(s) == CHOOSE x \in s : TRUE

\* The functions that satisfy the recursion equation on the subsets of S.
Sums(w, S) ==
  CHOOSE it : it = [s \in SUBSET S |-> IF s = {} THEN 0 ELSE w[Pick(s)] + it[s \ {Pick(s)}]]

Adds(it, w, S) ==
  it = [s \in SUBSET S |-> IF s = {} THEN 0 ELSE w[Pick(s)] + it[s \ {Pick(s)}]]

LEMMA SumIsIterated ==
  ASSUME NEW w, NEW S
  PROVE  SumFunctionOnSet(w, S) = Sums(w, S)[S]
BY DEF SumFunctionOnSet, FoldFunctionOnSet, MapThenFoldSet, Sums, Pick

LEMMA PickIsMember ==
  ASSUME NEW S, S # {}
  PROVE  Pick(S) \in S
BY DEF Pick

\* A set of subsets of a finite set has one none of whose strict subsets is in
\* it.
LEMMA SmallestSubset ==
  ASSUME NEW S, IsFiniteSet(S), NEW B, B \subseteq SUBSET S, B # {}
  PROVE  \E s \in B : \A t \in B : t \subseteq s => t = s
<1>1. IsWellFoundedOn(StrictSubsetOrdering(S), SUBSET S)
  BY FS_StrictSubsetOrderingWellFounded, FS_FiniteSubsetsOfFinite
<1>2. PICK s \in B : \A t \in B : ~ (<<t, s>> \in StrictSubsetOrdering(S))
  BY <1>1, WFMin
<1> QED BY <1>2 DEF StrictSubsetOrdering

\* Two functions that satisfy the equation agree where both are defined.
LEMMA IteratesAgree ==
  ASSUME NEW w, NEW S, IsFiniteSet(S), NEW T, T \subseteq S, NEW it, NEW jt,
         Adds(it, w, S), Adds(jt, w, T)
  PROVE  \A s \in SUBSET T : it[s] = jt[s]
<1> DEFINE Bad == {s \in SUBSET T : it[s] # jt[s]}
<1> SUFFICES ASSUME Bad # {} PROVE FALSE
  OBVIOUS
<1>1. PICK s \in Bad : \A t \in Bad : t \subseteq s => t = s
  <2>1. IsFiniteSet(T)
    BY FS_Subset
  <2>2. Bad \subseteq SUBSET T
    OBVIOUS
  <2> HIDE DEF Bad
  <2> QED BY <2>1, <2>2, SmallestSubset
<1>2. s # {}
  BY DEF Adds
<1>3. Pick(s) \in s
  BY <1>2, PickIsMember
<1>4. s \ {Pick(s)} \notin Bad
  BY <1>1, <1>3
<1>5. it[s \ {Pick(s)}] = jt[s \ {Pick(s)}]
  BY <1>4
<1>6. it[s] = w[Pick(s)] + it[s \ {Pick(s)}] /\ jt[s] = w[Pick(s)] + jt[s \ {Pick(s)}]
  BY <1>2 DEF Adds
<1> QED BY <1>5, <1>6

\* There is one for every finite set.
LEMMA IterateExists ==
  ASSUME NEW w, NEW S, IsFiniteSet(S)
  PROVE  Adds(Sums(w, S), w, S)
<1> DEFINE Bad == {T \in SUBSET S : ~Adds(Sums(w, T), w, T)}
<1> SUFFICES ASSUME Bad # {} PROVE FALSE
  OBVIOUS
<1>1. PICK T \in Bad : \A U \in Bad : U \subseteq T => U = T
  <2>1. Bad \subseteq SUBSET S
    OBVIOUS
  <2> HIDE DEF Bad
  <2> QED BY <2>1, SmallestSubset
<1>2. ASSUME NEW U \in SUBSET T, U # T
      PROVE  Adds(Sums(w, U), w, U)
  BY <1>1, <1>2
<1> DEFINE it == [s \in SUBSET T |->
      IF s = {} THEN 0
      ELSE IF s # T THEN Sums(w, s)[s]
      ELSE w[Pick(s)] + Sums(w, s \ {Pick(s)})[s \ {Pick(s)}]]
<1>3. ASSUME NEW s \in SUBSET T, s # {}
      PROVE  it[s] = w[Pick(s)] + it[s \ {Pick(s)}]
  <2> DEFINE u == s \ {Pick(s)}
  <2>1. Pick(s) \in s /\ u \in SUBSET T /\ u \subseteq s /\ u # s
    BY <1>3, PickIsMember
  <2>2. u # T
    BY <2>1
  <2>3. IsFiniteSet(s) /\ IsFiniteSet(u)
    <3>1. IsFiniteSet(T)
      BY FS_Subset
    <3> QED BY <3>1, <2>1, FS_Subset
  <2>4. Adds(Sums(w, u), w, u)
    BY <1>2, <2>1, <2>2
  <2>5. it[u] = Sums(w, u)[u]
    <3>1. CASE u = {}
      <4>1. Sums(w, u)[u] = 0
        BY <2>4, <3>1 DEF Adds
      <4> QED BY <3>1, <4>1
    <3>2. CASE u # {}
      BY <2>1, <2>2, <3>2
    <3> QED BY <3>1, <3>2
  <2>6. CASE s = T
    BY <1>3, <2>5, <2>6
  <2>7. CASE s # T
    <3>1. Adds(Sums(w, s), w, s)
      BY <1>2, <2>7
    <3>2. Sums(w, s)[u] = Sums(w, u)[u]
      BY <2>1, <2>3, <2>4, <3>1, IteratesAgree
    <3>3. Sums(w, s)[s] = w[Pick(s)] + Sums(w, s)[u]
      BY <1>3, <3>1 DEF Adds
    <3>4. it[s] = Sums(w, s)[s]
      BY <1>3, <2>7
    <3> QED BY <2>5, <3>2, <3>3, <3>4
  <2> QED BY <2>6, <2>7
<1>4. Adds(it, w, T)
  <2>1. \A s \in SUBSET T : it[s] = IF s = {} THEN 0 ELSE w[Pick(s)] + it[s \ {Pick(s)}]
    BY <1>3
  <2>2. it = [s \in SUBSET T |-> it[s]]
    OBVIOUS
  <2> HIDE DEF it
  <2> QED BY <2>1, <2>2 DEF Adds
<1>5. Adds(Sums(w, T), w, T)
  <2> HIDE DEF it
  <2> QED BY <1>4 DEF Sums, Adds
<1> QED BY <1>1, <1>5

-----------------------------------------------------------------------------
(* The sum *)

LEMMA SumOfEmpty ==
  ASSUME NEW w
  PROVE  SumFunctionOnSet(w, {}) = 0
<1>1. IsFiniteSet({})
  BY FS_EmptySet
<1>2. Adds(Sums(w, {}), w, {})
  BY <1>1, IterateExists
<1> QED BY <1>2, SumIsIterated DEF Adds

LEMMA SumOfPick ==
  ASSUME NEW w, NEW S, IsFiniteSet(S), S # {}
  PROVE  SumFunctionOnSet(w, S) = w[Pick(S)] + SumFunctionOnSet(w, S \ {Pick(S)})
<1> DEFINE u == S \ {Pick(S)}
<1>1. IsFiniteSet(u)
  BY FS_Subset
<1>2. Adds(Sums(w, S), w, S) /\ Adds(Sums(w, u), w, u)
  BY <1>1, IterateExists
<1>3. Sums(w, S)[u] = Sums(w, u)[u]
  BY <1>1, <1>2, IteratesAgree
<1>4. Sums(w, S)[S] = w[Pick(S)] + Sums(w, S)[u]
  BY <1>2 DEF Adds
<1> QED BY <1>3, <1>4, SumIsIterated

\* Of integers the sum is an integer, of naturals a natural.
LEMMA SumIsInt ==
  ASSUME NEW S, IsFiniteSet(S), NEW w, \A x \in S : w[x] \in Int
  PROVE  SumFunctionOnSet(w, S) \in Int
<1> DEFINE Bad == {T \in SUBSET S : SumFunctionOnSet(w, T) \notin Int}
<1> SUFFICES ASSUME Bad # {} PROVE FALSE
  OBVIOUS
<1>1. PICK T \in Bad : \A U \in Bad : U \subseteq T => U = T
  <2>1. Bad \subseteq SUBSET S
    OBVIOUS
  <2> HIDE DEF Bad
  <2> QED BY <2>1, SmallestSubset
<1>2. T # {}
  BY SumOfEmpty
<1>3. Pick(T) \in T /\ IsFiniteSet(T)
  BY <1>2, PickIsMember, FS_Subset
<1>4. SumFunctionOnSet(w, T \ {Pick(T)}) \in Int
  BY <1>1, <1>3
<1> QED BY <1>2, <1>3, <1>4, SumOfPick

LEMMA SumIsNat ==
  ASSUME NEW S, IsFiniteSet(S), NEW w, \A x \in S : w[x] \in Nat
  PROVE  SumFunctionOnSet(w, S) \in Nat
<1> DEFINE Bad == {T \in SUBSET S : SumFunctionOnSet(w, T) \notin Nat}
<1> SUFFICES ASSUME Bad # {} PROVE FALSE
  OBVIOUS
<1>1. PICK T \in Bad : \A U \in Bad : U \subseteq T => U = T
  <2>1. Bad \subseteq SUBSET S
    OBVIOUS
  <2> HIDE DEF Bad
  <2> QED BY <2>1, SmallestSubset
<1>2. T # {}
  BY SumOfEmpty
<1>3. Pick(T) \in T /\ IsFiniteSet(T)
  BY <1>2, PickIsMember, FS_Subset
<1>4. SumFunctionOnSet(w, T \ {Pick(T)}) \in Nat
  BY <1>1, <1>3
<1> QED BY <1>2, <1>3, <1>4, SumOfPick

\* Only the values on the set count.
LEMMA SumOfEqual ==
  ASSUME NEW S, IsFiniteSet(S), NEW w, NEW v, \A x \in S : w[x] = v[x]
  PROVE  SumFunctionOnSet(w, S) = SumFunctionOnSet(v, S)
<1> DEFINE Bad == {T \in SUBSET S : SumFunctionOnSet(w, T) # SumFunctionOnSet(v, T)}
<1> SUFFICES ASSUME Bad # {} PROVE FALSE
  OBVIOUS
<1>1. PICK T \in Bad : \A U \in Bad : U \subseteq T => U = T
  <2>1. Bad \subseteq SUBSET S
    OBVIOUS
  <2> HIDE DEF Bad
  <2> QED BY <2>1, SmallestSubset
<1>2. T # {}
  BY SumOfEmpty
<1>3. Pick(T) \in T /\ IsFiniteSet(T)
  BY <1>2, PickIsMember, FS_Subset
<1>4. SumFunctionOnSet(w, T \ {Pick(T)}) = SumFunctionOnSet(v, T \ {Pick(T)})
  BY <1>1, <1>3
<1> QED BY <1>2, <1>3, <1>4, SumOfPick

\* Any member may be added last: the order Pick chooses is immaterial.
LEMMA SumWithout ==
  ASSUME NEW S, IsFiniteSet(S), NEW w, \A x \in S : w[x] \in Int, NEW y \in S
  PROVE  SumFunctionOnSet(w, S) = w[y] + SumFunctionOnSet(w, S \ {y})
<1> DEFINE Bad == {T \in SUBSET S : \E x \in T :
       SumFunctionOnSet(w, T) # w[x] + SumFunctionOnSet(w, T \ {x})}
<1> SUFFICES ASSUME Bad # {} PROVE FALSE
  OBVIOUS
<1>1. PICK T \in Bad : \A U \in Bad : U \subseteq T => U = T
  <2>1. Bad \subseteq SUBSET S
    OBVIOUS
  <2> HIDE DEF Bad
  <2> QED BY <2>1, SmallestSubset
<1>2. PICK x \in T : SumFunctionOnSet(w, T) # w[x] + SumFunctionOnSet(w, T \ {x})
  BY <1>1
<1>3. Pick(T) \in T /\ IsFiniteSet(T) /\ IsFiniteSet(T \ {x})
  BY <1>2, PickIsMember, FS_Subset
<1>4. SumFunctionOnSet(w, T) = w[Pick(T)] + SumFunctionOnSet(w, T \ {Pick(T)})
  BY <1>2, <1>3, SumOfPick
<1>5. Pick(T) # x
  BY <1>2, <1>4
<1> DEFINE c == Pick(T)
<1> DEFINE both == (T \ {c}) \ {x}
<1>6. T \ {c} \notin Bad
  BY <1>1, <1>3
<1>7. SumFunctionOnSet(w, T \ {c}) = w[x] + SumFunctionOnSet(w, both)
  BY <1>5, <1>6
<1>8. T \ {x} \notin Bad
  BY <1>1
<1>9. (T \ {x}) \ {c} = both
  OBVIOUS
<1>10. SumFunctionOnSet(w, T \ {x}) = w[c] + SumFunctionOnSet(w, both)
  BY <1>3, <1>5, <1>8, <1>9
<1>11. SumFunctionOnSet(w, both) \in Int
  <2>1. IsFiniteSet(both) /\ both \subseteq S
    BY <1>3, FS_Subset
  <2> QED BY <2>1, SumIsInt
<1>12. w[c] \in Int /\ w[x] \in Int
  BY <1>2, <1>3
<1> HIDE DEF c, both
<1> QED BY <1>2, <1>4, <1>7, <1>10, <1>11, <1>12 DEF c

-----------------------------------------------------------------------------
(* How it changes *)

LEMMA SumWith ==
  ASSUME NEW S, IsFiniteSet(S), NEW y, y \notin S, NEW w, \A x \in S \cup {y} : w[x] \in Int
  PROVE  SumFunctionOnSet(w, S \cup {y}) = w[y] + SumFunctionOnSet(w, S)
<1>1. IsFiniteSet(S \cup {y}) /\ (S \cup {y}) \ {y} = S
  BY FS_AddElement
<1> QED BY <1>1, SumWithout

LEMMA SumOfDisjoint ==
  ASSUME NEW S, IsFiniteSet(S), NEW T, IsFiniteSet(T), S \cap T = {},
         NEW w, \A x \in S \cup T : w[x] \in Int
  PROVE  SumFunctionOnSet(w, S \cup T) = SumFunctionOnSet(w, S) + SumFunctionOnSet(w, T)
<1> DEFINE Bad == {U \in SUBSET T :
       SumFunctionOnSet(w, S \cup U) # SumFunctionOnSet(w, S) + SumFunctionOnSet(w, U)}
<1> SUFFICES ASSUME Bad # {} PROVE FALSE
  OBVIOUS
<1>1. PICK U \in Bad : \A V \in Bad : V \subseteq U => V = U
  <2>1. Bad \subseteq SUBSET T
    OBVIOUS
  <2> HIDE DEF Bad
  <2> QED BY <2>1, SmallestSubset
<1>2. SumFunctionOnSet(w, S) \in Int
  BY SumIsInt
<1>3. U # {}
  BY <1>2, SumOfEmpty
<1>4. PICK y \in U : TRUE
  BY <1>3
<1>5. U \ {y} \notin Bad
  BY <1>1
<1>6. IsFiniteSet(S \cup U) /\ IsFiniteSet(U) /\ IsFiniteSet(U \ {y})
  BY FS_Subset, FS_Union
<1>7. SumFunctionOnSet(w, S \cup U) = w[y] + SumFunctionOnSet(w, (S \cup U) \ {y})
  BY <1>4, <1>6, SumWithout
<1>8. (S \cup U) \ {y} = S \cup (U \ {y})
  BY <1>4
<1>9. SumFunctionOnSet(w, U) = w[y] + SumFunctionOnSet(w, U \ {y})
  BY <1>4, <1>6, SumWithout
<1>10. SumFunctionOnSet(w, S \cup (U \ {y})) =
         SumFunctionOnSet(w, S) + SumFunctionOnSet(w, U \ {y})
  BY <1>5
<1>11. w[y] \in Int /\ SumFunctionOnSet(w, U \ {y}) \in Int
  BY <1>6, SumIsInt
<1> QED BY <1>1, <1>2, <1>7, <1>8, <1>9, <1>10, <1>11

LEMMA SumOfRest ==
  ASSUME NEW S, IsFiniteSet(S), NEW T, T \subseteq S, NEW w, \A x \in S : w[x] \in Int
  PROVE  SumFunctionOnSet(w, S \ T) = SumFunctionOnSet(w, S) - SumFunctionOnSet(w, T)
<1>1. IsFiniteSet(T) /\ IsFiniteSet(S \ T)
  BY FS_Subset
<1>2. (S \ T) \cup T = S /\ (S \ T) \cap T = {}
  OBVIOUS
<1>3. SumFunctionOnSet(w, S) = SumFunctionOnSet(w, S \ T) + SumFunctionOnSet(w, T)
  BY <1>1, <1>2, SumOfDisjoint
<1>4. SumFunctionOnSet(w, S \ T) \in Int /\ SumFunctionOnSet(w, T) \in Int
  BY <1>1, SumIsInt
<1> QED BY <1>3, <1>4

\* One value changes.
LEMMA SumUpdated ==
  ASSUME NEW S, IsFiniteSet(S), NEW w, NEW v, NEW y \in S,
         \A x \in S : w[x] \in Int /\ v[x] \in Int, \A x \in S \ {y} : v[x] = w[x]
  PROVE  SumFunctionOnSet(v, S) = SumFunctionOnSet(w, S) + v[y] - w[y]
<1>1. IsFiniteSet(S \ {y})
  BY FS_Subset
<1>2. SumFunctionOnSet(v, S \ {y}) = SumFunctionOnSet(w, S \ {y})
  BY <1>1, SumOfEqual
<1>3. /\ SumFunctionOnSet(w, S) = w[y] + SumFunctionOnSet(w, S \ {y})
      /\ SumFunctionOnSet(v, S) = v[y] + SumFunctionOnSet(v, S \ {y})
  BY SumWithout
<1>4. SumFunctionOnSet(w, S \ {y}) \in Int
  BY <1>1, SumIsInt
<1> QED BY <1>2, <1>3, <1>4

LEMMA SumOfSums ==
  ASSUME NEW S, IsFiniteSet(S), NEW u, NEW w, NEW v,
         \A x \in S : w[x] \in Int /\ v[x] \in Int /\ u[x] = w[x] + v[x]
  PROVE  SumFunctionOnSet(u, S) = SumFunctionOnSet(w, S) + SumFunctionOnSet(v, S)
<1> DEFINE Bad == {T \in SUBSET S :
       SumFunctionOnSet(u, T) # SumFunctionOnSet(w, T) + SumFunctionOnSet(v, T)}
<1> SUFFICES ASSUME Bad # {} PROVE FALSE
  OBVIOUS
<1>1. PICK T \in Bad : \A U \in Bad : U \subseteq T => U = T
  <2>1. Bad \subseteq SUBSET S
    OBVIOUS
  <2> HIDE DEF Bad
  <2> QED BY <2>1, SmallestSubset
<1>2. T # {}
  <2>1. /\ SumFunctionOnSet(u, {}) = 0 /\ SumFunctionOnSet(w, {}) = 0
        /\ SumFunctionOnSet(v, {}) = 0
    BY SumOfEmpty
  <2>2. {} \notin Bad
    BY <2>1
  <2> HIDE DEF Bad
  <2> QED BY <2>2
<1> DEFINE rest == T \ {Pick(T)}
<1>3. Pick(T) \in T /\ IsFiniteSet(T) /\ IsFiniteSet(rest)
  BY <1>2, PickIsMember, FS_Subset
<1>4. SumFunctionOnSet(u, rest) = SumFunctionOnSet(w, rest) + SumFunctionOnSet(v, rest)
  BY <1>1, <1>3
<1>5. /\ SumFunctionOnSet(u, T) = u[Pick(T)] + SumFunctionOnSet(u, rest)
      /\ SumFunctionOnSet(w, T) = w[Pick(T)] + SumFunctionOnSet(w, rest)
      /\ SumFunctionOnSet(v, T) = v[Pick(T)] + SumFunctionOnSet(v, rest)
  BY <1>2, <1>3, SumOfPick
<1>6. /\ SumFunctionOnSet(w, rest) \in Int /\ SumFunctionOnSet(v, rest) \in Int
      /\ w[Pick(T)] \in Int /\ v[Pick(T)] \in Int
      /\ u[Pick(T)] = w[Pick(T)] + v[Pick(T)]
  BY <1>3, SumIsInt
<1> QED BY <1>1, <1>4, <1>5, <1>6

LEMMA SumOfConstant ==
  ASSUME NEW S, IsFiniteSet(S), NEW c \in Int, NEW w, \A x \in S : w[x] = c
  PROVE  SumFunctionOnSet(w, S) = c * Cardinality(S)
<1> DEFINE Bad == {T \in SUBSET S : SumFunctionOnSet(w, T) # c * Cardinality(T)}
<1> SUFFICES ASSUME Bad # {} PROVE FALSE
  OBVIOUS
<1>1. PICK T \in Bad : \A U \in Bad : U \subseteq T => U = T
  <2>1. Bad \subseteq SUBSET S
    OBVIOUS
  <2> HIDE DEF Bad
  <2> QED BY <2>1, SmallestSubset
<1>2. T # {}
  BY SumOfEmpty, FS_EmptySet
<1> DEFINE rest == T \ {Pick(T)}
<1>3. Pick(T) \in T /\ IsFiniteSet(T) /\ IsFiniteSet(rest)
  BY <1>2, PickIsMember, FS_Subset
<1>4. SumFunctionOnSet(w, rest) = c * Cardinality(rest)
  BY <1>1, <1>3
<1>5. SumFunctionOnSet(w, T) = c + SumFunctionOnSet(w, rest)
  BY <1>2, <1>3, SumOfPick
<1>6. Cardinality(rest) = Cardinality(T) - 1 /\ Cardinality(T) \in Nat
  BY <1>3, FS_RemoveElement, FS_CardinalityType
<1>7. c * (Cardinality(T) - 1) = c * Cardinality(T) - c
  BY <1>6
<1> QED BY <1>1, <1>4, <1>5, <1>6, <1>7

\* Of naturals, no term exceeds the sum.
LEMMA SumAtLeast ==
  ASSUME NEW S, IsFiniteSet(S), NEW w, \A x \in S : w[x] \in Nat, NEW y \in S
  PROVE  w[y] <= SumFunctionOnSet(w, S)
<1>1. IsFiniteSet(S \ {y})
  BY FS_Subset
<1>2. SumFunctionOnSet(w, S) = w[y] + SumFunctionOnSet(w, S \ {y})
  BY SumWithout
<1>3. SumFunctionOnSet(w, S \ {y}) \in Nat
  BY <1>1, SumIsNat
<1> QED BY <1>2, <1>3

\* Of one, two or three elements.
LEMMA SumOfOne ==
  ASSUME NEW w, NEW x, w[x] \in Int
  PROVE  SumFunctionOnSet(w, {x}) = w[x]
<1>1. IsFiniteSet({x}) /\ {x} \ {x} = {}
  BY FS_Singleton
<1>2. SumFunctionOnSet(w, {x}) = w[x] + SumFunctionOnSet(w, {x} \ {x})
  BY <1>1, SumWithout
<1> QED BY <1>1, <1>2, SumOfEmpty

LEMMA SumOfTwo ==
  ASSUME NEW w, NEW x, NEW y, x # y, w[x] \in Int, w[y] \in Int
  PROVE  SumFunctionOnSet(w, {x, y}) = w[x] + w[y]
<1>1. IsFiniteSet({y}) /\ {y} \cup {x} = {x, y}
  BY FS_Singleton
<1>2. SumFunctionOnSet(w, {y} \cup {x}) = w[x] + SumFunctionOnSet(w, {y})
  BY <1>1, SumWith
<1> QED BY <1>1, <1>2, SumOfOne

IsTriple(S, x, y, z) == S = {x, y, z} /\ x # y /\ y # z /\ x # z

LEMMA SumOfThree ==
  ASSUME NEW w, NEW S, NEW x, NEW y, NEW z, IsTriple(S, x, y, z),
         w[x] \in Int, w[y] \in Int, w[z] \in Int
  PROVE  SumFunctionOnSet(w, S) = w[x] + w[y] + w[z]
<1>1. PICK pair : pair = {y, z}
  OBVIOUS
<1>2. IsFiniteSet({y} \cup {z}) /\ pair = {y} \cup {z} /\ pair \cup {x} = S /\ x \notin pair
  BY <1>1, FS_Singleton, FS_Union DEF IsTriple
<1>3. \A e \in pair \cup {x} : w[e] \in Int
  BY <1>2
<1>4. SumFunctionOnSet(w, S) = w[x] + SumFunctionOnSet(w, pair)
  <2>1. IsFiniteSet(pair) /\ x \notin pair
    BY <1>2
  <2>2. SumFunctionOnSet(w, pair \cup {x}) = w[x] + SumFunctionOnSet(w, pair)
    BY <1>3, <2>1, SumWith
  <2> QED BY <1>2, <2>2
<1>5. SumFunctionOnSet(w, pair) = w[y] + w[z]
  BY <1>1, SumOfTwo DEF IsTriple
<1>6. w[x] + (w[y] + w[z]) = w[x] + w[y] + w[z]
  OBVIOUS
<1> QED BY <1>4, <1>5, <1>6

\* Of values all but one of which are zero.
LEMMA SumOfOnly ==
  ASSUME NEW S, IsFiniteSet(S), NEW w, NEW y \in S, w[y] \in Int, \A x \in S \ {y} : w[x] = 0
  PROVE  SumFunctionOnSet(w, S) = w[y]
<1>1. IsFiniteSet(S \ {y}) /\ Cardinality(S \ {y}) \in Nat
  BY FS_Subset, FS_CardinalityType
<1>2. SumFunctionOnSet(w, S) = w[y] + SumFunctionOnSet(w, S \ {y})
  BY SumWithout
<1>3. SumFunctionOnSet(w, S \ {y}) = 0 * Cardinality(S \ {y})
  BY <1>1, SumOfConstant
<1> QED BY <1>1, <1>2, <1>3

\* A factor may be taken out of a sum.
LEMMA SumOfScaled ==
  ASSUME NEW S, IsFiniteSet(S), NEW c \in Int, NEW w, NEW v,
         \A x \in S : w[x] \in Int /\ v[x] = c * w[x]
  PROVE  SumFunctionOnSet(v, S) = c * SumFunctionOnSet(w, S)
<1> DEFINE Bad == {T \in SUBSET S : SumFunctionOnSet(v, T) # c * SumFunctionOnSet(w, T)}
<1> SUFFICES ASSUME Bad # {} PROVE FALSE
  OBVIOUS
<1>1. PICK T \in Bad : \A U \in Bad : U \subseteq T => U = T
  <2>1. Bad \subseteq SUBSET S
    OBVIOUS
  <2> HIDE DEF Bad
  <2> QED BY <2>1, SmallestSubset
<1>2. T # {}
  <2>1. c * 0 = 0 /\ SumFunctionOnSet(v, {}) = 0 /\ SumFunctionOnSet(w, {}) = 0
    BY SumOfEmpty
  <2> QED BY <1>1, <2>1
<1> DEFINE rest == T \ {Pick(T)}
<1>3. Pick(T) \in T /\ IsFiniteSet(T) /\ IsFiniteSet(rest)
  BY <1>2, PickIsMember, FS_Subset
<1>4. SumFunctionOnSet(v, rest) = c * SumFunctionOnSet(w, rest)
  BY <1>1, <1>3
<1>5. /\ SumFunctionOnSet(v, T) = v[Pick(T)] + SumFunctionOnSet(v, rest)
      /\ SumFunctionOnSet(w, T) = w[Pick(T)] + SumFunctionOnSet(w, rest)
  BY <1>2, <1>3, SumOfPick
<1>6. PICK a \in Int, b \in Int : a = w[Pick(T)] /\ b = SumFunctionOnSet(w, rest)
  BY <1>3, SumIsInt
<1>7. c * (a + b) = c * a + c * b
  OBVIOUS
<1>8. v[Pick(T)] = c * a
  BY <1>3, <1>6
<1> QED BY <1>1, <1>4, <1>5, <1>6, <1>7, <1>8

\* A sum of smaller values is smaller.
LEMMA SumOfSmaller ==
  ASSUME NEW S, IsFiniteSet(S), NEW w, NEW v,
         \A x \in S : w[x] \in Int /\ v[x] \in Int /\ w[x] <= v[x]
  PROVE  SumFunctionOnSet(w, S) <= SumFunctionOnSet(v, S)
<1> DEFINE less == [x \in S |-> v[x] - w[x]]
<1>1. \A x \in S : less[x] \in Nat
  OBVIOUS
<1>2. SumFunctionOnSet(less, S) \in Nat
  BY <1>1, SumIsNat
<1>3. \A x \in S : less[x] \in Int /\ w[x] \in Int /\ v[x] = less[x] + w[x]
  OBVIOUS
<1> HIDE DEF less
<1>4. SumFunctionOnSet(v, S) = SumFunctionOnSet(less, S) + SumFunctionOnSet(w, S)
  BY <1>3, SumOfSums
<1>5. SumFunctionOnSet(w, S) \in Int
  BY SumIsInt
<1> QED BY <1>2, <1>4, <1>5

\* A sum may be taken over other names of the same values.
ImageOf(f, S) == {f[x] : x \in S}

LEMMA ImageIsFinite ==
  ASSUME NEW S, IsFiniteSet(S), NEW f
  PROVE  IsFiniteSet(ImageOf(f, S))
<1> DEFINE g == [x \in S |-> f[x]]
<1>1. g \in Surjection(S, ImageOf(f, S))
  BY DEF Surjection, ImageOf
<1> QED BY <1>1, FS_Surjection

LEMMA SumOverImage ==
  ASSUME NEW S, IsFiniteSet(S), NEW f, NEW w, NEW v,
         \A x, y \in S : f[x] = f[y] => x = y,
         \A x \in S : v[x] \in Int /\ w[f[x]] = v[x]
  PROVE  SumFunctionOnSet(w, ImageOf(f, S)) = SumFunctionOnSet(v, S)
<1> DEFINE image(T) == ImageOf(f, T)
           Bad == {T \in SUBSET S : SumFunctionOnSet(w, image(T)) # SumFunctionOnSet(v, T)}
<1> SUFFICES ASSUME Bad # {} PROVE FALSE
  OBVIOUS
<1>1. PICK T \in Bad : \A U \in Bad : U \subseteq T => U = T
  <2>1. Bad \subseteq SUBSET S
    OBVIOUS
  <2> HIDE DEF Bad
  <2> QED BY <2>1, SmallestSubset
<1>2. T # {}
  <2>1. image({}) = {}
    BY DEF ImageOf
  <2> QED BY <2>1, SumOfEmpty
<1> DEFINE rest == T \ {Pick(T)}
<1>3. Pick(T) \in T /\ IsFiniteSet(T) /\ IsFiniteSet(rest)
  BY <1>2, PickIsMember, FS_Subset
<1>4. SumFunctionOnSet(w, image(rest)) = SumFunctionOnSet(v, rest)
  BY <1>1, <1>3
<1>5. SumFunctionOnSet(v, T) = v[Pick(T)] + SumFunctionOnSet(v, rest)
  BY <1>2, <1>3, SumOfPick
<1>6. image(T) = image(rest) \cup {f[Pick(T)]} /\ f[Pick(T)] \notin image(rest)
  BY <1>3 DEF ImageOf
<1>7. IsFiniteSet(image(rest))
  BY <1>3, ImageIsFinite
<1>8. \A y \in image(rest) \cup {f[Pick(T)]} : w[y] \in Int
  BY <1>3 DEF ImageOf
<1>9. SumFunctionOnSet(w, image(T)) = w[f[Pick(T)]] + SumFunctionOnSet(w, image(rest))
  <2> HIDE DEF image
  <2> QED BY <1>6, <1>7, <1>8, SumWith
<1>10. w[f[Pick(T)]] = v[Pick(T)]
  BY <1>3
<1> QED BY <1>1, <1>4, <1>5, <1>9, <1>10

-----------------------------------------------------------------------------
(* Greatest and smallest *)

\* Of finitely many subsets of a finite set, one is contained in no other.
LEMMA SmallestValue ==
  ASSUME NEW S, IsFiniteSet(S), S # {}, NEW f, \A x \in S : f[x] \subseteq S
  PROVE  \E x \in S : \A y \in S : f[y] \subseteq f[x] => f[y] = f[x]
<1> DEFINE B == {f[x] : x \in S}
<1>1. B \subseteq SUBSET S
  OBVIOUS
<1>2. B # {}
  OBVIOUS
<1>3. \E s \in B : \A t \in B : t \subseteq s => t = s
  <2> HIDE DEF B
  <2> QED BY <1>1, <1>2, SmallestSubset
<1>4. PICK s \in B : \A t \in B : t \subseteq s => t = s
  BY <1>3
<1>5. PICK x \in S : s = f[x]
  BY <1>4
<1>6. \A y \in S : f[y] \in B
  OBVIOUS
<1> QED BY <1>4, <1>5, <1>6

\* The greatest of a finite set of integers is in it.
LEMMA GreatestExists ==
  ASSUME NEW S, \A x \in S : x \in Int, IsFiniteSet(S), S # {}
  PROVE  Max(S) \in S /\ \A x \in S : x <= Max(S)
  <1>. DEFINE Above(x) == {y \in S : x <= y}
              f == [x \in S |-> Above(x)]
  <1>1. \A x \in S : f[x] = Above(x) /\ f[x] \subseteq S
    OBVIOUS
  <1>2. PICK x \in S : \A y \in S : f[y] \subseteq f[x] => f[y] = f[x]
    <2>1. \A x \in S : f[x] \subseteq S
      BY <1>1
    <2>. HIDE DEF f
    <2>. QED  BY <2>1, SmallestValue
  <1>4. \A y \in S : y <= x
    <2>1. SUFFICES ASSUME NEW y \in S, ~(y <= x) PROVE FALSE
      OBVIOUS
    <2>2. x \in Int /\ y \in Int /\ \A z \in S : z \in Int
      OBVIOUS
    <2>3. ASSUME NEW z \in Above(y) PROVE z \in Above(x)
      <3>1. z \in S /\ z \in Int /\ y <= z
        BY <2>2
      <3>2. x <= z
        BY <2>1, <2>2, <3>1
      <3>. QED  BY <3>1, <3>2
    <2>4. x \notin Above(y) /\ x \in Above(x)
      BY <2>1, <2>2
    <2>. QED  BY <1>1, <1>2, <2>3, <2>4
  <1>. QED  BY <1>4 DEF Max

LEMMA GreaterOfTwo ==
  ASSUME NEW x \in Int, NEW y \in Int
  PROVE  Max({x, y}) = IF x >= y THEN x ELSE y
  <1>1. IsFiniteSet({x, y})
    <2>1. IsFiniteSet({x}) /\ {x, y} = {x} \cup {y}
      BY FS_Singleton
    <2>. QED  BY <2>1, FS_AddElement
  <1>2. Max({x, y}) \in {x, y} /\ \A z \in {x, y} : z <= Max({x, y})
    BY <1>1, GreatestExists
  <1>. QED  BY <1>2

LEMMA LesserOfTwo ==
  ASSUME NEW x \in Int, NEW y \in Int
  PROVE  Min({x, y}) = IF x <= y THEN x ELSE y
  <1>1. \E z \in {x, y} : \A t \in {x, y} : z <= t
    OBVIOUS
  <1>. QED  BY <1>1 DEF Min

\* The least of a finite set of integers is in it.
LEMMA LeastExists ==
  ASSUME NEW S, \A x \in S : x \in Int, IsFiniteSet(S), S # {}
  PROVE  Min(S) \in S /\ \A x \in S : Min(S) <= x
  <1>. DEFINE Below(x) == {y \in S : y <= x}
              f == [x \in S |-> Below(x)]
  <1>1. \A x \in S : f[x] = Below(x) /\ f[x] \subseteq S
    OBVIOUS
  <1>2. PICK x \in S : \A y \in S : f[y] \subseteq f[x] => f[y] = f[x]
    <2>1. \A x \in S : f[x] \subseteq S
      BY <1>1
    <2>. HIDE DEF f
    <2>. QED  BY <2>1, SmallestValue
  <1>4. \A y \in S : x <= y
    <2>1. SUFFICES ASSUME NEW y \in S, ~(x <= y) PROVE FALSE
      OBVIOUS
    <2>2. x \in Int /\ y \in Int /\ \A z \in S : z \in Int
      OBVIOUS
    <2>3. ASSUME NEW z \in Below(y) PROVE z \in Below(x)
      <3>1. z \in S /\ z \in Int /\ z <= y
        BY <2>2
      <3>2. z <= x
        BY <2>1, <2>2, <3>1
      <3>. QED  BY <3>1, <3>2
    <2>4. x \notin Below(y) /\ x \in Below(x)
      BY <2>1, <2>2
    <2>. QED  BY <1>1, <1>2, <2>3, <2>4
  <1>. QED  BY <1>4 DEF Min

\* The members of a finite set of integers have the ranks from one to its size.
RankFunction(S) == [x \in S |-> Cardinality({y \in S : y <= x})]

Ranks(rank, S) ==
  /\ Cardinality(S) \in Nat
  /\ \A x \in S : rank[x] \in 1..Cardinality(S)
  /\ \A x, y \in S : rank[x] = rank[y] => x = y
  /\ \A n \in 1..Cardinality(S) : \E x \in S : rank[x] = n

LEMMA RanksExist ==
  ASSUME NEW S, \A x \in S : x \in Int, IsFiniteSet(S)
  PROVE  Ranks(RankFunction(S), S)
  <1>. PICK rank : rank = RankFunction(S)
    OBVIOUS
  <1>. DEFINE Below(x) == {y \in S : y <= x}
  <1>1. \A x \in S : rank[x] = Cardinality(Below(x))
    BY DEF RankFunction
  <1>. HIDE DEF Below
  <1>2. \A x \in S : Below(x) \in SUBSET S /\ x \in Below(x)
    BY DEF Below
  <1>3. \A x \in S : IsFiniteSet(Below(x))
    BY <1>2, FS_Subset
  <1>4. Cardinality(S) \in Nat /\ \A x \in S : Cardinality(Below(x)) \in Nat
    BY <1>3, FS_CardinalityType
  <1>5. \A x \in S : rank[x] \in 1..Cardinality(S)
    <2>. SUFFICES ASSUME NEW x \in S PROVE rank[x] \in 1..Cardinality(S)
      OBVIOUS
    <2>1. Cardinality(Below(x)) <= Cardinality(S)
      BY <1>2, FS_Subset
    <2>2. Cardinality(Below(x)) # 0
      BY <1>2, <1>3, FS_EmptySet
    <2>. QED  BY <1>1, <1>4, <2>1, <2>2
  <1>6. ASSUME NEW x \in S, NEW y \in S, rank[x] = rank[y], x <= y  PROVE x = y
    <2>1. Below(x) \in SUBSET Below(y)
      BY <1>6 DEF Below
    <2>2. Below(y) = Below(x)
      BY <1>1, <1>3, <1>6, <2>1, FS_Subset
    <2>3. y <= x
      <3>1. y \in Below(x)
        BY <1>2, <2>2
      <3>. QED  BY <3>1 DEF Below
    <2>. QED  BY <1>6, <2>3
  <1>7. \A x, y \in S : rank[x] = rank[y] => x = y
    <2>. SUFFICES ASSUME NEW x \in S, NEW y \in S, rank[x] = rank[y] PROVE x = y
      OBVIOUS
    <2>1. x <= y \/ y <= x
      OBVIOUS
    <2>. QED  BY <1>6, <2>1
  <1>8. IsFiniteSet(1..Cardinality(S)) /\ Cardinality(1..Cardinality(S)) = Cardinality(S)
    BY <1>4, FS_Interval
  <1>9. rank \in Injection(S, 1..Cardinality(S))
    <2>1. rank \in [S -> 1..Cardinality(S)]
      <3>1. rank = [x \in S |-> rank[x]]
        BY DEF RankFunction
      <3>. QED  BY <1>5, <3>1
    <2>. QED  BY <1>7, <2>1 DEF Injection, IsInjective
  <1>10. rank \in Surjection(S, 1..Cardinality(S))
    BY <1>8, <1>9, FS_Injection
  <1>11. \A n \in 1..Cardinality(S) : \E x \in S : rank[x] = n
    BY <1>10 DEF Surjection
  <1>. QED  BY <1>4, <1>5, <1>7, <1>11 DEF Ranks
=============================================================================
