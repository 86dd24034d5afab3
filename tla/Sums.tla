-------------------------------- MODULE Sums --------------------------------
(***************************************************************************)
(* What the proofs need to know of a sum over a finite set,                *)
(* SumFunctionOnSet of the community modules: it adds up one element at a  *)
(* time, in any order, and grows with the set and with the function.       *)
(***************************************************************************)
EXTENDS Integers, FiniteSets, Functions, FiniteSetTheorems, WellFoundedInduction, TLAPS

OneOf(s) == CHOOSE x \in s : TRUE
AllBut(s) == s \ {OneOf(s)}

\* g is the function the sum over S is defined by.
Adds(g, f, S) == g = [s \in SUBSET S |-> IF s = {} THEN 0 ELSE f[OneOf(s)] + g[AllBut(s)]]

\* What the definition of the sum comes to.
LEMMA SumChosen ==
  ASSUME NEW f, NEW S
  PROVE  SumFunctionOnSet(f, S) = (CHOOSE g : Adds(g, f, S))[S]
BY DEF SumFunctionOnSet, FoldFunctionOnSet, MapThenFoldSet, Adds, OneOf, AllBut

\* A set has an element, and less without it.
LEMMA RestSmaller ==
  ASSUME NEW s, s # {}
  PROVE  OneOf(s) \in s /\ AllBut(s) \subseteq s /\ AllBut(s) # s
BY DEF OneOf, AllBut

\* A family of subsets of a finite set has one with none of it below.
LEMMA LeastSubset ==
  ASSUME NEW S, IsFiniteSet(S), NEW P \in SUBSET SUBSET S, P # {}
  PROVE  \E s \in P : \A t \in P : t \subseteq s => t = s
<1>1. IsWellFoundedOn(StrictSubsetOrdering(S), SUBSET S)
  BY FS_StrictSubsetOrderingWellFounded, FS_FiniteSubsetsOfFinite
<1>2. PICK s \in P : \A t \in P : <<t, s>> \notin StrictSubsetOrdering(S)
  BY <1>1, WFMin, Zenon
<1> QED
  BY <1>2 DEF StrictSubsetOrdering

\* Two such functions agree wherever both are defined.
LEMMA AddsAgree ==
  ASSUME NEW f, NEW S, IsFiniteSet(S), NEW T \in SUBSET S,
         NEW g, Adds(g, f, S), NEW h, Adds(h, f, T)
  PROVE  \A s \in SUBSET T : g[s] = h[s]
<1> DEFINE P == {s \in SUBSET T : g[s] # h[s]}
<1> SUFFICES ASSUME P # {} PROVE FALSE
  OBVIOUS
<1>1. IsFiniteSet(T)
  BY FS_Subset
<1>2. PICK s \in P : \A t \in P : t \subseteq s => t = s
  <2>1. P \in SUBSET SUBSET T
    OBVIOUS
  <2> HIDE DEF P
  <2> QED
    BY <1>1, <2>1, LeastSubset
<1>3. s # {}
  BY DEF Adds
<1>4. AllBut(s) \in SUBSET T /\ AllBut(s) \notin P
  BY <1>2, <1>3, RestSmaller
<1>5. g[s] = f[OneOf(s)] + g[AllBut(s)] /\ h[s] = f[OneOf(s)] + h[AllBut(s)]
  BY <1>3 DEF Adds
<1> QED
  BY <1>2, <1>4, <1>5

\* Such a function exists: on each subset it is what the function of the
\* subset without one element makes of it.
LEMMA AddsExists ==
  ASSUME NEW f, NEW S, IsFiniteSet(S)
  PROVE  \E g : Adds(g, f, S)
<1> DEFINE P == {T \in SUBSET S : ~ \E g : Adds(g, f, T)}
<1> SUFFICES ASSUME P # {} PROVE FALSE
  OBVIOUS
<1>1. PICK T \in P : \A U \in P : U \subseteq T => U = T
  <2>1. P \in SUBSET SUBSET S
    OBVIOUS
  <2> HIDE DEF P
  <2> QED
    BY <2>1, LeastSubset
<1> DEFINE G(U) == CHOOSE g : Adds(g, f, U)
           Value(s) == IF s = {} THEN 0 ELSE f[OneOf(s)] + G(AllBut(s))[AllBut(s)]
           h == [s \in SUBSET T |-> Value(s)]
<1>2. ASSUME NEW s \in SUBSET T, s # {}
      PROVE  /\ Adds(G(AllBut(s)), f, AllBut(s))
             /\ IsFiniteSet(AllBut(s))
  <2>1. AllBut(s) \subseteq T /\ AllBut(s) # T
    BY <1>2, RestSmaller
  <2>2. AllBut(s) \notin P
    <3> HIDE DEF P
    <3> QED
      BY <1>1, <2>1
  <2>3. T \in SUBSET S
    OBVIOUS
  <2> QED
    BY <2>1, <2>2, <2>3, FS_Subset
<1>3. ASSUME NEW s \in SUBSET T, s # {}
      PROVE  h[AllBut(s)] = G(AllBut(s))[AllBut(s)]
  <2> DEFINE u == AllBut(s)
  <2>1. Adds(G(u), f, u) /\ IsFiniteSet(u) /\ u \in SUBSET T /\ u \in SUBSET u
    BY <1>2, <1>3, RestSmaller
  <2>2. CASE u = {}
    <3>1. h[u] = 0
      BY <2>1, <2>2
    <3>2. G(u)[u] = 0
      <4> HIDE DEF G, u
      <4> QED
        BY <2>1, <2>2 DEF Adds
    <3> QED
      BY <3>1, <3>2
  <2>3. CASE u # {}
    <3>1. h[u] = f[OneOf(u)] + G(AllBut(u))[AllBut(u)]
      BY <2>1, <2>3
    <3>2. G(u)[u] = f[OneOf(u)] + G(u)[AllBut(u)]
      <4> HIDE DEF G, u
      <4> QED
        BY <2>1, <2>3 DEF Adds
    <3>3. Adds(G(AllBut(u)), f, AllBut(u)) /\ AllBut(u) \in SUBSET u /\ AllBut(u) \in SUBSET AllBut(u)
      BY <1>2, <2>1, <2>3, RestSmaller
    <3>4. G(u)[AllBut(u)] = G(AllBut(u))[AllBut(u)]
      <4> HIDE DEF G, u
      <4> QED
        BY <2>1, <3>3, AddsAgree
    <3> QED
      BY <3>1, <3>2, <3>4
  <2> QED
    BY <2>2, <2>3
<1>4. Adds(h, f, T)
  <2>1. \A s \in SUBSET T : Value(s) = IF s = {} THEN 0 ELSE f[OneOf(s)] + h[AllBut(s)]
    <3> HIDE DEF G, h
    <3> QED
      BY <1>3
  <2>2. h = [s \in SUBSET T |-> IF s = {} THEN 0 ELSE f[OneOf(s)] + h[AllBut(s)]]
    <3> HIDE DEF Value
    <3> QED
      BY <2>1
  <2> HIDE DEF h
  <2> QED
    BY <2>2 DEF Adds
<1> QED
  BY <1>4

\* The sum over a set, one element taken out.
LEMMA SumRest ==
  ASSUME NEW f, NEW S, IsFiniteSet(S)
  PROVE  SumFunctionOnSet(f, S) =
           IF S = {} THEN 0 ELSE f[OneOf(S)] + SumFunctionOnSet(f, AllBut(S))
<1> DEFINE G(U) == CHOOSE g : Adds(g, f, U)
<1>1. Adds(G(S), f, S)
  BY AddsExists
<1>2. CASE S = {}
  <2> HIDE DEF G
  <2>1. G(S)[S] = 0
    BY <1>1, <1>2 DEF Adds
  <2> QED
    BY <1>2, <2>1, SumChosen DEF G
<1>3. CASE S # {}
  <2>1. AllBut(S) \in SUBSET S /\ IsFiniteSet(AllBut(S))
    BY <1>3, RestSmaller, FS_Subset
  <2>2. Adds(G(AllBut(S)), f, AllBut(S))
    BY <2>1, AddsExists
  <2>3. /\ SumFunctionOnSet(f, S) = G(S)[S]
        /\ SumFunctionOnSet(f, AllBut(S)) = G(AllBut(S))[AllBut(S)]
    BY SumChosen
  <2> HIDE DEF G
  <2>4. G(S)[S] = f[OneOf(S)] + G(S)[AllBut(S)]
    BY <1>1, <1>3 DEF Adds
  <2>5. G(S)[AllBut(S)] = G(AllBut(S))[AllBut(S)]
    BY <1>1, <2>1, <2>2, AddsAgree
  <2> QED
    BY <1>3, <2>3, <2>4, <2>5
<1> QED
  BY <1>2, <1>3

\* The sum of natural numbers is one.
LEMMA SumNat ==
  ASSUME NEW S, IsFiniteSet(S), NEW f, \A x \in S : f[x] \in Nat
  PROVE  SumFunctionOnSet(f, S) \in Nat
<1> DEFINE P == {T \in SUBSET S : SumFunctionOnSet(f, T) \notin Nat}
<1> SUFFICES ASSUME P # {} PROVE FALSE
  OBVIOUS
<1>1. PICK T \in P : \A U \in P : U \subseteq T => U = T
  <2>1. P \in SUBSET SUBSET S
    OBVIOUS
  <2> HIDE DEF P
  <2> QED
    BY <2>1, LeastSubset
<1>2. IsFiniteSet(T)
  BY FS_Subset
<1>3. T # {}
  BY <1>2, SumRest
<1>4. SumFunctionOnSet(f, AllBut(T)) \in Nat /\ OneOf(T) \in S
  BY <1>1, <1>3, RestSmaller
<1> QED
  BY <1>2, <1>3, <1>4, SumRest

\* The sum of integers is one.
LEMMA SumInt ==
  ASSUME NEW S, IsFiniteSet(S), NEW f, \A x \in S : f[x] \in Int
  PROVE  SumFunctionOnSet(f, S) \in Int
<1> DEFINE P == {T \in SUBSET S : SumFunctionOnSet(f, T) \notin Int}
<1> SUFFICES ASSUME P # {} PROVE FALSE
  OBVIOUS
<1>1. PICK T \in P : \A U \in P : U \subseteq T => U = T
  <2>1. P \in SUBSET SUBSET S
    OBVIOUS
  <2> HIDE DEF P
  <2> QED
    BY <2>1, LeastSubset
<1>2. IsFiniteSet(T)
  BY FS_Subset
<1>3. T # {}
  <2>1. SumFunctionOnSet(f, T) \notin Int
    OBVIOUS
  <2>2. T = {} => SumFunctionOnSet(f, T) = 0
    BY <1>2, SumRest
  <2> QED
    BY <2>1, <2>2
<1>4. SumFunctionOnSet(f, AllBut(T)) \in Int /\ OneOf(T) \in S
  BY <1>1, <1>3, RestSmaller
<1> QED
  BY <1>2, <1>3, <1>4, SumRest

\* Nothing but zeros adds up to zero.
LEMMA SumZero ==
  ASSUME NEW S, IsFiniteSet(S), NEW f, \A x \in S : f[x] = 0
  PROVE  SumFunctionOnSet(f, S) = 0
<1> DEFINE P == {T \in SUBSET S : SumFunctionOnSet(f, T) # 0}
<1> SUFFICES ASSUME P # {} PROVE FALSE
  OBVIOUS
<1>1. PICK T \in P : \A U \in P : U \subseteq T => U = T
  <2>1. P \in SUBSET SUBSET S
    OBVIOUS
  <2> HIDE DEF P
  <2> QED
    BY <2>1, LeastSubset
<1>2. IsFiniteSet(T)
  BY FS_Subset
<1>3. T # {}
  BY <1>2, SumRest
<1>4. SumFunctionOnSet(f, AllBut(T)) = 0 /\ OneOf(T) \in S
  BY <1>1, <1>3, RestSmaller
<1> QED
  BY <1>2, <1>3, <1>4, SumRest

\* Whichever element is taken out, the sum is the rest and that element.
LEMMA SumWithout ==
  ASSUME NEW S, IsFiniteSet(S), NEW f, \A x \in S : f[x] \in Int
  PROVE  \A x \in S : SumFunctionOnSet(f, S) = f[x] + SumFunctionOnSet(f, S \ {x})
<1> DEFINE Fine(T) == \A x \in T : SumFunctionOnSet(f, T) = f[x] + SumFunctionOnSet(f, T \ {x})
           P == {T \in SUBSET S : ~ Fine(T)}
<1> SUFFICES ASSUME P # {} PROVE FALSE
  OBVIOUS
<1>1. PICK T \in P : \A U \in P : U \subseteq T => U = T
  <2>1. P \in SUBSET SUBSET S
    OBVIOUS
  <2> HIDE DEF P
  <2> QED
    BY <2>1, LeastSubset
<1>2. IsFiniteSet(T) /\ T \in SUBSET S
  BY FS_Subset
<1>3. PICK x \in T : SumFunctionOnSet(f, T) # f[x] + SumFunctionOnSet(f, T \ {x})
  BY <1>1
<1> DEFINE y == OneOf(T)
<1>4. y \in T /\ AllBut(T) = T \ {y} /\ AllBut(T) # T /\ AllBut(T) \in SUBSET S
  BY <1>2, <1>3, RestSmaller DEF AllBut
<1>5. SumFunctionOnSet(f, T) = f[y] + SumFunctionOnSet(f, T \ {y})
  BY <1>2, <1>4, SumRest
<1> HIDE DEF y
<1>6. x # y
  BY <1>3, <1>5
<1>7. SumFunctionOnSet(f, T \ {y}) = f[x] + SumFunctionOnSet(f, (T \ {y}) \ {x})
  <2>1. Fine(T \ {y})
    BY <1>1, <1>4
  <2> QED
    BY <1>6, <2>1
<1>8. SumFunctionOnSet(f, T \ {x}) = f[y] + SumFunctionOnSet(f, (T \ {x}) \ {y})
  <2>1. Fine(T \ {x})
    BY <1>1, <1>2
  <2> QED
    BY <1>4, <1>6, <2>1
<1>9. (T \ {y}) \ {x} = (T \ {x}) \ {y}
  OBVIOUS
<1>10. SumFunctionOnSet(f, (T \ {x}) \ {y}) \in Int /\ f[x] \in Int /\ f[y] \in Int
  <2>1. IsFiniteSet((T \ {x}) \ {y}) /\ \A z \in (T \ {x}) \ {y} : f[z] \in Int
    BY <1>2, FS_Subset
  <2> QED
    BY <1>2, <1>4, <2>1, SumInt
<1> QED
  <2>1. SumFunctionOnSet(f, T \ {y}) = f[x] + SumFunctionOnSet(f, (T \ {x}) \ {y})
    BY <1>7, <1>9
  <2> HIDE DEF P, Fine
  <2> QED
    BY <1>3, <1>5, <1>8, <1>10, <2>1

\* Functions that agree on a set have the same sum over it.
LEMMA SumAgree ==
  ASSUME NEW S, IsFiniteSet(S), NEW f, NEW g, \A x \in S : f[x] = g[x]
  PROVE  SumFunctionOnSet(f, S) = SumFunctionOnSet(g, S)
<1> DEFINE P == {T \in SUBSET S : SumFunctionOnSet(f, T) # SumFunctionOnSet(g, T)}
<1> SUFFICES ASSUME P # {} PROVE FALSE
  OBVIOUS
<1>1. PICK T \in P : \A U \in P : U \subseteq T => U = T
  <2>1. P \in SUBSET SUBSET S
    OBVIOUS
  <2> HIDE DEF P
  <2> QED
    BY <2>1, LeastSubset
<1>2. IsFiniteSet(T)
  BY FS_Subset
<1>3. T # {}
  BY <1>2, SumRest
<1>4. SumFunctionOnSet(f, AllBut(T)) = SumFunctionOnSet(g, AllBut(T)) /\ OneOf(T) \in S
  BY <1>1, <1>3, RestSmaller
<1> QED
  BY <1>2, <1>3, <1>4, SumRest

\* One element more.
LEMMA SumWith ==
  ASSUME NEW S, IsFiniteSet(S), NEW x, x \notin S,
         NEW f, \A y \in S \cup {x} : f[y] \in Int
  PROVE  SumFunctionOnSet(f, S \cup {x}) = f[x] + SumFunctionOnSet(f, S)
<1>1. IsFiniteSet(S \cup {x})
  BY FS_AddElement
<1>2. (S \cup {x}) \ {x} = S
  OBVIOUS
<1> QED
  BY <1>1, <1>2, SumWithout

\* Where two functions differ at one element only, so do their sums.
LEMMA SumMove ==
  ASSUME NEW S, IsFiniteSet(S), NEW x \in S, NEW f, NEW g,
         \A y \in S : f[y] \in Int /\ g[y] \in Int,
         \A y \in S \ {x} : g[y] = f[y]
  PROVE  SumFunctionOnSet(g, S) = SumFunctionOnSet(f, S) + g[x] - f[x]
<1>1. IsFiniteSet(S \ {x})
  BY FS_Subset
<1>2. SumFunctionOnSet(g, S \ {x}) = SumFunctionOnSet(f, S \ {x})
  BY <1>1, SumAgree
<1>3. SumFunctionOnSet(f, S \ {x}) \in Int
  BY <1>1, SumInt
<1> QED
  BY <1>2, <1>3, SumWithout

\* The sum over two sets that share nothing.
LEMMA SumUnion ==
  ASSUME NEW S, IsFiniteSet(S), NEW T, IsFiniteSet(T), S \cap T = {},
         NEW f, \A x \in S \cup T : f[x] \in Int
  PROVE  SumFunctionOnSet(f, S \cup T) = SumFunctionOnSet(f, S) + SumFunctionOnSet(f, T)
<1> DEFINE P == {U \in SUBSET T : SumFunctionOnSet(f, S \cup U)
                                    # SumFunctionOnSet(f, S) + SumFunctionOnSet(f, U)}
<1> SUFFICES ASSUME P # {} PROVE FALSE
  OBVIOUS
<1>1. PICK U \in P : \A V \in P : V \subseteq U => V = U
  <2>1. P \in SUBSET SUBSET T
    OBVIOUS
  <2> HIDE DEF P
  <2> QED
    BY <2>1, LeastSubset
<1>2. IsFiniteSet(U) /\ SumFunctionOnSet(f, S) \in Int
  BY FS_Subset, SumInt
<1>3. U # {}
  <2>1. S \cup {} = S
    OBVIOUS
  <2>2. SumFunctionOnSet(f, {}) = 0
    BY FS_EmptySet, SumRest
  <2> QED
    BY <1>2, <2>1, <2>2
<1> DEFINE x == OneOf(U)
           V == U \ {x}
<1>4. x \in U /\ V # U /\ V \subseteq U
  BY <1>3, RestSmaller DEF AllBut
<1>5. SumFunctionOnSet(f, S \cup V) = SumFunctionOnSet(f, S) + SumFunctionOnSet(f, V)
  BY <1>1, <1>4
<1> HIDE DEF x
<1>6. IsFiniteSet(V) /\ IsFiniteSet(S \cup V) /\ x \notin S \cup V
      /\ (S \cup V) \cup {x} = S \cup U /\ V \cup {x} = U
  BY <1>2, <1>4, FS_Subset, FS_Union
<1>7. \A y \in S \cup U : f[y] \in Int
  BY <1>1
<1>8. SumFunctionOnSet(f, S \cup U) = f[x] + SumFunctionOnSet(f, S \cup V)
  BY <1>4, <1>6, <1>7, SumWith
<1>9. SumFunctionOnSet(f, U) = f[x] + SumFunctionOnSet(f, V)
  BY <1>4, <1>6, <1>7, SumWith
<1>10. SumFunctionOnSet(f, V) \in Int /\ f[x] \in Int
  BY <1>4, <1>6, <1>7, SumInt
<1>11. SumFunctionOnSet(f, S \cup U) # SumFunctionOnSet(f, S) + SumFunctionOnSet(f, U)
  OBVIOUS
<1> HIDE DEF P, V
<1> QED
  BY <1>2, <1>5, <1>8, <1>9, <1>10, <1>11

\* A sum over more, of a function no smaller, is no smaller.
LEMMA SumMonotone ==
  ASSUME NEW S, IsFiniteSet(S), NEW T \in SUBSET S,
         NEW f, NEW g, \A x \in S : f[x] \in Nat /\ g[x] \in Nat /\ f[x] <= g[x]
  PROVE  SumFunctionOnSet(f, T) <= SumFunctionOnSet(g, S)
<1> DEFINE P == {U \in SUBSET S :
                   ~ (SumFunctionOnSet(f, U \cap T) <= SumFunctionOnSet(g, U))}
<1>1. ASSUME P # {} PROVE FALSE
  <2>1. PICK U \in P : \A V \in P : V \subseteq U => V = U
    <3>1. P \in SUBSET SUBSET S
      OBVIOUS
    <3> HIDE DEF P
    <3> QED
      BY <1>1, <3>1, LeastSubset
  <2>2. /\ IsFiniteSet(U) /\ IsFiniteSet(U \cap T)
        /\ SumFunctionOnSet(f, U \cap T) \in Nat /\ SumFunctionOnSet(g, U) \in Nat
    <3>1. IsFiniteSet(U) /\ IsFiniteSet(U \cap T)
      BY FS_Subset
    <3> QED
      BY <3>1, SumNat
  <2>3. U # {}
    BY <2>2, SumRest
  <2> DEFINE x == OneOf(U)
             V == U \ {x}
  <2>4. x \in U /\ V # U /\ V \in SUBSET S
    BY <2>3, RestSmaller DEF AllBut
  <2>5. SumFunctionOnSet(g, U) = g[x] + SumFunctionOnSet(g, V)
    BY <2>2, <2>4, SumWithout
  <2>6. SumFunctionOnSet(f, V \cap T) <= SumFunctionOnSet(g, V)
    BY <2>1, <2>4
  <2>7. /\ SumFunctionOnSet(f, V \cap T) \in Nat
        /\ SumFunctionOnSet(g, V) \in Nat
    <3>1. IsFiniteSet(V) /\ IsFiniteSet(V \cap T)
      BY <2>2, FS_Subset
    <3> QED
      BY <2>4, <3>1, SumNat
  <2>8. CASE x \in T
    <3>1. SumFunctionOnSet(f, U \cap T) = f[x] + SumFunctionOnSet(f, (U \cap T) \ {x})
      BY <2>2, <2>4, <2>8, SumWithout
    <3>2. (U \cap T) \ {x} = V \cap T
      OBVIOUS
    <3>3. f[x] \in Nat /\ g[x] \in Nat /\ f[x] <= g[x]
      BY <2>4
    <3>4. ~ (SumFunctionOnSet(f, U \cap T) <= SumFunctionOnSet(g, U))
      OBVIOUS
    <3>5. SumFunctionOnSet(f, U \cap T) = f[x] + SumFunctionOnSet(f, V \cap T)
      BY <3>1, <3>2
    <3> HIDE DEF x, V, P
    <3> QED
      BY <2>5, <2>6, <2>7, <3>3, <3>4, <3>5
  <2>9. CASE x \notin T
    <3>1. U \cap T = V \cap T
      BY <2>9
    <3>2. g[x] \in Nat /\ ~ (SumFunctionOnSet(f, U \cap T) <= SumFunctionOnSet(g, U))
      BY <2>4
    <3> HIDE DEF x, V, P
    <3> QED
      BY <2>5, <2>6, <2>7, <3>1, <3>2
  <2> QED
    BY <2>8, <2>9
<1>2. S \notin P /\ S \cap T = T
  BY <1>1
<1> QED
  BY <1>2
\* A factor comes out of a sum.
LEMMA SumScale ==
  ASSUME NEW S, IsFiniteSet(S), NEW c \in Nat, NEW f, NEW g,
         \A x \in S : f[x] \in Nat /\ g[x] = c * f[x]
  PROVE  SumFunctionOnSet(g, S) = c * SumFunctionOnSet(f, S)
<1> DEFINE P == {T \in SUBSET S : SumFunctionOnSet(g, T) # c * SumFunctionOnSet(f, T)}
<1> SUFFICES ASSUME P # {} PROVE FALSE
  OBVIOUS
<1>1. PICK T \in P : \A U \in P : U \subseteq T => U = T
  <2>1. P \in SUBSET SUBSET S
    OBVIOUS
  <2> HIDE DEF P
  <2> QED
    BY <2>1, LeastSubset
<1>2. IsFiniteSet(T) /\ T \in SUBSET S /\ SumFunctionOnSet(g, T) # c * SumFunctionOnSet(f, T)
  BY FS_Subset
<1>3. T # {}
  <2>1. T = {} => SumFunctionOnSet(g, T) = 0 /\ SumFunctionOnSet(f, T) = 0
    BY <1>2, SumRest
  <2> QED
    BY <1>2, <2>1
<1>4. AllBut(T) \subseteq T /\ AllBut(T) # T /\ OneOf(T) \in S
  BY <1>2, <1>3, RestSmaller
<1>5. SumFunctionOnSet(g, AllBut(T)) = c * SumFunctionOnSet(f, AllBut(T))
  BY <1>1, <1>2, <1>4
<1>6. /\ SumFunctionOnSet(f, T) = f[OneOf(T)] + SumFunctionOnSet(f, AllBut(T))
      /\ SumFunctionOnSet(g, T) = g[OneOf(T)] + SumFunctionOnSet(g, AllBut(T))
  BY <1>2, <1>3, SumRest
<1>7. SumFunctionOnSet(f, AllBut(T)) \in Nat
  <2>1. IsFiniteSet(AllBut(T)) /\ \A x \in AllBut(T) : f[x] \in Nat
    BY <1>2, <1>4, FS_Subset
  <2> QED
    BY <2>1, SumNat
<1>8. f[OneOf(T)] \in Nat /\ g[OneOf(T)] = c * f[OneOf(T)]
  BY <1>4
<1> HIDE DEF P
<1>9. PICK a \in Nat, b \in Nat : a = f[OneOf(T)] /\ b = SumFunctionOnSet(f, AllBut(T))
  BY <1>7, <1>8
<1>10. c * (a + b) = c * a + c * b
  OBVIOUS
<1> QED
  BY <1>2, <1>5, <1>6, <1>8, <1>9, <1>10
\* A sum of natural numbers is at least each of them.
LEMMA SumAtLeast ==
  ASSUME NEW S, IsFiniteSet(S), NEW f, \A x \in S : f[x] \in Nat, NEW y \in S
  PROVE  f[y] <= SumFunctionOnSet(f, S)
<1>1. IsFiniteSet(S \ {y}) /\ \A x \in S : f[x] \in Int
  BY FS_Subset
<1>2. SumFunctionOnSet(f, S) = f[y] + SumFunctionOnSet(f, S \ {y})
  BY <1>1, SumWithout
<1>3. SumFunctionOnSet(f, S \ {y}) \in Nat
  BY <1>1, SumNat
<1> QED
  BY <1>2, <1>3

\* The sum over one element, and over none.
LEMMA SumOne ==
  ASSUME NEW f, NEW x, f[x] \in Int
  PROVE  SumFunctionOnSet(f, {x}) = f[x] /\ SumFunctionOnSet(f, {}) = 0
<1>1. IsFiniteSet({}) /\ IsFiniteSet({x})
  BY FS_EmptySet, FS_Singleton
<1>2. SumFunctionOnSet(f, {}) = 0
  BY <1>1, SumRest
<1>3. x \notin {} /\ {} \cup {x} = {x} /\ \A y \in {} \cup {x} : f[y] \in Int
  OBVIOUS
<1>4. SumFunctionOnSet(f, {} \cup {x}) = f[x] + SumFunctionOnSet(f, {})
  BY <1>1, <1>3, SumWith
<1> QED
  BY <1>2, <1>3, <1>4

\* The sum over two.
LEMMA SumTwo ==
  ASSUME NEW f, NEW x, NEW y, x # y, f[x] \in Int, f[y] \in Int
  PROVE  SumFunctionOnSet(f, {x} \cup {y}) = f[x] + f[y]
<1>1. IsFiniteSet({x}) /\ y \notin {x} /\ \A z \in {x} \cup {y} : f[z] \in Int
  BY FS_Singleton
<1>2. SumFunctionOnSet(f, {x} \cup {y}) = f[y] + SumFunctionOnSet(f, {x})
  BY <1>1, SumWith
<1> QED
  BY <1>2, SumOne
=============================================================================
