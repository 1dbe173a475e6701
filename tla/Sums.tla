-------------------------------- MODULE Sums --------------------------------
(***************************************************************************)
(* Facts about SumFunctionOnSet(w, S), the sum of w[x] for the x in S.      *)
(*                                                                         *)
(* The sum is a fold, hence a function defined by recursion on the subsets  *)
(* of S.  That such a function exists, and what it computes, is shown here  *)
(* by taking a smallest subset for which it fails.                          *)
(***************************************************************************)
EXTENDS FiniteSetsExt, FiniteSetTheorems, WellFoundedInduction, TLAPS

\* Induction on the subsets of a finite set S, without an operator as parameter: of the
\* subsets in B, one has no other below it.
LEMMA SmallestSubset ==
    ASSUME NEW S, IsFiniteSet(S), NEW B, B \subseteq SUBSET S, B # {}
    PROVE  \E T \in B : \A U \in B : U \subseteq T => U = T
<1>1. FiniteSubsetsOf(S) = SUBSET S
  BY FS_FiniteSubsetsOfFinite
<1>2. IsWellFoundedOn(StrictSubsetOrdering(S), SUBSET S)
  BY <1>1, FS_StrictSubsetOrderingWellFounded
<1>3. PICK T \in B : \A U \in B : ~ (<<U, T>> \in StrictSubsetOrdering(S))
  BY <1>2, WFMin
<1> QED
  BY <1>3 DEF StrictSubsetOrdering

\* The term a fold takes first, and the equation its function satisfies.
Picked(s) == CHOOSE x \in s : TRUE
NextSum(w, g, s) == IF s = {} THEN 0 ELSE w[Picked(s)] + g[s \ {Picked(s)}]
SumsUp(w, S, g) == g = [s \in SUBSET S |-> NextSum(w, g, s)]

\* The sum is the value at S of a function that sums up the subsets of S.
LEMMA SumUnfold ==
    ASSUME NEW w, NEW S
    PROVE  SumFunctionOnSet(w, S) = (CHOOSE g : SumsUp(w, S, g))[S]
BY Zenon DEF SumFunctionOnSet, FoldFunctionOnSet, MapThenFoldSet, SumsUp, NextSum, Picked

\* The term a fold takes first is a member of the set.
LEMMA PickedIn == ASSUME NEW s, s # {} PROVE Picked(s) \in s
BY DEF Picked

\* What such a function says of a subset does not depend on the set it is defined for.
LEMMA SumUnique ==
    ASSUME NEW w, NEW S, IsFiniteSet(S), NEW T \in SUBSET S, NEW g, NEW h,
           SumsUp(w, S, g), SumsUp(w, T, h)
    PROVE  \A s \in SUBSET T : g[s] = h[s]
<1> DEFINE B == {s \in SUBSET T : g[s] # h[s]}
<1>1. SUFFICES ASSUME B # {} PROVE FALSE
  OBVIOUS
<1>2. B \subseteq SUBSET S
  OBVIOUS
<1>3. PICK s \in B : \A u \in B : u \subseteq s => u = s
  <2> HIDE DEF B
  <2> QED  BY <1>1, <1>2, SmallestSubset
<1>4. g[s] = NextSum(w, g, s) /\ h[s] = NextSum(w, h, s) /\ s \in SUBSET T
  BY <1>3 DEF SumsUp
<1>5. s # {}
  BY <1>3, <1>4 DEF NextSum
<1>6. g[s \ {Picked(s)}] = h[s \ {Picked(s)}]
  BY <1>3, <1>5, PickedIn
<1> QED
  BY <1>3, <1>4, <1>5, <1>6 DEF NextSum

\* There is such a function, put together from those for the smaller sets.
LEMMA SumExists ==
    ASSUME NEW w, NEW S, IsFiniteSet(S)
    PROVE  \E g : SumsUp(w, S, g)
<1> DEFINE B == {T \in SUBSET S : ~ \E g : SumsUp(w, T, g)}
<1>1. SUFFICES ASSUME B # {} PROVE FALSE
  OBVIOUS
<1>2. PICK T \in B : \A U \in B : U \subseteq T => U = T
  <2>1. B \subseteq SUBSET S
    OBVIOUS
  <2> HIDE DEF B
  <2> QED  BY <1>1, <2>1, SmallestSubset
<1> DEFINE part(U) == CHOOSE g : SumsUp(w, U, g)
           below == [U \in SUBSET T |-> part(U)[U]]
           all == [s \in SUBSET T |-> NextSum(w, below, s)]
<1>3. \A U \in SUBSET T : U # T => SumsUp(w, U, part(U))
  <2>1. ASSUME NEW U \in SUBSET T, U # T PROVE \E g : SumsUp(w, U, g)
    BY <1>2, <2>1
  <2> QED BY <2>1
<1>4. ASSUME NEW U \in SUBSET T, U # T PROVE below[U] = NextSum(w, below, U)
  <2>1. SumsUp(w, U, part(U)) /\ below[U] = part(U)[U]
    BY <1>3, <1>4
  <2> DEFINE V == U \ {Picked(U)}
  <2>2. part(U)[U] = NextSum(w, part(U), U)
    <3> HIDE DEF part
    <3> QED BY <2>1 DEF SumsUp
  <2>3. CASE U = {}
    BY <2>1, <2>2, <2>3 DEF NextSum
  <2>4. CASE U # {}
    <3>1. V \in SUBSET U /\ V # T /\ V \in SUBSET T
      BY <1>4, <2>4, PickedIn
    <3>2. SumsUp(w, V, part(V))
      BY <1>3, <3>1
    <3>3. part(U)[V] = part(V)[V]
      <4>1. IsFiniteSet(U)
        BY <1>2, FS_Subset
      <4> HIDE DEF part, V
      <4> QED BY <2>1, <3>1, <3>2, <4>1, SumUnique
    <3>4. below[V] = part(V)[V]
      BY <3>1
    <3> HIDE DEF part, below
    <3> QED
      BY <2>1, <2>2, <2>4, <3>3, <3>4 DEF NextSum
  <2> QED
    BY <2>3, <2>4
<1>5. SumsUp(w, T, all)
  <2>1. ASSUME NEW s \in SUBSET T PROVE NextSum(w, below, s) = NextSum(w, all, s)
    <3>1. CASE s = {}
      BY <3>1 DEF NextSum
    <3>2. CASE s # {}
      <4> DEFINE v == s \ {Picked(s)}
      <4>1. v \in SUBSET T /\ v # T
        BY <3>2, PickedIn
      <4>2. all[v] = NextSum(w, below, v)
        BY <4>1
      <4>3. all[v] = below[v]
        BY <1>4, <4>1, <4>2
      <4> HIDE DEF all, below
      <4> QED
        BY <3>2, <4>3 DEF NextSum
    <3> QED BY <3>1, <3>2
  <2> QED
    BY <2>1 DEF SumsUp
<1> QED
  BY <1>2, <1>5

-----------------------------------------------------------------------------

\* Hence a sum is its first term and the sum of the others.
LEMMA SumEquation ==
    ASSUME NEW w, NEW S, IsFiniteSet(S)
    PROVE  SumFunctionOnSet(w, S) =
           IF S = {} THEN 0 ELSE w[Picked(S)] + SumFunctionOnSet(w, S \ {Picked(S)})
<1> DEFINE g == CHOOSE f : SumsUp(w, S, f)
           R == S \ {Picked(S)}
           h == CHOOSE f : SumsUp(w, R, f)
<1>1. SumsUp(w, S, g) /\ SumFunctionOnSet(w, S) = g[S]
  BY SumExists, SumUnfold
<1>2. IsFiniteSet(R)
  BY FS_Subset
<1>3. SumsUp(w, R, h) /\ SumFunctionOnSet(w, R) = h[R]
  <2> HIDE DEF R
  <2> QED
    BY <1>2, SumExists, SumUnfold
<1>4. g[R] = h[R]
  <2>1. R \in SUBSET S /\ R \in SUBSET R
    OBVIOUS
  <2> HIDE DEF g, h, R
  <2> QED
    BY <1>1, <1>3, <2>1, SumUnique
<1>5. g[S] = NextSum(w, g, S)
  <2> HIDE DEF g
  <2> QED
    BY <1>1 DEF SumsUp
<1> HIDE DEF g, h
<1> QED
  BY <1>1, <1>3, <1>4, <1>5 DEF NextSum

\* The empty sum is 0.
LEMMA SumEmpty == ASSUME NEW w PROVE SumFunctionOnSet(w, {}) = 0
BY SumEquation, FS_EmptySet

\* A sum depends on the values of its terms only.
LEMMA SumSame ==
    ASSUME NEW v, NEW w, NEW S, IsFiniteSet(S), \A x \in S : v[x] = w[x]
    PROVE  SumFunctionOnSet(v, S) = SumFunctionOnSet(w, S)
<1> DEFINE B == {T \in SUBSET S : SumFunctionOnSet(v, T) # SumFunctionOnSet(w, T)}
<1>1. SUFFICES ASSUME B # {} PROVE FALSE
  OBVIOUS
<1>2. PICK T \in B : \A U \in B : U \subseteq T => U = T
  <2>1. B \subseteq SUBSET S
    OBVIOUS
  <2> HIDE DEF B
  <2> QED
    BY <1>1, <2>1, SmallestSubset
<1> DEFINE R == T \ {Picked(T)}
<1>3. IsFiniteSet(T)
  BY <1>2, FS_Subset
<1>4. T # {}
  BY <1>2, SumEmpty
<1>5. Picked(T) \in T /\ R # T
  BY <1>4, PickedIn
<1>6. SumFunctionOnSet(v, R) = SumFunctionOnSet(w, R)
  BY <1>2, <1>5
<1> QED
  BY <1>2, <1>3, <1>4, <1>5, <1>6, SumEquation

\* A sum of integers is an integer.
LEMMA SumInt ==
    ASSUME NEW w, NEW S, IsFiniteSet(S), \A x \in S : w[x] \in Int
    PROVE  SumFunctionOnSet(w, S) \in Int
<1> DEFINE B == {T \in SUBSET S : SumFunctionOnSet(w, T) \notin Int}
<1>1. SUFFICES ASSUME B # {} PROVE FALSE
  OBVIOUS
<1>2. PICK T \in B : \A U \in B : U \subseteq T => U = T
  <2>1. B \subseteq SUBSET S
    OBVIOUS
  <2> HIDE DEF B
  <2> QED
    BY <1>1, <2>1, SmallestSubset
<1> DEFINE R == T \ {Picked(T)}
<1>3. IsFiniteSet(T)
  BY <1>2, FS_Subset
<1>4. T # {}
  <2>1. SumFunctionOnSet(w, {}) = 0
    BY SumEmpty
  <2>2. {} \notin B
    BY <2>1
  <2> HIDE DEF B
  <2> QED
    BY <1>2, <2>2
<1>5. Picked(T) \in T /\ R # T /\ w[Picked(T)] \in Int
  BY <1>2, <1>4, PickedIn
<1>6. SumFunctionOnSet(w, R) \in Int
  BY <1>2, <1>5
<1>7. SumFunctionOnSet(w, T) = w[Picked(T)] + SumFunctionOnSet(w, R)
  BY <1>3, <1>4, SumEquation
<1> HIDE DEF R
<1> QED
  BY <1>2, <1>5, <1>6, <1>7

\* Any term may be taken out of a sum, not only the first.
LEMMA SumRemove ==
    ASSUME NEW w, NEW S, IsFiniteSet(S), \A x \in S : w[x] \in Int, NEW y \in S
    PROVE  SumFunctionOnSet(w, S) = w[y] + SumFunctionOnSet(w, S \ {y})
<1> DEFINE B == {T \in SUBSET S : \E x \in T :
                   SumFunctionOnSet(w, T) # w[x] + SumFunctionOnSet(w, T \ {x})}
<1>1. SUFFICES ASSUME B # {} PROVE FALSE
  OBVIOUS
<1>2. PICK T \in B : \A U \in B : U \subseteq T => U = T
  <2>1. B \subseteq SUBSET S
    OBVIOUS
  <2> HIDE DEF B
  <2> QED
    BY <1>1, <2>1, SmallestSubset
<1>3. PICK x \in T : SumFunctionOnSet(w, T) # w[x] + SumFunctionOnSet(w, T \ {x})
  BY <1>2
<1> DEFINE p == Picked(T)
<1>4. p \in T
  BY <1>3, PickedIn
<1>5. IsFiniteSet(T) /\ IsFiniteSet(T \ {p}) /\ IsFiniteSet(T \ {x}) /\ IsFiniteSet(T \ {p, x})
  <2>1. T \subseteq S /\ T \ {p} \subseteq S /\ T \ {x} \subseteq S /\ T \ {p, x} \subseteq S
    BY <1>2
  <2> HIDE DEF p
  <2> QED
    BY <2>1, FS_Subset
<1>6. SumFunctionOnSet(w, T) = w[p] + SumFunctionOnSet(w, T \ {p})
  BY <1>3, <1>5, SumEquation
<1>7. x # p
  BY <1>3, <1>6
<1>8. ASSUME NEW z \in T, NEW q \in T, q # z
      PROVE  SumFunctionOnSet(w, T \ {z}) = w[q] + SumFunctionOnSet(w, T \ {z, q})
  <2>1. T \ {z} \subseteq T /\ T \ {z} # T /\ T \ {z} \in SUBSET S
    BY <1>2
  <2>2. T \ {z} \notin B
    BY <1>2, <2>1
  <2>3. q \in T \ {z} /\ (T \ {z}) \ {q} = T \ {z, q}
    BY <1>8
  <2> QED
    BY <2>1, <2>2, <2>3
<1>9. SumFunctionOnSet(w, T \ {p}) = w[x] + SumFunctionOnSet(w, T \ {p, x})
  BY <1>4, <1>7, <1>8
<1>10. SumFunctionOnSet(w, T \ {x}) = w[p] + SumFunctionOnSet(w, T \ {p, x})
  <2>1. {x, p} = {p, x}
    OBVIOUS
  <2> QED
    BY <1>4, <1>7, <1>8, <2>1
<1>11. SumFunctionOnSet(w, T \ {p, x}) \in Int
  <2>1. \A z \in T \ {p, x} : w[z] \in Int
    BY <1>2
  <2> HIDE DEF p
  <2> QED
    BY <1>5, <2>1, SumInt
<1>12. w[p] \in Int /\ w[x] \in Int
  BY <1>2, <1>4
<1> HIDE DEF p
<1> QED
  BY <1>3, <1>6, <1>9, <1>10, <1>11, <1>12

\* A set with one more element has that element's term more in its sum.
LEMMA SumAdd ==
    ASSUME NEW w, NEW S, IsFiniteSet(S), NEW y, y \notin S, \A x \in S \cup {y} : w[x] \in Int
    PROVE  SumFunctionOnSet(w, S \cup {y}) = w[y] + SumFunctionOnSet(w, S)
<1>1. IsFiniteSet(S \cup {y})
  BY FS_AddElement
<1>2. (S \cup {y}) \ {y} = S
  OBVIOUS
<1> QED
  BY <1>1, <1>2, SumRemove

\* Functions that differ at one point have sums that differ by as much.
LEMMA SumPoint ==
    ASSUME NEW v, NEW w, NEW S, IsFiniteSet(S), NEW y \in S,
           \A x \in S : v[x] \in Int /\ w[x] \in Int,
           \A x \in S \ {y} : v[x] = w[x]
    PROVE  SumFunctionOnSet(v, S) = SumFunctionOnSet(w, S) + (v[y] - w[y])
<1>1. IsFiniteSet(S \ {y})
  BY FS_Subset
<1>2. SumFunctionOnSet(v, S \ {y}) = SumFunctionOnSet(w, S \ {y})
  BY <1>1, SumSame
<1>3. /\ SumFunctionOnSet(v, S) = v[y] + SumFunctionOnSet(v, S \ {y})
      /\ SumFunctionOnSet(w, S) = w[y] + SumFunctionOnSet(w, S \ {y})
  BY SumRemove
<1>4. SumFunctionOnSet(w, S \ {y}) \in Int
  BY <1>1, SumInt
<1> QED
  BY <1>2, <1>3, <1>4

\* The greater the terms, the greater the sum.
LEMMA SumMonotone ==
    ASSUME NEW v, NEW w, NEW S, IsFiniteSet(S),
           \A x \in S : v[x] \in Int /\ w[x] \in Int /\ v[x] <= w[x]
    PROVE  SumFunctionOnSet(v, S) <= SumFunctionOnSet(w, S)
<1> DEFINE B == {T \in SUBSET S : ~ (SumFunctionOnSet(v, T) <= SumFunctionOnSet(w, T))}
<1>1. SUFFICES ASSUME B # {} PROVE FALSE
  OBVIOUS
<1>2. PICK T \in B : \A U \in B : U \subseteq T => U = T
  <2>1. B \subseteq SUBSET S
    OBVIOUS
  <2> HIDE DEF B
  <2> QED
    BY <1>1, <2>1, SmallestSubset
<1> DEFINE R == T \ {Picked(T)}
<1>3. IsFiniteSet(T) /\ IsFiniteSet(R)
  <2>1. T \subseteq S /\ R \subseteq S
    BY <1>2
  <2> HIDE DEF R
  <2> QED
    BY <2>1, FS_Subset
<1>4. T # {}
  <2>1. SumFunctionOnSet(v, {}) = 0 /\ SumFunctionOnSet(w, {}) = 0
    BY SumEmpty
  <2>2. {} \notin B
    BY <2>1
  <2> HIDE DEF B
  <2> QED
    BY <1>2, <2>2
<1>5. Picked(T) \in T /\ Picked(T) \in S /\ R # T /\ R \subseteq S
  BY <1>2, <1>4, PickedIn
<1>6. SumFunctionOnSet(v, R) <= SumFunctionOnSet(w, R)
  BY <1>2, <1>5
<1>7. /\ SumFunctionOnSet(v, T) = v[Picked(T)] + SumFunctionOnSet(v, R)
      /\ SumFunctionOnSet(w, T) = w[Picked(T)] + SumFunctionOnSet(w, R)
  BY <1>3, <1>4, SumEquation
<1>8. SumFunctionOnSet(v, R) \in Int /\ SumFunctionOnSet(w, R) \in Int
  <2> HIDE DEF R
  <2> QED
    BY <1>3, <1>5, SumInt
<1> HIDE DEF R
<1> QED
  BY <1>2, <1>5, <1>6, <1>7, <1>8

\* Sums are added term by term.
LEMMA SumPlus ==
    ASSUME NEW u, NEW v, NEW w, NEW S, IsFiniteSet(S),
           \A x \in S : v[x] \in Int /\ w[x] \in Int /\ u[x] = v[x] + w[x]
    PROVE  SumFunctionOnSet(u, S) = SumFunctionOnSet(v, S) + SumFunctionOnSet(w, S)
<1> DEFINE B == {T \in SUBSET S :
                   SumFunctionOnSet(u, T) # SumFunctionOnSet(v, T) + SumFunctionOnSet(w, T)}
<1>1. SUFFICES ASSUME B # {} PROVE FALSE
  OBVIOUS
<1>2. PICK T \in B : \A U \in B : U \subseteq T => U = T
  <2>1. B \subseteq SUBSET S
    OBVIOUS
  <2> HIDE DEF B
  <2> QED
    BY <1>1, <2>1, SmallestSubset
<1> DEFINE R == T \ {Picked(T)}
<1>3. IsFiniteSet(T) /\ IsFiniteSet(R)
  <2>1. T \subseteq S /\ R \subseteq S
    BY <1>2
  <2> HIDE DEF R
  <2> QED
    BY <2>1, FS_Subset
<1>4. T # {}
  <2>1. SumFunctionOnSet(u, {}) = 0 /\ SumFunctionOnSet(v, {}) = 0 /\ SumFunctionOnSet(w, {}) = 0
    BY SumEmpty
  <2>2. {} \notin B
    BY <2>1
  <2> HIDE DEF B
  <2> QED
    BY <1>2, <2>2
<1>5. Picked(T) \in T /\ Picked(T) \in S /\ R # T /\ R \subseteq S
  BY <1>2, <1>4, PickedIn
<1>6. SumFunctionOnSet(u, R) = SumFunctionOnSet(v, R) + SumFunctionOnSet(w, R)
  BY <1>2, <1>5
<1>7. /\ SumFunctionOnSet(u, T) = u[Picked(T)] + SumFunctionOnSet(u, R)
      /\ SumFunctionOnSet(v, T) = v[Picked(T)] + SumFunctionOnSet(v, R)
      /\ SumFunctionOnSet(w, T) = w[Picked(T)] + SumFunctionOnSet(w, R)
  BY <1>3, <1>4, SumEquation
<1>8. SumFunctionOnSet(v, R) \in Int /\ SumFunctionOnSet(w, R) \in Int
  <2> HIDE DEF R
  <2> QED
    BY <1>3, <1>5, SumInt
<1> HIDE DEF R
<1> QED
  BY <1>2, <1>5, <1>6, <1>7, <1>8

\* A common factor may be taken out of a sum.
LEMMA SumScale ==
    ASSUME NEW u, NEW v, NEW c \in Int, NEW S, IsFiniteSet(S),
           \A x \in S : v[x] \in Int /\ u[x] = c * v[x]
    PROVE  SumFunctionOnSet(u, S) = c * SumFunctionOnSet(v, S)
<1> DEFINE B == {T \in SUBSET S : SumFunctionOnSet(u, T) # c * SumFunctionOnSet(v, T)}
<1>1. SUFFICES ASSUME B # {} PROVE FALSE
  OBVIOUS
<1>2. PICK T \in B : \A U \in B : U \subseteq T => U = T
  <2>1. B \subseteq SUBSET S
    OBVIOUS
  <2> HIDE DEF B
  <2> QED
    BY <1>1, <2>1, SmallestSubset
<1> DEFINE R == T \ {Picked(T)}
<1>3. IsFiniteSet(T) /\ IsFiniteSet(R)
  <2>1. T \subseteq S /\ R \subseteq S
    BY <1>2
  <2> HIDE DEF R
  <2> QED
    BY <2>1, FS_Subset
<1>4. T # {}
  <2>1. SumFunctionOnSet(u, {}) = 0 /\ SumFunctionOnSet(v, {}) = 0 /\ c * 0 = 0
    BY SumEmpty
  <2>2. {} \notin B
    BY <2>1
  <2> HIDE DEF B
  <2> QED
    BY <1>2, <2>2
<1>5. Picked(T) \in T /\ Picked(T) \in S /\ R # T /\ R \subseteq S
  BY <1>2, <1>4, PickedIn
<1>6. SumFunctionOnSet(u, R) = c * SumFunctionOnSet(v, R)
  BY <1>2, <1>5
<1>7. /\ SumFunctionOnSet(u, T) = u[Picked(T)] + SumFunctionOnSet(u, R)
      /\ SumFunctionOnSet(v, T) = v[Picked(T)] + SumFunctionOnSet(v, R)
  BY <1>3, <1>4, SumEquation
<1>8. SumFunctionOnSet(v, R) \in Int
  <2> HIDE DEF R
  <2> QED
    BY <1>3, <1>5, SumInt
<1>9. \A a, b \in Int : c * (a + b) = c * a + c * b
  OBVIOUS
<1> HIDE DEF R
<1> QED
  BY <1>2, <1>5, <1>6, <1>7, <1>8, <1>9

\* A set may be summed in two parts.
LEMMA SumSplit ==
    ASSUME NEW w, NEW S, IsFiniteSet(S), \A x \in S : w[x] \in Int, NEW A \in SUBSET S
    PROVE  SumFunctionOnSet(w, S) = SumFunctionOnSet(w, A) + SumFunctionOnSet(w, S \ A)
<1> DEFINE B == {T \in SUBSET S :
                   SumFunctionOnSet(w, S) # SumFunctionOnSet(w, T) + SumFunctionOnSet(w, S \ T)}
<1>1. SUFFICES ASSUME B # {} PROVE FALSE
  OBVIOUS
<1>2. PICK T \in B : \A U \in B : U \subseteq T => U = T
  <2>1. B \subseteq SUBSET S
    OBVIOUS
  <2> HIDE DEF B
  <2> QED
    BY <1>1, <2>1, SmallestSubset
<1> DEFINE R == T \ {Picked(T)}
<1>3. IsFiniteSet(T) /\ IsFiniteSet(R)
  <2>1. T \subseteq S /\ R \subseteq S
    BY <1>2
  <2> HIDE DEF R
  <2> QED
    BY <2>1, FS_Subset
<1>4. T # {}
  <2>1. /\ SumFunctionOnSet(w, {}) = 0 /\ SumFunctionOnSet(w, S) \in Int
        /\ S \ {} = S
    BY SumEmpty, SumInt
  <2>2. {} \notin B
    BY <2>1
  <2> HIDE DEF B
  <2> QED
    BY <1>2, <2>2
<1>5. Picked(T) \in T /\ Picked(T) \in S /\ R # T /\ R \subseteq S
  BY <1>2, <1>4, PickedIn
<1>6. SumFunctionOnSet(w, S) = SumFunctionOnSet(w, R) + SumFunctionOnSet(w, S \ R)
  BY <1>2, <1>5
<1>7. SumFunctionOnSet(w, T) = w[Picked(T)] + SumFunctionOnSet(w, R)
  BY <1>3, <1>4, SumEquation
<1>8. SumFunctionOnSet(w, S \ R) = w[Picked(T)] + SumFunctionOnSet(w, S \ T)
  <2>1. IsFiniteSet(S \ R)
    BY FS_Subset
  <2>2. Picked(T) \in S \ R /\ (S \ R) \ {Picked(T)} = S \ T
    BY <1>2, <1>5
  <2>3. \A x \in S \ R : w[x] \in Int
    OBVIOUS
  <2> HIDE DEF R
  <2> QED
    BY <2>1, <2>2, <2>3, SumRemove
<1>9. /\ SumFunctionOnSet(w, R) \in Int /\ SumFunctionOnSet(w, S \ T) \in Int
      /\ w[Picked(T)] \in Int
  <2>1. IsFiniteSet(S \ T)
    BY FS_Subset
  <2>2. \A x \in R : w[x] \in Int
    BY <1>5
  <2> HIDE DEF R
  <2> QED
    BY <1>3, <1>5, <2>1, <2>2, SumInt
<1> HIDE DEF R
<1> QED
  BY <1>2, <1>6, <1>7, <1>8, <1>9

\* The values of a function on a finite set are finitely many.
LEMMA ImageIsFinite ==
    ASSUME NEW f, NEW S, IsFiniteSet(S)
    PROVE  IsFiniteSet({f[x] : x \in S})
<1> DEFINE T == {f[x] : x \in S}
           g == [x \in S |-> f[x]]
<1>1. g \in Surjection(S, T)
  BY DEF Surjection
<1> HIDE DEF g, T
<1>2. IsFiniteSet(T)
  BY <1>1, FS_Surjection
<1> QED
  BY <1>2 DEF T

\* The terms of a sum may be renamed, as long as no two get one name.
LEMMA SumImage ==
    ASSUME NEW v, NEW w, NEW f, NEW S, IsFiniteSet(S),
           \A x, y \in S : f[x] = f[y] => x = y,
           \A x \in S : v[x] = w[f[x]] /\ v[x] \in Int
    PROVE  SumFunctionOnSet(v, S) = SumFunctionOnSet(w, {f[x] : x \in S})
<1> DEFINE Im(T) == {f[x] : x \in T}
           B == {T \in SUBSET S : SumFunctionOnSet(v, T) # SumFunctionOnSet(w, Im(T))}
<1>1. SUFFICES ASSUME B # {} PROVE FALSE
  OBVIOUS
<1>2. PICK T \in B : \A U \in B : U \subseteq T => U = T
  <2>1. B \subseteq SUBSET S
    OBVIOUS
  <2> HIDE DEF B
  <2> QED
    BY <1>1, <2>1, SmallestSubset
<1> DEFINE R == T \ {Picked(T)}
<1>3. IsFiniteSet(T) /\ IsFiniteSet(R)
  <2>1. T \subseteq S /\ R \subseteq S
    BY <1>2
  <2> HIDE DEF R
  <2> QED
    BY <2>1, FS_Subset
<1>4. T # {}
  <2>1. SumFunctionOnSet(v, {}) = 0 /\ SumFunctionOnSet(w, {}) = 0 /\ Im({}) = {}
    BY SumEmpty
  <2>2. {} \notin B
    BY <2>1
  <2> HIDE DEF B
  <2> QED
    BY <1>2, <2>2
<1>5. Picked(T) \in T /\ Picked(T) \in S /\ R # T /\ R \subseteq S
  BY <1>2, <1>4, PickedIn
<1>6. SumFunctionOnSet(v, R) = SumFunctionOnSet(w, Im(R))
  BY <1>2, <1>5
<1>7. SumFunctionOnSet(v, T) = v[Picked(T)] + SumFunctionOnSet(v, R)
  BY <1>3, <1>4, SumEquation
<1>8. SumFunctionOnSet(w, Im(T)) = w[f[Picked(T)]] + SumFunctionOnSet(w, Im(R))
  <2>1. IsFiniteSet(Im(T))
    BY <1>3, ImageIsFinite
  <2>2. f[Picked(T)] \in Im(T) /\ Im(T) \ {f[Picked(T)]} = Im(R)
    BY <1>2, <1>5
  <2>3. \A y \in Im(T) : w[y] \in Int
    BY <1>2
  <2> HIDE DEF R, Im
  <2> QED
    BY <2>1, <2>2, <2>3, SumRemove
<1> QED
  BY <1>2, <1>5, <1>6, <1>7, <1>8
-----------------------------------------------------------------------------

\* A sum of zeros is 0.
LEMMA SumZero ==
    ASSUME NEW w, NEW S, IsFiniteSet(S), \A x \in S : w[x] = 0
    PROVE  SumFunctionOnSet(w, S) = 0
<1> DEFINE s == SumFunctionOnSet(w, S)
<1>1. s = s + s
  BY SumPlus
<1>2. s \in Int
  BY SumInt
<1>3. \A k \in Int : k = k + k => k = 0
  OBVIOUS
<1> QED
  BY <1>1, <1>2, <1>3

\* A sum of natural numbers is a natural number.
LEMMA SumNat ==
    ASSUME NEW w, NEW S, IsFiniteSet(S), \A x \in S : w[x] \in Nat
    PROVE  SumFunctionOnSet(w, S) \in Nat
<1> DEFINE z == [x \in S |-> 0]
<1>1. SumFunctionOnSet(z, S) = 0
  BY SumZero
<1>2. SumFunctionOnSet(z, S) <= SumFunctionOnSet(w, S)
  BY SumMonotone
<1>3. SumFunctionOnSet(w, S) \in Int
  BY SumInt
<1> QED
  BY <1>1, <1>2, <1>3

=============================================================================
