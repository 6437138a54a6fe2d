------------------------ MODULE AcademyVestingProofs ------------------------
(***************************************************************************)
(* Proofs about the vesting contract, for every set of accounts, all terms *)
(* and batches, and every bound.                                           *)
(***************************************************************************)
EXTENDS AcademyVesting, Folds, FiniteSetTheorems, TLAPS

\* Nothing is granted before init ran, which is why init may reset the counter.
QuietBeforeInit == admin = NoAccount => cnt = 0

\* The inductive invariant.
IInv == TypeOK /\ QuietBeforeInit /\ PaidMatchesFlags

-----------------------------------------------------------------------------
\* Division of naturals: the quotient of a larger number is no smaller.
LEMMA DivMonotone ==
  ASSUME NEW a \in Nat, NEW b \in Nat, NEW d \in Nat \ {0}, a <= b
  PROVE  a \div d \in Nat /\ a \div d <= b \div d
OBVIOUS

\* A part of the duration earns at most the whole amount.
LEMMA DivBounded ==
  ASSUME NEW a \in Nat, NEW x \in Nat, NEW d \in Nat \ {0}, x <= d
  PROVE  (a * x) \div d \in 0..a
<1>1. a * x \in Nat /\ (a * x) \div d \in Nat
  OBVIOUS
<1>2. (a * x) \div d <= a
  OBVIOUS
<1>3. QED
  BY <1>1, <1>2

\* A longer part earns no less.
LEMMA DivGrows ==
  ASSUME NEW a \in Nat, NEW x \in Nat, NEW y \in Nat, NEW d \in Nat \ {0}, x <= y
  PROVE  (a * x) \div d <= (a * y) \div d
<1>1. a * x \in Nat /\ a * y \in Nat /\ a * x <= a * y
  OBVIOUS
<1> DEFINE m == a * x
<1> DEFINE n == a * y
<1>2. m \in Nat /\ n \in Nat /\ m <= n
  BY <1>1
<1> HIDE DEF m, n
<1>3. m \div d <= n \div d
  BY <1>2, DivMonotone
<1>4. QED
  BY <1>3 DEF m, n

-----------------------------------------------------------------------------
\* Sums over finite sets. The fold behind SumFunctionOnSet is a function that is
\* defined by recursion over the subsets of the set; what is true of every
\* subset is shown by looking at a smallest one it would be false of.

\* A set of subsets of a finite set has a smallest member.
LEMMA LeastSubset ==
  ASSUME NEW S, IsFiniteSet(S),
         NEW B, B \subseteq SUBSET S, B # {}
  PROVE  \E T \in B : \A U \in B : U \subseteq T => U = T
  <1>1. FiniteSubsetsOf(S) = SUBSET S
    BY FS_FiniteSubsetsOfFinite
  <1>2. IsWellFoundedOn(StrictSubsetOrdering(S), SUBSET S)
    BY <1>1, FS_StrictSubsetOrderingWellFounded
  <1>3. PICK T \in B : \A U \in B : ~(<<U, T>> \in StrictSubsetOrdering(S))
    BY <1>2, WFMin
  <1>4. ASSUME NEW U \in B, U \subseteq T, U # T
        PROVE  <<U, T>> \in StrictSubsetOrdering(S)
    BY <1>4 DEF StrictSubsetOrdering
  <1>5. \A U \in B : U \subseteq T => U = T
    BY <1>3, <1>4
  <1> QED
    BY <1>5

\* The element the fold takes first.
Chosen(s) == CHOOSE x \in s : TRUE

\* g gives every subset of S the sum of f over it: the equation of the fold.
Sums(g, f, S) ==
  g = [s \in SUBSET S |->
         IF s = {} THEN 0 ELSE f[Chosen(s)] + g[s \ {Chosen(s)}]]

LEMMA ChosenIn == ASSUME NEW s, s # {} PROVE Chosen(s) \in s
  BY DEF Chosen

\* A sum is what a solution of that equation gives the whole set.
LEMMA SumMeans ==
  ASSUME NEW f, NEW S
  PROVE  SumFunctionOnSet(f, S) = (CHOOSE g : Sums(g, f, S))[S]
  BY DEF SumFunctionOnSet, FoldFunctionOnSet, MapThenFoldSet, Sums, Chosen

\* The equation has at most one solution.
LEMMA SumsUnique ==
  ASSUME NEW S, IsFiniteSet(S), NEW f,
         NEW g, Sums(g, f, S), NEW h, Sums(h, f, S)
  PROVE  g = h
  <1> DEFINE B == {s \in SUBSET S : g[s] # h[s]}
  <1>1. ASSUME B # {} PROVE FALSE
    <2>1. PICK T \in B : \A U \in B : U \subseteq T => U = T
      <3> B \subseteq SUBSET S
        OBVIOUS
      <3> HIDE DEF B
      <3> QED BY <1>1, LeastSubset
    <2>2. T # {}
      BY DEF Sums
    <2>3. Chosen(T) \in T
      BY <2>2, ChosenIn
    <2> DEFINE U == T \ {Chosen(T)}
    <2>4. U \in SUBSET S /\ U \subseteq T /\ U # T
      BY <2>3
    <2>5. g[U] = h[U]
      BY <2>1, <2>4
    <2>6. g[T] = f[Chosen(T)] + g[U] /\ h[T] = f[Chosen(T)] + h[U]
      <3> T \in SUBSET S
        OBVIOUS
      <3> QED BY <2>2 DEF Sums
    <2> QED
      BY <2>5, <2>6
  <1> QED
    BY <1>1 DEF Sums

\* A solution solves the equation for every subset, too.
LEMMA SumsRestrict ==
  ASSUME NEW S, NEW f, NEW g, Sums(g, f, S), NEW T \in SUBSET S
  PROVE  Sums([s \in SUBSET T |-> g[s]], f, T)
  <1> DEFINE h == [s \in SUBSET T |-> g[s]]
  <1>1. ASSUME NEW s \in SUBSET T
        PROVE  h[s] = IF s = {} THEN 0 ELSE f[Chosen(s)] + h[s \ {Chosen(s)}]
    <2>1. s \in SUBSET S /\ s \ {Chosen(s)} \in SUBSET T
      OBVIOUS
    <2>2. g[s] = IF s = {} THEN 0 ELSE f[Chosen(s)] + g[s \ {Chosen(s)}]
      BY <2>1 DEF Sums
    <2> QED
      BY <2>1, <2>2
  <1> QED
    BY <1>1 DEF Sums

\* The equation has a solution, and so SumFunctionOnSet is one.
LEMMA SumsExists ==
  ASSUME NEW S, IsFiniteSet(S), NEW f
  PROVE  \E g : Sums(g, f, S)
  <1> DEFINE B == {s \in SUBSET S : ~\E g : Sums(g, f, s)}
  <1>1. ASSUME B # {} PROVE FALSE
    <2>1. PICK T \in B : \A U \in B : U \subseteq T => U = T
      <3> B \subseteq SUBSET S
        OBVIOUS
      <3> HIDE DEF B
      <3> QED BY <1>1, LeastSubset
    <2> DEFINE Less == (SUBSET T) \ {T}
               sol(s) == CHOOSE g : Sums(g, f, s)
               val(s) == IF s \in Less THEN sol(s)[s]
                         ELSE IF s = {} THEN 0 
                         ELSE f[Chosen(s)] + sol(s \ {Chosen(s)})[s \ {Chosen(s)}]
               g == [s \in SUBSET T |-> val(s)]
    <2>2. ASSUME NEW s \in Less PROVE Sums(sol(s), f, s)
      <3>1. \E x : Sums(x, f, s)
        BY <2>1
      <3> QED BY <3>1
    <2>3. ASSUME NEW s \in Less, s # {}
          PROVE  sol(s)[s] = f[Chosen(s)] + sol(s \ {Chosen(s)})[s \ {Chosen(s)}]
      <3> DEFINE u == s \ {Chosen(s)}
      <3>1. Chosen(s) \in s
        BY <2>3, ChosenIn
      <3>2. u \in Less /\ u \in SUBSET s
        BY <3>1
      <3>3. Sums([x \in SUBSET u |-> sol(s)[x]], f, u)
        BY <2>2, <3>2, SumsRestrict
      <3>4. Sums(sol(u), f, u)
        BY <2>2, <3>2
      <3>5. IsFiniteSet(u)
        BY <3>2, FS_Subset
      <3>6. sol(u) = [x \in SUBSET u |-> sol(s)[x]]
        <4> HIDE DEF sol, u
        <4> QED BY <3>3, <3>4, <3>5, SumsUnique
      <3>7. sol(u)[u] = sol(s)[u]
        <4> u \in SUBSET u
          OBVIOUS
        <4> HIDE DEF sol, u
        <4> QED BY <3>6
      <3>8. sol(s)[s] = f[Chosen(s)] + sol(s)[u]
        <4>1. Sums(sol(s), f, s)
          BY <2>2
        <4> HIDE DEF sol
        <4> QED BY <4>1, <2>3 DEF Sums
      <3> QED BY <3>7, <3>8
    <2>4. ASSUME NEW s \in SUBSET T
          PROVE  g[s] = IF s = {} THEN 0 ELSE f[Chosen(s)] + g[s \ {Chosen(s)}]
      <3>1. CASE s = {} /\ s \in Less
        <4>1. Sums(sol(s), f, s)
          BY <3>1, <2>2
        <4> HIDE DEF sol
        <4> QED BY <3>1, <4>1 DEF Sums
      <3>2. CASE s = {} /\ s \notin Less
        BY <3>2
      <3>3. CASE s # {}
        <4> DEFINE u == s \ {Chosen(s)}
        <4>1. Chosen(s) \in s
          BY <3>3, ChosenIn
        <4>2. u \in Less
          BY <4>1
        <4>3. g[u] = sol(u)[u]
          <5> HIDE DEF sol, u
          <5> QED BY <4>2
        <4>4. g[s] = f[Chosen(s)] + sol(u)[u]
          <5>1. val(s) = f[Chosen(s)] + sol(u)[u]
            BY <2>3, <3>3
          <5> HIDE DEF val, u
          <5> QED BY <5>1
        <4> HIDE DEF g
        <4> QED BY <3>3, <4>3, <4>4
      <3> QED BY <3>1, <3>2, <3>3
    <2>5. Sums(g, f, T)
      <3> HIDE DEF val
      <3> QED BY <2>4 DEF Sums
    <2> QED
      BY <2>5
  <1> QED
    BY <1>1

\* A sum can be taken element by element, the chosen one first.
LEMMA SumEquation ==
  ASSUME NEW S, IsFiniteSet(S), NEW f
  PROVE  SumFunctionOnSet(f, S) =
           IF S = {} THEN 0
           ELSE f[Chosen(S)] + SumFunctionOnSet(f, S \ {Chosen(S)})
  <1> DEFINE g == CHOOSE g : Sums(g, f, S)
             T == S \ {Chosen(S)}
             h == CHOOSE h : Sums(h, f, T)
  <1>1. Sums(g, f, S)
    BY SumsExists
  <1>2. IsFiniteSet(T) /\ T \in SUBSET S
    BY FS_RemoveElement
  <1>3. Sums(h, f, T)
    BY <1>2, SumsExists
  <1>4. h = [s \in SUBSET T |-> g[s]]
    <2>1. Sums([s \in SUBSET T |-> g[s]], f, T)
      BY <1>1, <1>2, SumsRestrict
    <2> HIDE DEF g, h, T
    <2> QED BY <2>1, <1>2, <1>3, SumsUnique
  <1>5. h[T] = g[T]
    <2> T \in SUBSET T
      OBVIOUS
    <2> HIDE DEF g, h, T
    <2> QED BY <1>4
  <1>6. g[S] = IF S = {} THEN 0 ELSE f[Chosen(S)] + g[T]
    <2> HIDE DEF g
    <2> QED BY <1>1 DEF Sums
  <1>7. SumFunctionOnSet(f, S) = g[S] /\ SumFunctionOnSet(f, T) = h[T]
    BY SumMeans
  <1> QED
    BY <1>5, <1>6, <1>7

LEMMA SumEmpty == ASSUME NEW f PROVE SumFunctionOnSet(f, {}) = 0
  BY SumEquation, FS_EmptySet

\* The sum of integers is an integer.
LEMMA SumInt ==
  ASSUME NEW S, IsFiniteSet(S), NEW f, \A x \in S : f[x] \in Int
  PROVE  SumFunctionOnSet(f, S) \in Int
  <1> DEFINE B == {T \in SUBSET S : SumFunctionOnSet(f, T) \notin Int}
  <1>1. ASSUME B # {} PROVE FALSE
    <2>1. PICK T \in B : \A U \in B : U \subseteq T => U = T
      <3> B \subseteq SUBSET S
        OBVIOUS
      <3> HIDE DEF B
      <3> QED BY <1>1, LeastSubset
    <2>2. T # {} /\ IsFiniteSet(T)
      <3>1. T # {}
        BY SumEmpty
      <3>2. IsFiniteSet(T)
        BY FS_Subset
      <3> QED BY <3>1, <3>2
    <2>3. Chosen(T) \in T
      BY <2>2, ChosenIn
    <2>4. SumFunctionOnSet(f, T \ {Chosen(T)}) \in Int
      BY <2>1, <2>3
    <2>5. SumFunctionOnSet(f, T) = f[Chosen(T)] + SumFunctionOnSet(f, T \ {Chosen(T)})
      BY <2>2, SumEquation
    <2> QED
      BY <2>3, <2>4, <2>5
  <1> QED
    BY <1>1

\* Any element can be taken out of a sum first.
LEMMA SumRemove ==
  ASSUME NEW S, IsFiniteSet(S), NEW f, \A x \in S : f[x] \in Int, NEW y \in S
  PROVE  SumFunctionOnSet(f, S) = f[y] + SumFunctionOnSet(f, S \ {y})
  <1> DEFINE Bad(T) == \E x \in T : SumFunctionOnSet(f, T)
                                      # f[x] + SumFunctionOnSet(f, T \ {x})
             B == {T \in SUBSET S : Bad(T)}
  <1>1. ASSUME B # {} PROVE FALSE
    <2>1. PICK T \in B : \A U \in B : U \subseteq T => U = T
      <3> B \subseteq SUBSET S
        OBVIOUS
      <3> HIDE DEF B
      <3> QED BY <1>1, LeastSubset
    <2>2. PICK x \in T : SumFunctionOnSet(f, T) # f[x] + SumFunctionOnSet(f, T \ {x})
      OBVIOUS
    <2> DEFINE c == Chosen(T)
               U == T \ {c}
               V == T \ {x}
               W == T \ {c, x}
    <2>3. IsFiniteSet(T) /\ IsFiniteSet(U) /\ IsFiniteSet(V) /\ IsFiniteSet(W)
      <3>1. T \in SUBSET S /\ U \in SUBSET S /\ V \in SUBSET S /\ W \in SUBSET S
        OBVIOUS
      <3> HIDE DEF U, V, W
      <3> QED BY <3>1, FS_Subset
    <2>4. c \in T
      BY <2>2, ChosenIn
    <2>5. SumFunctionOnSet(f, T) = f[c] + SumFunctionOnSet(f, U)
      BY <2>2, <2>3, SumEquation
    <2>6. c # x
      BY <2>2, <2>5
    <2>7. ~Bad(U) /\ ~Bad(V)
      <3>1. U \in SUBSET S /\ V \in SUBSET S /\ U # T /\ V # T
        BY <2>4
      <3> HIDE DEF Bad, U, V
      <3>2. U \notin B /\ V \notin B
        <4> HIDE DEF B
        <4> QED BY <2>1, <3>1 DEF U, V
      <3> QED BY <3>1, <3>2
    <2>8. SumFunctionOnSet(f, U) = f[x] + SumFunctionOnSet(f, W)
      <3>1. x \in U /\ U \ {x} = W
        BY <2>6
      <3> QED BY <2>7, <3>1
    <2>9. SumFunctionOnSet(f, V) = f[c] + SumFunctionOnSet(f, W)
      <3>1. c \in V /\ V \ {c} = W
        BY <2>4, <2>6
      <3> QED BY <2>7, <3>1
    <2>10. f[c] \in Int /\ f[x] \in Int /\ SumFunctionOnSet(f, W) \in Int
      <3>1. \A z \in W : f[z] \in Int
        OBVIOUS
      <3> HIDE DEF W, c
      <3> QED BY <2>3, <2>4, <3>1, SumInt
    <2> HIDE DEF c, U, V, W
    <2> QED
      BY <2>2, <2>5, <2>8, <2>9, <2>10 DEF V
  <1> QED
    BY <1>1

\* A sum of functions that agree, and of functions below a third one.
LEMMA SumSame ==
  ASSUME NEW S, IsFiniteSet(S), NEW f, NEW h, \A x \in S : f[x] = h[x]
  PROVE  SumFunctionOnSet(f, S) = SumFunctionOnSet(h, S)
  <1> DEFINE B == {T \in SUBSET S : SumFunctionOnSet(f, T) # SumFunctionOnSet(h, T)}
  <1>1. ASSUME B # {} PROVE FALSE
    <2>1. PICK T \in B : \A U \in B : U \subseteq T => U = T
      <3> B \subseteq SUBSET S
        OBVIOUS
      <3> HIDE DEF B
      <3> QED BY <1>1, LeastSubset
    <2>2. T # {} /\ IsFiniteSet(T)
      <3>1. T # {}
        BY SumEmpty
      <3>2. IsFiniteSet(T)
        BY FS_Subset
      <3> QED BY <3>1, <3>2
    <2>3. Chosen(T) \in T
      BY <2>2, ChosenIn
    <2>4. SumFunctionOnSet(f, T \ {Chosen(T)}) = SumFunctionOnSet(h, T \ {Chosen(T)})
      BY <2>1, <2>3
    <2>5. /\ SumFunctionOnSet(f, T) = f[Chosen(T)] + SumFunctionOnSet(f, T \ {Chosen(T)})
          /\ SumFunctionOnSet(h, T) = h[Chosen(T)] + SumFunctionOnSet(h, T \ {Chosen(T)})
      BY <2>2, SumEquation
    <2> QED
      BY <2>3, <2>4, <2>5
  <1> QED
    BY <1>1

\* If f and h add up to at most k everywhere, so do their sums.
LEMMA SumBelow ==
  ASSUME NEW S, IsFiniteSet(S), NEW f, NEW h, NEW k,
         \A x \in S : /\ f[x] \in Int /\ h[x] \in Int /\ k[x] \in Int
                      /\ f[x] + h[x] <= k[x]
  PROVE  SumFunctionOnSet(f, S) + SumFunctionOnSet(h, S) <= SumFunctionOnSet(k, S)
  <1> DEFINE P(T) == SumFunctionOnSet(f, T) + SumFunctionOnSet(h, T)
                       <= SumFunctionOnSet(k, T)
             B == {T \in SUBSET S : ~P(T)}
  <1>1. ASSUME B # {} PROVE FALSE
    <2>1. PICK T \in B : \A U \in B : U \subseteq T => U = T
      <3> B \subseteq SUBSET S
        OBVIOUS
      <3> HIDE DEF B
      <3> QED BY <1>1, LeastSubset
    <2>2. T # {} /\ IsFiniteSet(T)
      <3>1. T # {}
        BY SumEmpty
      <3>2. IsFiniteSet(T)
        BY FS_Subset
      <3> QED BY <3>1, <3>2
    <2> DEFINE c == Chosen(T)
               U == T \ {c}
    <2>3. c \in T /\ c \in S
      BY <2>2, ChosenIn
    <2>4. P(U)
      BY <2>1, <2>3
    <2>5. /\ SumFunctionOnSet(f, T) = f[c] + SumFunctionOnSet(f, U)
          /\ SumFunctionOnSet(h, T) = h[c] + SumFunctionOnSet(h, U)
          /\ SumFunctionOnSet(k, T) = k[c] + SumFunctionOnSet(k, U)
      BY <2>2, SumEquation
    <2>6. /\ SumFunctionOnSet(f, U) \in Int
          /\ SumFunctionOnSet(h, U) \in Int
          /\ SumFunctionOnSet(k, U) \in Int
      <3>1. \A x \in U : f[x] \in Int /\ h[x] \in Int /\ k[x] \in Int
        OBVIOUS
      <3>2. IsFiniteSet(U)
        BY <2>2, FS_RemoveElement
      <3> HIDE DEF U
      <3> QED BY <3>1, <3>2, SumInt
    <2>7. ~P(T)
      OBVIOUS
    <2>8. /\ f[c] \in Int /\ h[c] \in Int /\ k[c] \in Int
          /\ f[c] + h[c] <= k[c]
      BY <2>3
    <2> HIDE DEF c, U
    <2> QED
      BY <2>4, <2>5, <2>6, <2>7, <2>8
  <1> QED
    BY <1>1

\* A sum of nothing but zeros.
LEMMA SumZero ==
  ASSUME NEW S, IsFiniteSet(S), NEW f, \A x \in S : f[x] = 0
  PROVE  SumFunctionOnSet(f, S) = 0
  <1> DEFINE B == {T \in SUBSET S : SumFunctionOnSet(f, T) # 0}
  <1>1. ASSUME B # {} PROVE FALSE
    <2>1. PICK T \in B : \A U \in B : U \subseteq T => U = T
      <3> B \subseteq SUBSET S
        OBVIOUS
      <3> HIDE DEF B
      <3> QED BY <1>1, LeastSubset
    <2>2. T # {} /\ IsFiniteSet(T)
      <3>1. T # {}
        BY SumEmpty
      <3>2. IsFiniteSet(T)
        BY FS_Subset
      <3> QED BY <3>1, <3>2
    <2>3. Chosen(T) \in T
      BY <2>2, ChosenIn
    <2>4. SumFunctionOnSet(f, T \ {Chosen(T)}) = 0
      BY <2>1, <2>3
    <2>5. SumFunctionOnSet(f, T) = f[Chosen(T)] + SumFunctionOnSet(f, T \ {Chosen(T)})
      BY <2>2, SumEquation
    <2> QED
      BY <2>3, <2>4, <2>5
  <1> QED
    BY <1>1

\* How many positions of I hold g.
CountOf(g, ids, I) == Cardinality({i \in I : ids[i] = g})

\* A sum over positions, collected by the values at them: a value counts as
\* often as it occurs.
LEMMA SumByValue ==
  ASSUME NEW I, IsFiniteSet(I), NEW D, IsFiniteSet(D), NEW ids \in [I -> D],
         NEW v, \A g \in D : v[g] \in Int,
         NEW a, \A i \in I : a[i] = v[ids[i]],
         NEW b, \A g \in D : b[g] = CountOf(g, ids, I) * v[g]
  PROVE  SumFunctionOnSet(a, I) = SumFunctionOnSet(b, D)
  <1> DEFINE At(T, g) == {i \in T : ids[i] = g}
             part(T) == [g \in D |-> Cardinality(At(T, g)) * v[g]]
             P(T) == SumFunctionOnSet(a, T) = SumFunctionOnSet(part(T), D)
             B == {T \in SUBSET I : ~P(T)}
  <1>1. ASSUME NEW T \in SUBSET I, NEW g \in D
        PROVE  Cardinality(At(T, g)) \in Nat /\ IsFiniteSet(At(T, g))
    <2>1. At(T, g) \in SUBSET I
      OBVIOUS
    <2>2. IsFiniteSet(At(T, g))
      BY <2>1, FS_Subset
    <2> QED BY <2>2, FS_CardinalityType
  <1>2. ASSUME NEW T \in SUBSET I, NEW g \in D
        PROVE  part(T)[g] \in Int
    <2> HIDE DEF At
    <2> QED BY <1>1
  <1>3. ASSUME B # {} PROVE FALSE
    <2>1. PICK T \in B : \A U \in B : U \subseteq T => U = T
      <3> B \subseteq SUBSET I
        OBVIOUS
      <3> HIDE DEF B
      <3> QED BY <1>3, LeastSubset
    <2>2. IsFiniteSet(T) /\ ~P(T) /\ T \in SUBSET I
      BY FS_Subset
    <2>3. P({})
      <3>1. \A g \in D : At({}, g) = {}
        OBVIOUS
      <3>2. \A g \in D : part({})[g] = 0
        <4>1. \A g \in D : part({})[g] = 0 * v[g]
          BY <3>1, FS_EmptySet
        <4> HIDE DEF part
        <4> QED BY <4>1
      <3>3. SumFunctionOnSet(part({}), D) = 0
        <4> HIDE DEF part
        <4> QED BY <3>2, SumZero
      <3> HIDE DEF part
      <3> QED BY <3>3, SumEmpty
    <2>4. T # {}
      BY <2>2, <2>3
    <2> DEFINE c == Chosen(T)
               U == T \ {c}
               e == ids[c]
               rest == D \ {e}
    <2>5. c \in T /\ c \in I /\ e \in D
      BY <2>4, ChosenIn
    <2>6. P(U) /\ U \in SUBSET I
      BY <2>1, <2>5
    <2>7. SumFunctionOnSet(a, T) = v[e] + SumFunctionOnSet(a, U)
      <3>1. SumFunctionOnSet(a, T) = a[c] + SumFunctionOnSet(a, U)
        BY <2>2, <2>4, SumEquation
      <3> QED BY <3>1, <2>5
    <2>8. /\ SumFunctionOnSet(part(T), D) = part(T)[e] + SumFunctionOnSet(part(T), rest)
          /\ SumFunctionOnSet(part(U), D) = part(U)[e] + SumFunctionOnSet(part(U), rest)
      <3>1. (\A g \in D : part(T)[g] \in Int) /\ (\A g \in D : part(U)[g] \in Int)
        BY <1>2, <2>2, <2>6
      <3> HIDE DEF part, U, e
      <3> QED BY <3>1, <2>5, SumRemove
    <2>9. SumFunctionOnSet(part(T), rest) = SumFunctionOnSet(part(U), rest)
      <3>1. ASSUME NEW g \in rest PROVE part(T)[g] = part(U)[g]
        <4>1. At(T, g) = At(U, g)
          BY <2>5
        <4> HIDE DEF At, U
        <4> QED BY <4>1
      <3>2. IsFiniteSet(rest)
        BY FS_RemoveElement
      <3> HIDE DEF part, U, rest
      <3> QED BY <3>1, <3>2, SumSame
    <2>10. part(T)[e] = part(U)[e] + v[e]
      <3>1. At(T, e) = At(U, e) \cup {c} /\ c \notin At(U, e)
        BY <2>5
      <3>2. IsFiniteSet(At(U, e)) /\ Cardinality(At(U, e)) \in Nat
        BY <1>1, <2>5, <2>6
      <3>3. Cardinality(At(T, e)) = Cardinality(At(U, e)) + 1
        <4> HIDE DEF At, U, e, c
        <4> QED BY <3>1, <3>2, FS_AddElement
      <3>4. /\ part(T)[e] = Cardinality(At(T, e)) * v[e]
            /\ part(U)[e] = Cardinality(At(U, e)) * v[e]
        BY <2>5
      <3>5. v[e] \in Int
        BY <2>5
      <3>6. \A n \in Nat, x \in Int : (n + 1) * x = n * x + x
        OBVIOUS
      <3> HIDE DEF At, part, U, e, c
      <3> QED BY <3>2, <3>3, <3>4, <3>5, <3>6
    <2>11. /\ v[e] \in Int /\ part(U)[e] \in Int
           /\ SumFunctionOnSet(part(U), rest) \in Int
      <3>1. \A g \in D : part(U)[g] \in Int
        BY <1>2, <2>6
      <3>2. IsFiniteSet(rest) /\ rest \subseteq D
        BY FS_RemoveElement
      <3> HIDE DEF part, U, e, c, rest
      <3> QED BY <2>5, <3>1, <3>2, SumInt
    <2> HIDE DEF part, U, e, c, rest
    <2> QED
      BY <2>2, <2>6, <2>7, <2>8, <2>9, <2>10, <2>11
  <1>4. SumFunctionOnSet(a, I) = SumFunctionOnSet(part(I), D)
    BY <1>3
  <1>5. SumFunctionOnSet(part(I), D) = SumFunctionOnSet(b, D)
    <2>1. \A g \in D : part(I)[g] = b[g]
      BY DEF CountOf
    <2> HIDE DEF part
    <2> QED BY <2>1, SumSame
  <1> HIDE DEF part
  <1> QED
    BY <1>4, <1>5

-----------------------------------------------------------------------------
\* calculate_vested_amount stays within the amount granted, at any time.
LEMMA VestedInRange ==
  ASSUME NEW s \in VestingSchedule, s.cliff <= s.duration, NEW t \in Nat
  PROVE  VestedAt(s, t) \in 0..s.amount
<1>1. /\ s.amount \in Nat /\ s.start_time \in Nat
      /\ s.cliff \in Nat /\ s.duration \in Nat
  BY DEF VestingSchedule
<1>2. CASE t < s.start_time + s.cliff \/ t >= s.start_time + s.duration
  BY <1>1, <1>2 DEF VestedAt
<1>3. CASE ~(t < s.start_time + s.cliff) /\ ~(t >= s.start_time + s.duration)
  <2>1. /\ t - (s.start_time + s.cliff) \in Nat
        /\ s.duration - s.cliff \in Nat \ {0}
        /\ t - (s.start_time + s.cliff) <= s.duration - s.cliff
    BY <1>1, <1>3
  <2>2. (s.amount * (t - (s.start_time + s.cliff))) \div (s.duration - s.cliff)
          \in 0..s.amount
    BY <1>1, <2>1, DivBounded
  <2>3. QED
    BY <1>3, <2>2 DEF VestedAt
<1>4. QED
  BY <1>2, <1>3

\* ... and never falls.
LEMMA VestedGrows ==
  ASSUME NEW s \in VestingSchedule, s.cliff <= s.duration, NEW t \in Nat
  PROVE  VestedAt(s, t) <= VestedAt(s, t + 1)
<1>1. /\ s.amount \in Nat /\ s.start_time \in Nat
      /\ s.cliff \in Nat /\ s.duration \in Nat
  BY DEF VestingSchedule
<1>2. VestedAt(s, t) \in 0..s.amount /\ VestedAt(s, t + 1) \in 0..s.amount
  BY VestedInRange
<1>3. CASE t < s.start_time + s.cliff
  <2>1. VestedAt(s, t) = 0
    BY <1>3 DEF VestedAt
  <2>2. QED
    BY <1>2, <2>1
<1>4. CASE t + 1 >= s.start_time + s.duration
  <2>1. VestedAt(s, t + 1) = s.amount
    BY <1>1, <1>4 DEF VestedAt
  <2>2. QED
    BY <1>1, <1>2, <2>1
<1>5. CASE ~(t < s.start_time + s.cliff) /\ ~(t + 1 >= s.start_time + s.duration)
  <2>1. /\ t - (s.start_time + s.cliff) \in Nat
        /\ (t + 1) - (s.start_time + s.cliff) \in Nat
        /\ s.duration - s.cliff \in Nat \ {0}
        /\ t - (s.start_time + s.cliff) <= (t + 1) - (s.start_time + s.cliff)
    BY <1>1, <1>5
  <2>2. (s.amount * (t - (s.start_time + s.cliff))) \div (s.duration - s.cliff)
          <= (s.amount * ((t + 1) - (s.start_time + s.cliff))) \div (s.duration - s.cliff)
    BY <1>1, <2>1, DivGrows
  <2>3. /\ ~(t + 1 < s.start_time + s.cliff)
        /\ ~(t >= s.start_time + s.duration)
    BY <1>1, <1>5
  <2>4. QED
    BY <1>5, <2>2, <2>3 DEF VestedAt
<1>6. QED
  BY <1>3, <1>4, <1>5

\* The curve holds of every schedule the contract can have stored.
LEMMA CurveOfTypes == TypeOK => VestingCurve
<1> SUFFICES ASSUME TypeOK, NEW g \in DOMAIN sched, NEW t \in 0..MaxTime
             PROVE  LET s == sched[g] IN
                      /\ VestedAt(s, t) \in 0..s.amount
                      /\ VestedAt(s, t) <= VestedAt(s, t + 1)
                      /\ t < s.start_time + s.cliff => VestedAt(s, t) = 0
                      /\ t >= s.start_time + s.duration => VestedAt(s, t) = s.amount
  BY DEF VestingCurve
<1>1. sched[g] \in VestingSchedule /\ sched[g].cliff <= sched[g].duration
  BY DEF TypeOK
<1>2. t \in Nat
  OBVIOUS
<1>3. t < sched[g].start_time + sched[g].cliff => VestedAt(sched[g], t) = 0
  BY DEF VestedAt
<1>4. t >= sched[g].start_time + sched[g].duration =>
        VestedAt(sched[g], t) = sched[g].amount
  BY <1>1, <1>2 DEF VestedAt, VestingSchedule
<1>5. QED
  BY <1>1, <1>2, <1>3, <1>4, VestedInRange, VestedGrows

\* What a claim finds claimable is a positive number of tokens.
LEMMA ClaimablePays ==
  ASSUME TypeOK, NEW g, NEW b, Claimable(g, b)
  PROVE  /\ g \in 1..cnt
         /\ Vested(g) \in Nat \ {0}
         /\ ~sched[g].claimed /\ ~sched[g].revoked
<1>1. g \in 1..cnt /\ Vested(g) # 0 /\ ~sched[g].claimed /\ ~sched[g].revoked
  BY DEF TypeOK, Claimable
<1>2. /\ sched[g] \in VestingSchedule /\ sched[g].cliff <= sched[g].duration
      /\ sched[g].amount \in Nat /\ now \in Nat
  BY <1>1, VestingBounds DEF TypeOK, VestingSchedule
<1>3. Vested(g) \in 0..sched[g].amount
  BY <1>2, VestedInRange DEF Vested
<1>4. QED
  BY <1>1, <1>2, <1>3

\* An element of a batch occurs in it.
LEMMA OccursAtLeastOnce ==
  ASSUME NEW ids \in Seq(Nat), NEW g \in Elements(ids)
  PROVE  Occurrences(g, ids) \in Nat \ {0}
<1> DEFINE at == {i \in DOMAIN ids : ids[i] = g}
<1>1. DOMAIN ids = 1..Len(ids) /\ Len(ids) \in Nat
  OBVIOUS
<1>2. IsFiniteSet(at)
  <2>1. IsFiniteSet(1..Len(ids))
    BY <1>1, FS_Interval
  <2>2. at \in SUBSET (1..Len(ids))
    BY <1>1
  <2>3. QED
    BY <2>1, <2>2, FS_Subset
<1>3. at # {}
  BY <1>1 DEF Elements
<1>4. Cardinality(at) \in Nat /\ Cardinality(at) # 0
  BY <1>2, <1>3, FS_CardinalityType, FS_EmptySet
<1>5. QED
  BY <1>4 DEF Occurrences

-----------------------------------------------------------------------------
\* Init establishes the invariant.
LEMMA InitIInv == Init => IInv
<1> SUFFICES ASSUME Init PROVE IInv
  OBVIOUS
<1>1. DOMAIN EmptyMap = {} /\ 1..0 = {}
  BY DEF EmptyMap
<1>2. \A S : EmptyMap \in [1..0 -> S]
  BY DEF EmptyMap
<1>3. TypeOK
  BY <1>1, <1>2, VestingBounds DEF Init, TypeOK
<1>4. QED
  BY <1>1, <1>3 DEF Init, IInv, QuietBeforeInit, PaidMatchesFlags

\* init resets a counter that is still zero.
LEMMA InitializeStep ==
  ASSUME IInv, NEW a \in Account, Initialize(a)
  PROVE  IInv'
<1>1. cnt = 0 /\ cnt' = 0 /\ admin' = a
  BY DEF IInv, QuietBeforeInit, Initialize
<1>2. /\ sched' = sched /\ paid' = paid /\ grantedAt' = grantedAt
      /\ balance' = balance /\ now' = now
  BY DEF Initialize
<1>3. TypeOK'
  BY <1>1, <1>2 DEF IInv, TypeOK
<1>4. QED
  BY <1>1, <1>2, <1>3 DEF IInv, QuietBeforeInit, PaidMatchesFlags

\* A map over 1..n gains the entry k = n + 1 ...
LEMMA MapSetNextType ==
  ASSUME NEW n \in Nat, NEW k, k = n + 1,
         NEW S, NEW m \in [1..n -> S], NEW v \in S
  PROVE  MapSet(m, k, v) \in [1..k -> S]
<1>1. (1..n) \cup {k} = 1..k
  OBVIOUS
<1>2. QED
  BY <1>1 DEF MapSet

\* ... and keeps the others.
LEMMA MapSetNextValue ==
  ASSUME NEW n \in Nat, NEW k, k = n + 1, NEW m, DOMAIN m = 1..n, NEW v
  PROVE  /\ MapSet(m, k, v)[k] = v
         /\ \A x \in 1..n : MapSet(m, k, v)[x] = m[x]
BY DEF MapSet

\* A new grant is unclaimed, not revoked and has paid nothing.
LEMMA GrantStep ==
  ASSUME IInv, NEW a \in Account, NEW b \in Account, NEW terms \in Terms,
         GrantVesting(a, b, terms)
  PROVE  IInv'
<1> DEFINE s == [ beneficiary |-> b,
                  amount      |-> terms.amount,
                  start_time  |-> terms.start_time,
                  cliff       |-> terms.cliff,
                  duration    |-> terms.duration,
                  claimed     |-> FALSE,
                  revoked     |-> FALSE,
                  revoke_time |-> 0 ]
<1>1. s \in VestingSchedule /\ s.cliff <= s.duration
  BY InputAssumption DEF TermsType, VestingSchedule, GrantVesting
<1>2. ~s.claimed /\ ~s.revoked
  OBVIOUS
<1>3. /\ sched' = MapSet(sched, cnt', s)
      /\ paid' = MapSet(paid, cnt', 0)
      /\ grantedAt' = MapSet(grantedAt, cnt', now)
      /\ cnt' = cnt + 1 /\ cnt < MaxGrants
      /\ admin' = admin /\ balance' = balance /\ now' = now /\ admin = a
  BY DEF GrantVesting, NextGrant
<1> HIDE DEF s
<1>4. cnt \in Nat /\ cnt' \in 0..MaxGrants /\ cnt' = cnt + 1
  BY <1>3, VestingBounds DEF IInv, TypeOK
<1>5. /\ sched' \in [1..cnt' -> VestingSchedule]
      /\ sched'[cnt'] = s
      /\ \A x \in 1..cnt : sched'[x] = sched[x]
  <2>1. sched \in [1..cnt -> VestingSchedule]
    BY DEF IInv, TypeOK
  <2>2. QED
    BY <1>1, <1>3, <1>4, <2>1, MapSetNextType, MapSetNextValue
<1>6. /\ paid' \in [1..cnt' -> Nat]
      /\ paid'[cnt'] = 0
      /\ \A x \in 1..cnt : paid'[x] = paid[x]
  <2>1. paid \in [1..cnt -> Nat] /\ DOMAIN paid = 1..cnt
    BY DEF IInv, TypeOK
  <2>2. paid' \in [1..cnt' -> Nat]
    BY <1>3, <1>4, <2>1, MapSetNextType
  <2>3. paid'[cnt'] = 0 /\ \A x \in 1..cnt : paid'[x] = paid[x]
    BY <1>3, <1>4, <2>1, MapSetNextValue
  <2>4. QED
    BY <2>2, <2>3
<1>7. grantedAt' \in [1..cnt' -> 0..MaxTime]
  <2>1. grantedAt \in [1..cnt -> 0..MaxTime] /\ now \in 0..MaxTime
    BY DEF IInv, TypeOK
  <2>2. QED
    BY <1>3, <1>4, <2>1, MapSetNextType
<1>8. \A g \in 1..cnt' : g \in 1..cnt \/ g = cnt'
  BY <1>4
<1>9. TypeOK'
  <2>1. \A g \in 1..cnt' : sched'[g].cliff <= sched'[g].duration
    BY <1>1, <1>5, <1>8 DEF IInv, TypeOK
  <2>2. QED
    BY <1>3, <1>4, <1>5, <1>6, <1>7, <2>1 DEF IInv, TypeOK
<1>10. PaidMatchesFlags'
  <2>1. DOMAIN sched = 1..cnt /\ DOMAIN sched' = 1..cnt'
    BY <1>5 DEF IInv, TypeOK
  <2>2. \A g \in 1..cnt : /\ sched'[g].claimed <=> paid'[g] > 0
                          /\ sched'[g].revoked => paid'[g] = 0
    BY <1>5, <1>6, <2>1 DEF IInv, PaidMatchesFlags
  <2>3. /\ sched'[cnt'].claimed <=> paid'[cnt'] > 0
        /\ sched'[cnt'].revoked => paid'[cnt'] = 0
    BY <1>2, <1>5, <1>6
  <2>4. QED
    BY <1>8, <2>1, <2>2, <2>3 DEF PaidMatchesFlags
<1>11. QED
  BY <1>3, <1>9, <1>10, AccountAssumption DEF IInv, QuietBeforeInit

\* One claim pays a positive amount for a grant that had paid nothing.
LEMMA ClaimStep ==
  ASSUME IInv, NEW g \in 1..MaxGrants, NEW b \in Account, Claim(g, b)
  PROVE  IInv'
<1>1. /\ g \in 1..cnt /\ Vested(g) \in Nat \ {0}
      /\ ~sched[g].claimed /\ ~sched[g].revoked
  BY ClaimablePays DEF IInv, Claim
<1>2. PICK v \in Nat \ {0} : v = Vested(g)
  BY <1>1
<1>3. /\ sched' = [sched EXCEPT ![g] = AfterClaim(sched[g])]
      /\ balance >= v /\ balance' = balance - v
      /\ paid' = [paid EXCEPT ![g] = paid[g] + v]
      /\ admin' = admin /\ cnt' = cnt /\ now' = now /\ grantedAt' = grantedAt
  BY <1>2 DEF Claim
<1>4. /\ AfterClaim(sched[g]) \in VestingSchedule
      /\ AfterClaim(sched[g]).claimed
      /\ AfterClaim(sched[g]).revoked = sched[g].revoked
      /\ AfterClaim(sched[g]).cliff = sched[g].cliff
      /\ AfterClaim(sched[g]).duration = sched[g].duration
  BY <1>1 DEF IInv, TypeOK, AfterClaim, VestingSchedule
<1>5. /\ sched' \in [1..cnt -> VestingSchedule]
      /\ sched'[g] = AfterClaim(sched[g])
      /\ \A x \in 1..cnt : x # g => sched'[x] = sched[x]
  BY <1>1, <1>3, <1>4 DEF IInv, TypeOK
<1>6. /\ paid' \in [1..cnt -> Nat] /\ paid'[g] > 0
      /\ \A x \in 1..cnt : x # g => paid'[x] = paid[x]
  BY <1>1, <1>3 DEF IInv, TypeOK
<1>7. TypeOK'
  <2>1. balance' \in 0..MaxSupply
    BY <1>3, VestingBounds DEF IInv, TypeOK
  <2>2. \A x \in 1..cnt : sched'[x].cliff <= sched'[x].duration
    BY <1>4, <1>5 DEF IInv, TypeOK
  <2>3. QED
    BY <1>3, <1>5, <1>6, <2>1, <2>2 DEF IInv, TypeOK
<1>8. PaidMatchesFlags'
  <2>1. DOMAIN sched = 1..cnt /\ DOMAIN sched' = 1..cnt
    BY <1>5 DEF IInv, TypeOK
  <2>2. QED
    BY <1>1, <1>4, <1>5, <1>6, <2>1 DEF IInv, PaidMatchesFlags
<1>9. QED
  BY <1>3, <1>7, <1>8 DEF IInv, QuietBeforeInit

\* A batch pays a positive amount for each of its grants, none of which had
\* paid anything.
LEMMA BatchClaimStep ==
  ASSUME IInv, NEW ids \in Batches, NEW b \in Account, BatchClaim(ids, b)
  PROVE  IInv'
<1>0. ids \in Seq(Nat)
  BY InputAssumption
<1>1. \A g \in Elements(ids) :
        /\ g \in 1..cnt /\ Vested(g) \in Nat \ {0}
        /\ ~sched[g].claimed /\ ~sched[g].revoked
  BY ClaimablePays DEF IInv, BatchClaim
<1>2. /\ sched' = [g \in DOMAIN sched |->
           IF g \in Elements(ids) THEN AfterClaim(sched[g]) ELSE sched[g]]
      /\ paid' = [g \in DOMAIN paid |->
           IF g \in Elements(ids) THEN paid[g] + Occurrences(g, ids) * Vested(g)
           ELSE paid[g]]
      /\ \E total \in 0..balance : balance' = balance - total
      /\ admin' = admin /\ cnt' = cnt /\ now' = now /\ grantedAt' = grantedAt
  BY DEF BatchClaim
<1>3. \A g \in 1..cnt :
        /\ AfterClaim(sched[g]) \in VestingSchedule
        /\ AfterClaim(sched[g]).claimed
        /\ AfterClaim(sched[g]).revoked = sched[g].revoked
        /\ AfterClaim(sched[g]).cliff = sched[g].cliff
        /\ AfterClaim(sched[g]).duration = sched[g].duration
  BY DEF IInv, TypeOK, AfterClaim, VestingSchedule
<1>4. DOMAIN sched = 1..cnt /\ DOMAIN paid = 1..cnt
  BY DEF IInv, TypeOK
<1>5. \A g \in 1..cnt :
        sched'[g] = IF g \in Elements(ids) THEN AfterClaim(sched[g]) ELSE sched[g]
  BY <1>2, <1>4
<1>6. sched' \in [1..cnt -> VestingSchedule]
  BY <1>2, <1>3, <1>4 DEF IInv, TypeOK
<1>7. ASSUME NEW g \in Elements(ids)
      PROVE  /\ g \in 1..cnt /\ paid'[g] \in Nat /\ paid'[g] > 0
  <2>1. PICK v \in Nat \ {0} : v = Vested(g)
    BY <1>1
  <2>2. PICK n \in Nat \ {0} : n = Occurrences(g, ids)
    BY <1>0, OccursAtLeastOnce
  <2>3. n * v \in Nat \ {0}
    OBVIOUS
  <2>4. g \in 1..cnt /\ paid[g] \in Nat
    BY <1>1 DEF IInv, TypeOK
  <2>5. paid'[g] = paid[g] + n * v
    BY <1>2, <1>4, <2>1, <2>2, <2>4
  <2>6. QED
    BY <2>3, <2>4, <2>5
<1>8. \A g \in 1..cnt : g \notin Elements(ids) => paid'[g] = paid[g]
  BY <1>2, <1>4
<1>9. paid' \in [1..cnt -> Nat]
  <2>1. \A g \in 1..cnt : paid'[g] \in Nat
    BY <1>7, <1>8 DEF IInv, TypeOK
  <2>2. DOMAIN paid' = 1..cnt /\ paid' = [g \in DOMAIN paid' |-> paid'[g]]
    BY <1>2, <1>4
  <2>3. QED
    BY <2>1, <2>2
<1>10. TypeOK'
  <2>1. balance' \in 0..MaxSupply
    BY <1>2, VestingBounds DEF IInv, TypeOK
  <2>2. \A x \in 1..cnt : sched'[x].cliff <= sched'[x].duration
    BY <1>3, <1>5 DEF IInv, TypeOK
  <2>3. QED
    BY <1>2, <1>6, <1>9, <2>1, <2>2 DEF IInv, TypeOK
<1>11. PaidMatchesFlags'
  <2>1. DOMAIN sched' = 1..cnt
    BY <1>6
  <2>2. ASSUME NEW g \in 1..cnt
        PROVE  /\ sched'[g].claimed <=> paid'[g] > 0
               /\ sched'[g].revoked => paid'[g] = 0
    <3>1. CASE g \in Elements(ids)
      BY <1>1, <1>3, <1>5, <1>7, <3>1
    <3>2. CASE g \notin Elements(ids)
      BY <1>4, <1>5, <1>8, <3>2 DEF IInv, PaidMatchesFlags
    <3>3. QED
      BY <3>1, <3>2
  <2>3. QED
    BY <2>1, <2>2 DEF PaidMatchesFlags
<1>12. QED
  BY <1>2, <1>10, <1>11 DEF IInv, QuietBeforeInit

\* revoke flags a grant that was not claimed, so nothing was paid for it.
LEMMA RevokeStep ==
  ASSUME IInv, NEW g \in 1..MaxGrants, NEW a \in Account,
         NEW delay \in RevokeDelays, Revoke(g, a, delay)
  PROVE  IInv'
<1>1. /\ g \in 1..cnt /\ ~sched[g].claimed /\ paid[g] \in Nat
  BY DEF Revoke, Revocable, IInv, TypeOK
<1>2. paid[g] = 0
  BY <1>1 DEF IInv, PaidMatchesFlags, TypeOK
<1>3. /\ sched' = [sched EXCEPT ![g].revoked = TRUE, ![g].revoke_time = now]
      /\ paid' = paid /\ admin' = admin /\ cnt' = cnt /\ balance' = balance
      /\ now' = now /\ grantedAt' = grantedAt
  BY DEF Revoke
<1>4. now \in Nat
  BY VestingBounds DEF IInv, TypeOK
<1>5. /\ sched'[g] = [sched[g] EXCEPT !.revoked = TRUE, !.revoke_time = now]
      /\ \A x \in 1..cnt : x # g => sched'[x] = sched[x]
      /\ DOMAIN sched' = 1..cnt
  BY <1>1, <1>3 DEF IInv, TypeOK
<1>6. /\ sched'[g] \in VestingSchedule
      /\ sched'[g].claimed = sched[g].claimed
      /\ sched'[g].cliff = sched[g].cliff
      /\ sched'[g].duration = sched[g].duration
  BY <1>1, <1>4, <1>5 DEF IInv, TypeOK, VestingSchedule
<1>7. TypeOK'
  <2>1. sched' \in [1..cnt -> VestingSchedule]
    BY <1>3, <1>5, <1>6 DEF IInv, TypeOK
  <2>2. \A x \in 1..cnt : sched'[x].cliff <= sched'[x].duration
    BY <1>5, <1>6 DEF IInv, TypeOK
  <2>3. QED
    BY <1>3, <2>1, <2>2 DEF IInv, TypeOK
<1>8. PaidMatchesFlags'
  BY <1>1, <1>2, <1>3, <1>5, <1>6 DEF IInv, TypeOK, PaidMatchesFlags
<1>9. QED
  BY <1>3, <1>7, <1>8 DEF IInv, QuietBeforeInit

\* A deposit, time and a stuttering step disturb nothing.
LEMMA QuietStep ==
  ASSUME IInv, Deposit \/ Tick \/ UNCHANGED vars
  PROVE  IInv'
<1>1. /\ admin' = admin /\ sched' = sched /\ cnt' = cnt
      /\ grantedAt' = grantedAt /\ paid' = paid
  BY DEF Deposit, Tick, vars
<1>2. balance' \in 0..MaxSupply /\ now' \in 0..MaxTime
  BY VestingBounds DEF Deposit, Tick, vars, IInv, TypeOK
<1>3. TypeOK'
  BY <1>1, <1>2 DEF IInv, TypeOK
<1>4. QED
  BY <1>1, <1>3 DEF IInv, QuietBeforeInit, PaidMatchesFlags

\* The invariant is inductive.
LEMMA NextIInv == IInv /\ [Next]_vars => IInv'
BY InitializeStep, GrantStep, ClaimStep, BatchClaimStep, RevokeStep, QuietStep
   DEF Next

-----------------------------------------------------------------------------
\* What a claimable grant tells of the money already paid for it.
LEMMA ClaimableIsFresh ==
  ASSUME IInv, NEW g, NEW b, Claimable(g, b)
  PROVE  /\ paid[g] = 0
         /\ now >= sched[g].start_time + sched[g].cliff
         /\ ~sched[g].revoked
<1>1. /\ g \in 1..cnt /\ Vested(g) # 0
      /\ ~sched[g].claimed /\ ~sched[g].revoked
  BY ClaimablePays DEF IInv
<1>2. paid[g] \in Nat /\ DOMAIN sched = 1..cnt
  BY <1>1 DEF IInv, TypeOK
<1>3. paid[g] = 0
  BY <1>1, <1>2 DEF IInv, PaidMatchesFlags
<1>4. /\ now \in Nat /\ sched[g].start_time \in Nat /\ sched[g].cliff \in Nat
  BY <1>1, VestingBounds DEF IInv, TypeOK, VestingSchedule
<1>5. ~(now < sched[g].start_time + sched[g].cliff)
  BY <1>1 DEF Vested, VestedAt
<1>6. QED
  BY <1>1, <1>3, <1>4, <1>5

\* Only claims pay, and only for grants that had paid nothing.
LEMMA PaymentStep ==
  ASSUME IInv, [Next]_vars, NEW g \in DOMAIN sched, paid'[g] # paid[g]
  PROVE  /\ paid[g] = 0
         /\ now >= sched[g].start_time + sched[g].cliff
         /\ ~sched[g].revoked
<1>1. g \in 1..cnt /\ DOMAIN paid = 1..cnt /\ cnt \in Nat
  BY VestingBounds DEF IInv, TypeOK
<1>2. ASSUME NEW a \in Account, NEW b \in Account, NEW terms \in Terms,
             GrantVesting(a, b, terms)
      PROVE  FALSE
  <2>1. paid' = MapSet(paid, cnt + 1, 0)
    BY <1>2 DEF GrantVesting, NextGrant
  <2>2. g # cnt + 1
    BY <1>1
  <2>3. paid'[g] = paid[g]
    BY <1>1, <2>1, <2>2 DEF MapSet
  <2>4. QED
    BY <2>3
<1>3. ASSUME NEW x \in 1..MaxGrants, NEW a \in Account, Claim(x, a)
      PROVE  Claimable(g, a)
  <2>1. paid' = [paid EXCEPT ![x] = paid[x] + Vested(x)] /\ Claimable(x, a)
    BY <1>3 DEF Claim
  <2>2. x = g
    BY <1>1, <2>1
  <2>3. QED
    BY <2>1, <2>2
<1>4. ASSUME NEW ids \in Batches, NEW a \in Account, BatchClaim(ids, a)
      PROVE  Claimable(g, a)
  <2>1. g \in Elements(ids)
    BY <1>1, <1>4 DEF BatchClaim
  <2>2. QED
    BY <1>4, <2>1 DEF BatchClaim
<1>5. ASSUME NEW a \in Account
      PROVE  ~Initialize(a) /\ ~Deposit /\ ~Tick /\ ~(UNCHANGED vars)
             /\ \A x \in 1..MaxGrants, d \in RevokeDelays : ~Revoke(x, a, d)
  BY DEF Initialize, Deposit, Tick, vars, Revoke
<1>6. ~Deposit /\ ~Tick /\ ~(UNCHANGED vars)
  BY DEF Deposit, Tick, vars
<1>7. \E a \in Account : Claimable(g, a)
  BY <1>2, <1>3, <1>4, <1>5, <1>6 DEF Next
<1>8. QED
  BY <1>7, ClaimableIsFresh

-----------------------------------------------------------------------------
\* The contract's storage keeps its types, the numbering of the grants and the
\* order of cliff and duration, whatever is called.
THEOREM TypeCorrect == Spec => []TypeOK
<1>1. IInv => TypeOK
  BY DEF IInv
<1>2. QED
  BY InitIInv, NextIInv, <1>1, PTL DEF Spec

\* The claimed and revoked flags tell the truth about the money paid out.
THEOREM FlagsTellTheTruth == Spec => []PaidMatchesFlags
<1>1. IInv => PaidMatchesFlags
  BY DEF IInv
<1>2. QED
  BY InitIInv, NextIInv, <1>1, PTL DEF Spec

\* calculate_vested_amount is a rising curve from zero to the amount granted,
\* for every schedule that can ever be stored.
THEOREM CurveCorrect == Spec => []VestingCurve
BY TypeCorrect, CurveOfTypes, PTL

\* Every payment for a grant is its first, after its cliff and not after its
\* revocation.
THEOREM OneCallPays == Spec => PaidInOneCall
<1>1. IInv /\ [Next]_vars =>
        [\A g \in DOMAIN sched :
           paid'[g] # paid[g] =>
             /\ paid[g] = 0
             /\ now >= sched[g].start_time + sched[g].cliff
             /\ ~sched[g].revoked]_vars
  BY PaymentStep
<1>2. QED
  BY InitIInv, NextIInv, <1>1, PTL DEF Spec, PaidInOneCall

-----------------------------------------------------------------------------
\* What the contract may still have to pay for schedule s.
Due(s) == IF s.claimed \/ s.revoked THEN 0 ELSE s.amount

\* What is owed is what is due for each grant, added up.
LEMMA OwedIsSum ==
  Owed = SumFunctionOnSet([g \in DOMAIN sched |-> Due(sched[g])], DOMAIN sched)
  BY DEF Owed, Due, SumFunction

\* A step that settles the grants of E and pays no more for each of them than
\* was due lowers what is owed by at least what it pays.
LEMMA OwedDrops ==
  ASSUME TypeOK, NEW E \in SUBSET (1..cnt), NEW pay \in [1..cnt -> Nat],
         DOMAIN sched' = 1..cnt,
         \A g \in E : Due(sched'[g]) = 0 /\ pay[g] <= Due(sched[g]),
         \A g \in (1..cnt) \ E : sched'[g] = sched[g] /\ pay[g] = 0
  PROVE  /\ Owed \in Int /\ Owed' \in Int
         /\ SumFunctionOnSet(pay, 1..cnt) \in Int
         /\ Owed' + SumFunctionOnSet(pay, 1..cnt) <= Owed
  <1> DEFINE before == [g \in 1..cnt |-> Due(sched[g])]
             after == [g \in 1..cnt |-> Due(sched'[g])]
  <1>1. IsFiniteSet(1..cnt)
    BY FS_Interval, VestingBounds DEF TypeOK
  <1>2. \A g \in 1..cnt : Due(sched[g]) \in Nat
    BY DEF TypeOK, VestingSchedule, Due
  <1>3. \A g \in 1..cnt : /\ Due(sched'[g]) \in Nat
                          /\ Due(sched'[g]) + pay[g] <= Due(sched[g])
    BY <1>2
  <1>4. /\ \A g \in 1..cnt : before[g] \in Int /\ after[g] \in Int /\ pay[g] \in Int
        /\ \A g \in 1..cnt : after[g] + pay[g] <= before[g]
    BY <1>2, <1>3
  <1>5. Owed = SumFunctionOnSet(before, 1..cnt)
    BY OwedIsSum DEF TypeOK
  <1>6. Owed' = SumFunctionOnSet(after, 1..cnt)
    BY DEF Owed, Due, SumFunction
  <1> HIDE DEF before, after
  <1>7. /\ SumFunctionOnSet(before, 1..cnt) \in Int
        /\ SumFunctionOnSet(after, 1..cnt) \in Int
        /\ SumFunctionOnSet(pay, 1..cnt) \in Int
    BY <1>1, <1>4, SumInt
  <1>8. SumFunctionOnSet(after, 1..cnt) + SumFunctionOnSet(pay, 1..cnt)
          <= SumFunctionOnSet(before, 1..cnt)
    BY <1>1, <1>4, SumBelow
  <1> QED
    BY <1>5, <1>6, <1>7, <1>8

\* What has vested of a grant is within its amount.
LEMMA VestedWithin ==
  ASSUME TypeOK, NEW g \in 1..cnt
  PROVE  Vested(g) \in Nat /\ Vested(g) <= sched[g].amount
  <1>1. /\ sched[g] \in VestingSchedule /\ sched[g].cliff <= sched[g].duration
        /\ now \in Nat /\ sched[g].amount \in Nat
    BY VestingBounds DEF TypeOK, VestingSchedule
  <1>2. VestedAt(sched[g], now) \in 0..sched[g].amount
    BY <1>1, VestedInRange
  <1> QED
    BY <1>1, <1>2 DEF Vested

\* A claim pays no more than its grant was due.
LEMMA ClaimKeepsFunded ==
  ASSUME IInv, NEW g \in 1..MaxGrants, NEW b \in Account, Claim(g, b),
         balance >= Owed
  PROVE  balance' >= Owed'
  <1> DEFINE pay == [x \in 1..cnt |-> IF x = g THEN Vested(g) ELSE 0]
  <1>1. /\ g \in 1..cnt /\ Vested(g) \in Nat
        /\ ~sched[g].claimed /\ ~sched[g].revoked
    BY ClaimablePays DEF IInv, Claim
  <1>2. sched' = [sched EXCEPT ![g] = AfterClaim(sched[g])] /\ balance' = balance - Vested(g)
    BY DEF Claim
  <1>3. /\ DOMAIN sched = 1..cnt /\ DOMAIN sched' = 1..cnt
        /\ sched'[g] = AfterClaim(sched[g])
        /\ \A x \in 1..cnt : x # g => sched'[x] = sched[x]
    BY <1>1, <1>2 DEF IInv, TypeOK
  <1>4. Due(sched'[g]) = 0 /\ Vested(g) <= Due(sched[g])
    <2>1. Vested(g) <= sched[g].amount
      BY <1>1, VestedWithin DEF IInv
    <2>2. sched'[g].claimed
      BY <1>1, <1>3 DEF IInv, TypeOK, AfterClaim, VestingSchedule
    <2> QED
      BY <1>1, <2>1, <2>2 DEF Due
  <1>5. pay \in [1..cnt -> Nat] /\ pay[g] = Vested(g)
        /\ \A x \in 1..cnt : x # g => pay[x] = 0
    BY <1>1
  <1> HIDE DEF pay
  <1>6. /\ Owed \in Int /\ Owed' \in Int
        /\ Owed' + SumFunctionOnSet(pay, 1..cnt) <= Owed
    <2>1. {g} \in SUBSET (1..cnt)
      BY <1>1
    <2>2. \A x \in {g} : Due(sched'[x]) = 0 /\ pay[x] <= Due(sched[x])
      BY <1>4, <1>5
    <2>3. \A x \in (1..cnt) \ {g} : sched'[x] = sched[x] /\ pay[x] = 0
      BY <1>3, <1>5
    <2> QED
      BY <1>3, <1>5, <2>1, <2>2, <2>3, OwedDrops DEF IInv
  <1>7. SumFunctionOnSet(pay, 1..cnt) = Vested(g)
    <2>1. IsFiniteSet(1..cnt) /\ IsFiniteSet((1..cnt) \ {g})
      <3>1. IsFiniteSet(1..cnt)
        BY FS_Interval, VestingBounds DEF IInv, TypeOK
      <3> QED BY <3>1, FS_RemoveElement
    <2>2. SumFunctionOnSet(pay, (1..cnt) \ {g}) = 0
      BY <1>5, <2>1, SumZero
    <2>3. SumFunctionOnSet(pay, 1..cnt) = pay[g] + SumFunctionOnSet(pay, (1..cnt) \ {g})
      <3>1. \A x \in 1..cnt : pay[x] \in Int
        BY <1>5
      <3> QED BY <1>1, <2>1, <3>1, SumRemove
    <2> QED
      BY <1>1, <1>5, <2>2, <2>3
  <1> QED
    BY <1>1, <1>2, <1>6, <1>7, VestingBounds DEF IInv, TypeOK

\* What a batch pays in all is what it pays for each grant, summed up.
LEMMA BatchTotalIs ==
  ASSUME TypeOK, NEW ids \in Seq(Nat), Elements(ids) \subseteq 1..cnt
  PROVE  BatchTotal(ids) =
           SumFunctionOnSet([g \in 1..cnt |-> Occurrences(g, ids) * Vested(g)], 1..cnt)
  <1> DEFINE a == [i \in DOMAIN ids |-> Vested(ids[i])]
             b == [g \in 1..cnt |-> Occurrences(g, ids) * Vested(g)]
             v == [g \in 1..cnt |-> Vested(g)]
  <1>1. DOMAIN ids = 1..Len(ids) /\ Len(ids) \in Nat
    OBVIOUS
  <1>2. IsFiniteSet(DOMAIN ids) /\ IsFiniteSet(1..cnt)
    BY <1>1, FS_Interval, VestingBounds DEF TypeOK
  <1>3. ids \in [DOMAIN ids -> 1..cnt]
    BY <1>1 DEF Elements
  <1>4. \A g \in 1..cnt : v[g] \in Int
    BY VestedWithin
  <1>5. \A i \in DOMAIN ids : a[i] = v[ids[i]]
    BY <1>3
  <1>6. \A g \in 1..cnt : b[g] = CountOf(g, ids, DOMAIN ids) * v[g]
    BY DEF Occurrences, CountOf
  <1>7. BatchTotal(ids) = SumFunctionOnSet(a, DOMAIN ids)
    BY DEF BatchTotal, SumFunction
  <1>8. SumFunctionOnSet(a, DOMAIN ids) = SumFunctionOnSet(b, 1..cnt)
    <2> DEFINE I == DOMAIN ids
               D == 1..cnt
    <2>1. /\ IsFiniteSet(I) /\ IsFiniteSet(D) /\ ids \in [I -> D]
          /\ \A g \in D : v[g] \in Int
          /\ \A i \in I : a[i] = v[ids[i]]
          /\ \A g \in D : b[g] = CountOf(g, ids, I) * v[g]
      BY <1>2, <1>3, <1>4, <1>5, <1>6
    <2> HIDE DEF a, b, v, I, D
    <2>2. SumFunctionOnSet(a, I) = SumFunctionOnSet(b, D)
      BY <2>1, SumByValue
    <2> QED BY <2>2 DEF I, D
  <1> HIDE DEF a, b, v
  <1> QED
    BY <1>7, <1>8 DEF b

\* A batch that pays no grant more than its amount pays no more than was due.
LEMMA BatchKeepsFunded ==
  ASSUME IInv, NEW ids \in Batches, NEW b \in Account, BatchClaim(ids, b),
         ~\E g \in DOMAIN sched : paid'[g] # paid[g] /\ paid'[g] > sched[g].amount,
         balance >= Owed
  PROVE  balance' >= Owed'
  <1> DEFINE E == Elements(ids)
             pay == [g \in 1..cnt |-> Occurrences(g, ids) * Vested(g)]
  <1>1. ids \in Seq(Nat)
    BY InputAssumption
  <1>2. \A g \in E : /\ g \in 1..cnt /\ Vested(g) \in Nat \ {0}
                     /\ ~sched[g].claimed /\ ~sched[g].revoked
    BY ClaimablePays DEF IInv, BatchClaim
  <1>3. /\ sched' = [g \in DOMAIN sched |-> IF g \in E THEN AfterClaim(sched[g]) ELSE sched[g]]
        /\ paid' = [g \in DOMAIN paid |->
             IF g \in E THEN paid[g] + Occurrences(g, ids) * Vested(g) ELSE paid[g]]
        /\ balance' = balance - BatchTotal(ids)
    BY DEF BatchClaim
  <1>4. DOMAIN sched = 1..cnt /\ DOMAIN paid = 1..cnt /\ DOMAIN sched' = 1..cnt
    BY <1>3 DEF IInv, TypeOK
  <1>5. \A g \in 1..cnt : g \notin E => Occurrences(g, ids) = 0
    <2>1. ASSUME NEW g \in 1..cnt, g \notin E PROVE Occurrences(g, ids) = 0
      <3>1. {i \in DOMAIN ids : ids[i] = g} = {}
        BY <1>1, <2>1 DEF Elements
      <3> QED
        BY <3>1, FS_EmptySet DEF Occurrences
    <2> QED
      BY <2>1
  <1>6. ASSUME NEW g \in 1..cnt
        PROVE  /\ pay[g] \in Nat
               /\ g \notin E => pay[g] = 0
    <2>1. PICK v \in Nat : v = Vested(g)
      BY VestedWithin DEF IInv
    <2>2. CASE g \in E
      <3>1. PICK n \in Nat : n = Occurrences(g, ids)
        BY <1>1, <2>2, OccursAtLeastOnce
      <3>2. pay[g] = n * v
        BY <2>1, <3>1
      <3> HIDE DEF pay
      <3> QED BY <2>2, <3>2
    <2>3. CASE g \notin E
      <3>1. pay[g] = 0 * v
        BY <1>5, <2>1, <2>3
      <3> HIDE DEF pay
      <3> QED BY <3>1
    <2> QED
      BY <2>2, <2>3
  <1>7. ASSUME NEW g \in E
        PROVE  Due(sched'[g]) = 0 /\ pay[g] <= Due(sched[g])
    <2>1. PICK v \in Nat \ {0} : v = Vested(g)
      BY <1>2
    <2>2. PICK n \in Nat \ {0} : n = Occurrences(g, ids)
      BY <1>1, OccursAtLeastOnce
    <2>3. n * v \in Nat \ {0}
      OBVIOUS
    <2>4. /\ g \in 1..cnt /\ paid[g] \in Nat /\ sched[g].amount \in Nat
          /\ sched[g] \in VestingSchedule
      BY <1>2 DEF IInv, TypeOK, VestingSchedule
    <2>5. paid'[g] = paid[g] + n * v /\ pay[g] = n * v
      BY <1>3, <1>4, <2>1, <2>2, <2>4
    <2>6. paid'[g] <= sched[g].amount
      BY <1>4, <2>3, <2>4, <2>5
    <2>7. sched'[g].claimed
      BY <1>3, <1>4, <2>4 DEF AfterClaim, VestingSchedule
    <2>8. Due(sched'[g]) = 0 /\ Due(sched[g]) = sched[g].amount
      BY <1>2, <2>7 DEF Due
    <2> HIDE DEF pay
    <2> QED
      BY <2>3, <2>4, <2>5, <2>6, <2>8
  <1>8. pay \in [1..cnt -> Nat]
    <2>1. \A g \in 1..cnt : pay[g] \in Nat
      BY <1>6
    <2>2. pay = [g \in 1..cnt |-> pay[g]]
      OBVIOUS
    <2> HIDE DEF pay
    <2> QED BY <2>1, <2>2
  <1>9. /\ Owed \in Int /\ Owed' \in Int
        /\ SumFunctionOnSet(pay, 1..cnt) \in Int
        /\ Owed' + SumFunctionOnSet(pay, 1..cnt) <= Owed
    <2>1. E \in SUBSET (1..cnt)
      BY <1>2
    <2>2. \A g \in (1..cnt) \ E : sched'[g] = sched[g] /\ pay[g] = 0
      BY <1>3, <1>4, <1>6
    <2>3. TypeOK
      BY DEF IInv
    <2> HIDE DEF pay, E
    <2> QED
      BY <1>4, <1>7, <1>8, <2>1, <2>2, <2>3, OwedDrops
  <1>10. BatchTotal(ids) = SumFunctionOnSet(pay, 1..cnt)
    BY <1>1, <1>2, BatchTotalIs DEF IInv
  <1>11. balance \in Int
    BY VestingBounds DEF IInv, TypeOK
  <1> HIDE DEF pay
  <1> QED
    BY <1>3, <1>9, <1>10, <1>11

\* A revocation only lowers what is owed.
LEMMA RevokeKeepsFunded ==
  ASSUME IInv, NEW g \in 1..MaxGrants, NEW a \in Account,
         NEW delay \in RevokeDelays, Revoke(g, a, delay), balance >= Owed
  PROVE  balance' >= Owed'
  <1> DEFINE pay == [x \in 1..cnt |-> 0]
  <1>1. g \in 1..cnt /\ DOMAIN sched = 1..cnt
    BY DEF Revoke, IInv, TypeOK
  <1>2. /\ sched' = [sched EXCEPT ![g].revoked = TRUE, ![g].revoke_time = now]
        /\ balance' = balance
    BY DEF Revoke
  <1>3. /\ DOMAIN sched' = 1..cnt
        /\ \A x \in 1..cnt : x # g => sched'[x] = sched[x]
        /\ sched'[g].revoked
    BY <1>1, <1>2 DEF IInv, TypeOK, VestingSchedule
  <1>4. Due(sched'[g]) = 0 /\ Due(sched[g]) \in Nat
    BY <1>1, <1>3 DEF Due, IInv, TypeOK, VestingSchedule
  <1>5. pay \in [1..cnt -> Nat] /\ \A x \in 1..cnt : pay[x] = 0
    OBVIOUS
  <1> HIDE DEF pay
  <1>6. /\ Owed \in Int /\ Owed' \in Int
        /\ Owed' + SumFunctionOnSet(pay, 1..cnt) <= Owed
    <2>1. {g} \in SUBSET (1..cnt)
      BY <1>1
    <2>2. \A x \in {g} : Due(sched'[x]) = 0 /\ pay[x] <= Due(sched[x])
      BY <1>1, <1>4, <1>5
    <2>3. \A x \in (1..cnt) \ {g} : sched'[x] = sched[x] /\ pay[x] = 0
      BY <1>3, <1>5
    <2> QED
      BY <1>3, <1>5, <2>1, <2>2, <2>3, OwedDrops DEF IInv
  <1>7. SumFunctionOnSet(pay, 1..cnt) = 0
    <2>1. IsFiniteSet(1..cnt)
      BY FS_Interval, VestingBounds DEF IInv, TypeOK
    <2> QED
      BY <1>5, <2>1, SumZero
  <1>8. balance \in Int
    BY VestingBounds DEF IInv, TypeOK
  <1> QED
    BY <1>2, <1>6, <1>7, <1>8

\* What is owed, and whether it is covered, depends on the schedules alone.
LEMMA FundedStep ==
  ASSUME IInv, [Next]_vars
  PROVE  \/ balance >= Owed => balance' >= Owed'
         \/ cnt' # cnt
         \/ \E g \in DOMAIN sched : paid'[g] # paid[g] /\ paid'[g] > sched[g].amount
  <1> SUFFICES ASSUME balance >= Owed, cnt' = cnt,
                      ~\E g \in DOMAIN sched :
                         paid'[g] # paid[g] /\ paid'[g] > sched[g].amount
               PROVE  balance' >= Owed'
    OBVIOUS
  <1>1. ASSUME sched' = sched, balance' = balance \/ balance' = balance + 1
        PROVE  balance' >= Owed'
    <2>1. Owed' = Owed
      BY <1>1 DEF Owed
    <2>2. Owed \in Int /\ balance \in Int
      <3>1. IsFiniteSet(DOMAIN sched)
        BY FS_Interval, VestingBounds DEF IInv, TypeOK
      <3>2. \A g \in DOMAIN sched : Due(sched[g]) \in Int
        BY DEF IInv, TypeOK, VestingSchedule, Due
      <3> DEFINE d == [g \in DOMAIN sched |-> Due(sched[g])]
      <3>3. \A g \in DOMAIN sched : d[g] \in Int
        BY <3>2
      <3>4. Owed = SumFunctionOnSet(d, DOMAIN sched)
        BY OwedIsSum
      <3> HIDE DEF d
      <3>5. Owed \in Int
        BY <3>1, <3>3, <3>4, SumInt
      <3>6. balance \in Int
        BY VestingBounds DEF IInv, TypeOK
      <3> QED BY <3>5, <3>6
    <2> QED
      BY <1>1, <2>1, <2>2
  <1>2. ASSUME NEW a \in Account, Initialize(a)
        PROVE  balance' >= Owed'
    BY <1>1, <1>2 DEF Initialize
  <1>3. ASSUME NEW a \in Account, NEW b \in Account, NEW terms \in Terms,
               GrantVesting(a, b, terms)
        PROVE  FALSE
    BY <1>3, VestingBounds DEF GrantVesting, IInv, TypeOK
  <1>4. ASSUME NEW a \in Account, NEW g \in 1..MaxGrants, Claim(g, a)
        PROVE  balance' >= Owed'
    BY <1>4, ClaimKeepsFunded
  <1>5. ASSUME NEW a \in Account, NEW ids \in Batches, BatchClaim(ids, a)
        PROVE  balance' >= Owed'
    BY <1>5, BatchKeepsFunded
  <1>6. ASSUME NEW a \in Account, NEW g \in 1..MaxGrants, NEW delay \in RevokeDelays,
               Revoke(g, a, delay)
        PROVE  balance' >= Owed'
    BY <1>6, RevokeKeepsFunded
  <1>7. CASE Deposit \/ Tick \/ UNCHANGED vars
    BY <1>1, <1>7 DEF Deposit, Tick, vars
  <1> QED
    BY <1>2, <1>3, <1>4, <1>5, <1>6, <1>7 DEF Next

\* A funded contract stays funded through claims, batches and revocations.
THEOREM FundedHolds == Spec => FundedStaysFunded
<1>1. IInv /\ [Next]_vars =>
        [\/ balance >= Owed => balance' >= Owed'
         \/ cnt' # cnt
         \/ \E g \in DOMAIN sched :
              paid'[g] # paid[g] /\ paid'[g] > sched[g].amount]_vars
  BY FundedStep
<1>2. QED
  BY InitIInv, NextIInv, <1>1, PTL DEF Spec, FundedStaysFunded

-----------------------------------------------------------------------------
\* The callers of batch_claim name no grant twice.
NoRepeats ==
  \A ids \in Batches : \A i \in DOMAIN ids, j \in DOMAIN ids : ids[i] = ids[j] => i = j

\* Such a batch has every grant it names just once.
LEMMA OccursOnce ==
  ASSUME NoRepeats, NEW ids \in Batches, NEW g \in Elements(ids)
  PROVE  Occurrences(g, ids) = 1
  <1> DEFINE at == {i \in DOMAIN ids : ids[i] = g}
  <1>1. ids \in Seq(Nat)
    BY InputAssumption
  <1>2. PICK i \in DOMAIN ids : ids[i] = g
    BY <1>1 DEF Elements
  <1>3. at = {i}
    BY <1>2 DEF NoRepeats
  <1> QED
    BY <1>3, FS_Singleton DEF Occurrences

\* The amount and the dates of a grant never change.
LEMMA TermsKept ==
  ASSUME IInv, [Next]_vars, NEW g \in DOMAIN sched
  PROVE  /\ g \in DOMAIN sched'
         /\ sched'[g].amount = sched[g].amount
         /\ sched'[g].start_time = sched[g].start_time
         /\ sched'[g].duration = sched[g].duration
  <1>1. g \in 1..cnt /\ DOMAIN sched = 1..cnt /\ cnt \in Nat /\ sched[g] \in VestingSchedule
    BY VestingBounds DEF IInv, TypeOK
  <1>2. ASSUME NEW a \in Account, NEW b \in Account, NEW terms \in Terms,
               GrantVesting(a, b, terms)
        PROVE  g \in DOMAIN sched' /\ sched'[g] = sched[g]
    BY <1>1, <1>2 DEF GrantVesting, NextGrant, MapSet
  <1>3. ASSUME NEW a \in Account, NEW x \in 1..MaxGrants, Claim(x, a)
        PROVE  /\ g \in DOMAIN sched'
               /\ sched'[g] = sched[g] \/ sched'[g] = AfterClaim(sched[g])
    BY <1>1, <1>3 DEF Claim
  <1>4. ASSUME NEW a \in Account, NEW ids \in Batches, BatchClaim(ids, a)
        PROVE  /\ g \in DOMAIN sched'
               /\ sched'[g] = sched[g] \/ sched'[g] = AfterClaim(sched[g])
    BY <1>1, <1>4 DEF BatchClaim
  <1>5. ASSUME NEW a \in Account, NEW x \in 1..MaxGrants, NEW delay \in RevokeDelays,
               Revoke(x, a, delay)
        PROVE  /\ g \in DOMAIN sched'
               /\ \/ sched'[g] = sched[g]
                  \/ sched'[g] = [sched[g] EXCEPT !.revoked = TRUE, !.revoke_time = now]
    BY <1>1, <1>5 DEF Revoke
  <1>6. /\ AfterClaim(sched[g]).amount = sched[g].amount
        /\ AfterClaim(sched[g]).start_time = sched[g].start_time
        /\ AfterClaim(sched[g]).duration = sched[g].duration
    BY <1>1 DEF AfterClaim, VestingSchedule
  <1>7. \A s : s = [sched[g] EXCEPT !.revoked = TRUE, !.revoke_time = now] =>
          /\ s.amount = sched[g].amount
          /\ s.start_time = sched[g].start_time
          /\ s.duration = sched[g].duration
    BY <1>1 DEF VestingSchedule
  <1>8. CASE \/ Deposit \/ Tick \/ UNCHANGED vars
             \/ \E a \in Account : Initialize(a)
    BY <1>8 DEF Deposit, Tick, vars, Initialize
  <1> QED
    BY <1>2, <1>3, <1>4, <1>5, <1>6, <1>7, <1>8 DEF Next

\* A grant made by a step has paid nothing.
LEMMA NewGrantUnpaid ==
  ASSUME IInv, [Next]_vars, NEW g \in DOMAIN sched', g \notin DOMAIN sched
  PROVE  paid'[g] = 0 /\ ~sched'[g].claimed /\ ~sched'[g].revoked
  <1>1. DOMAIN sched = 1..cnt /\ DOMAIN paid = 1..cnt
    BY DEF IInv, TypeOK
  <1>2. ASSUME NEW a \in Account, NEW b \in Account, NEW terms \in Terms,
               GrantVesting(a, b, terms)
        PROVE  paid'[g] = 0 /\ ~sched'[g].claimed /\ ~sched'[g].revoked
    BY <1>1, <1>2 DEF GrantVesting, MapSet
  <1>3. ASSUME NEW a \in Account, NEW x \in 1..MaxGrants, Claim(x, a) PROVE FALSE
    BY <1>3 DEF Claim
  <1>4. ASSUME NEW a \in Account, NEW ids \in Batches, BatchClaim(ids, a) PROVE FALSE
    BY <1>4 DEF BatchClaim
  <1>5. ASSUME NEW a \in Account, NEW x \in 1..MaxGrants, NEW delay \in RevokeDelays,
               Revoke(x, a, delay)
        PROVE  FALSE
    BY <1>5 DEF Revoke
  <1>6. CASE \/ Deposit \/ Tick \/ UNCHANGED vars
             \/ \E a \in Account : Initialize(a)
    BY <1>6 DEF Deposit, Tick, vars, Initialize
  <1> QED
    BY <1>2, <1>3, <1>4, <1>5, <1>6 DEF Next

\* What a payment is: the vested part of a claimable grant, as often as the
\* call names it.
LEMMA PaymentIs ==
  ASSUME IInv, [Next]_vars, NEW g \in DOMAIN sched, paid'[g] # paid[g]
  PROVE  /\ ~Overflows(sched[g])
         /\ \/ paid'[g] = Vested(g)
            \/ \E ids \in Batches : /\ g \in Elements(ids)
                                    /\ paid'[g] = Occurrences(g, ids) * Vested(g)
  <1>1. g \in 1..cnt /\ DOMAIN paid = 1..cnt /\ cnt \in Nat /\ paid[g] = 0
    BY PaymentStep, VestingBounds DEF IInv, TypeOK
  <1>2. ASSUME NEW a \in Account, NEW b \in Account, NEW terms \in Terms,
               GrantVesting(a, b, terms)
        PROVE  FALSE
    <2>1. paid' = MapSet(paid, cnt + 1, 0) /\ g # cnt + 1
      BY <1>1, <1>2 DEF GrantVesting, NextGrant
    <2> QED
      BY <1>1, <2>1 DEF MapSet
  <1>3. Vested(g) \in Nat
    BY <1>1, VestedWithin DEF IInv
  <1>4. ASSUME NEW a \in Account, NEW x \in 1..MaxGrants, Claim(x, a)
        PROVE  ~Overflows(sched[g]) /\ paid'[g] = Vested(g)
    <2>1. paid' = [paid EXCEPT ![x] = paid[x] + Vested(x)] /\ ~Overflows(sched[x])
      BY <1>4 DEF Claim, Claimable
    <2>2. x = g
      BY <1>1, <2>1
    <2> QED
      BY <1>1, <1>3, <2>1, <2>2
  <1>5. ASSUME NEW a \in Account, NEW ids \in Batches, BatchClaim(ids, a)
        PROVE  /\ ~Overflows(sched[g])
               /\ g \in Elements(ids) /\ paid'[g] = Occurrences(g, ids) * Vested(g)
    <2>1. g \in Elements(ids)
      BY <1>1, <1>5 DEF BatchClaim
    <2>2. PICK n \in Nat : n = Occurrences(g, ids)
      BY <2>1, OccursAtLeastOnce, InputAssumption
    <2>3. PICK v \in Nat : v = Vested(g)
      BY <1>3
    <2>4. paid'[g] = paid[g] + n * v
      BY <1>1, <1>5, <2>1, <2>2, <2>3 DEF BatchClaim
    <2>5. paid'[g] = n * v
      BY <1>1, <2>4
    <2>6. ~Overflows(sched[g])
      BY <1>5, <2>1 DEF BatchClaim, Claimable
    <2> QED
      BY <2>1, <2>2, <2>3, <2>5, <2>6
  <1>6. CASE \/ Deposit \/ Tick \/ UNCHANGED vars
             \/ \E a \in Account : Initialize(a)
             \/ \E a \in Account, x \in 1..MaxGrants, d \in RevokeDelays : Revoke(x, a, d)
    BY <1>6 DEF Deposit, Tick, vars, Initialize, Revoke
  <1> QED
    BY <1>2, <1>4, <1>5, <1>6 DEF Next

\* Without repetitions one step keeps every grant within its amount.
LEMMA SingleClaimStep ==
  ASSUME NoRepeats, IInv, SingleClaim, [Next]_vars
  PROVE  SingleClaim'
  <1> SUFFICES ASSUME NEW g \in DOMAIN sched' PROVE paid'[g] <= sched'[g].amount
    BY DEF SingleClaim
  <1>1. CASE g \notin DOMAIN sched
    <2>1. paid'[g] = 0
      BY <1>1, NewGrantUnpaid
    <2>2. sched'[g].amount \in Nat
      BY NextIInv DEF IInv, TypeOK, VestingSchedule
    <2> QED
      BY <2>1, <2>2
  <1>2. CASE g \in DOMAIN sched /\ paid'[g] = paid[g]
    BY <1>2, TermsKept DEF SingleClaim
  <1>3. CASE g \in DOMAIN sched /\ paid'[g] # paid[g]
    <2>1. g \in 1..cnt
      BY <1>3 DEF IInv, TypeOK
    <2>2. Vested(g) \in Nat /\ Vested(g) <= sched[g].amount
      BY <2>1, VestedWithin DEF IInv
    <2>3. paid'[g] = Vested(g)
      <3>1. CASE paid'[g] = Vested(g)
        BY <3>1
      <3>2. ASSUME NEW ids \in Batches, g \in Elements(ids),
                   paid'[g] = Occurrences(g, ids) * Vested(g)
            PROVE  paid'[g] = Vested(g)
        BY <2>2, <3>2, OccursOnce
      <3> QED
        BY <1>3, <3>1, <3>2, PaymentIs
    <2> QED
      BY <1>3, <2>2, <2>3, TermsKept
  <1> QED
    BY <1>1, <1>2, <1>3

\* The repetition is the only way round "subsequent attempts return
\* AlreadyClaimed": callers of batch_claim that name no grant twice are never
\* paid more than a grant's amount, in any number of claims and batches.
THEOREM SingleClaimWithoutRepeats ==
  ASSUME NoRepeats
  PROVE  Spec => []SingleClaim
<1>1. Init => SingleClaim
  BY DEF Init, SingleClaim, EmptyMap
<1>2. IInv /\ SingleClaim /\ [Next]_vars => SingleClaim'
  BY SingleClaimStep
<1>3. QED
  BY <1>1, <1>2, InitIInv, NextIInv, PTL DEF Spec

\* Then only a new grant can leave the contract with less than it owes.
THEOREM FundedWithoutRepeats ==
  ASSUME NoRepeats
  PROVE  Spec => [][cnt' = cnt /\ balance >= Owed => balance' >= Owed']_vars
<1>1. ASSUME IInv, SingleClaim, [Next]_vars, cnt' = cnt, balance >= Owed
      PROVE  balance' >= Owed'
  <2>1. ASSUME NEW g \in DOMAIN sched PROVE ~(paid'[g] > sched[g].amount)
    <3>1. paid'[g] <= sched'[g].amount /\ sched'[g].amount = sched[g].amount
      BY <1>1, SingleClaimStep, TermsKept DEF SingleClaim
    <3>2. paid'[g] \in Nat /\ sched[g].amount \in Nat
      <4>1. g \in 1..cnt' /\ IInv'
        BY <1>1, NextIInv DEF IInv, TypeOK
      <4> QED
        BY <1>1, <4>1 DEF IInv, TypeOK, VestingSchedule
    <3> QED
      BY <3>1, <3>2
  <2> QED
    BY <1>1, <2>1, FundedStep
<1>2. IInv /\ SingleClaim /\ [Next]_vars
        => [cnt' = cnt /\ balance >= Owed => balance' >= Owed']_vars
  BY <1>1
<1>3. QED
  BY <1>2, InitIInv, NextIInv, SingleClaimWithoutRepeats, PTL DEF Spec

-----------------------------------------------------------------------------
\* A grant that ends beyond u64 never pays anything.
OverflowUnpaid == \A g \in DOMAIN sched : Overflows(sched[g]) => paid[g] = 0

\* grant_vesting accepts such a grant; every claim of it panics for ever.
THEOREM OverflowNeverPays == Spec => []OverflowUnpaid
<1>1. Init => OverflowUnpaid
  BY DEF Init, OverflowUnpaid, EmptyMap
<1>2. ASSUME IInv, OverflowUnpaid, [Next]_vars PROVE OverflowUnpaid'
  <2> SUFFICES ASSUME NEW g \in DOMAIN sched', Overflows(sched'[g])
               PROVE  paid'[g] = 0
    BY DEF OverflowUnpaid, Overflows
  <2>1. CASE g \notin DOMAIN sched
    BY <1>2, <2>1, NewGrantUnpaid
  <2>2. CASE g \in DOMAIN sched
    <3>1. Overflows(sched[g])
      BY <1>2, <2>2, TermsKept DEF Overflows
    <3>2. paid'[g] = paid[g]
      BY <1>2, <2>2, <3>1, PaymentIs
    <3> QED
      BY <1>2, <2>2, <3>1, <3>2 DEF OverflowUnpaid
  <2> QED
    BY <2>1, <2>2
<1>3. IInv /\ OverflowUnpaid /\ [Next]_vars => OverflowUnpaid'
  BY <1>2
<1>4. QED
  BY <1>1, <1>3, InitIInv, NextIInv, PTL DEF Spec

\* The delay of a revocation counts from the start of the schedule.
RevokedAfterStart ==
  \A g \in DOMAIN sched :
    sched[g].revoked => sched[g].revoke_time >= sched[g].start_time + MinRevokeDelay

\* No grant was given a start that already lay in the past.
NotBackdated == \A g \in DOMAIN sched : grantedAt[g] <= sched[g].start_time

LEMMA RevokedAfterStartStep ==
  ASSUME IInv, RevokedAfterStart, [Next]_vars
  PROVE  RevokedAfterStart'
  <1> SUFFICES ASSUME NEW g \in DOMAIN sched', sched'[g].revoked
               PROVE  sched'[g].revoke_time >= sched'[g].start_time + MinRevokeDelay
    BY DEF RevokedAfterStart
  <1>1. g \in DOMAIN sched
    BY NewGrantUnpaid
  <1>2. /\ g \in 1..cnt /\ DOMAIN sched = 1..cnt /\ cnt \in Nat
        /\ sched[g] \in VestingSchedule
    BY <1>1, VestingBounds DEF IInv, TypeOK
  <1>3. CASE /\ sched'[g].revoked = sched[g].revoked
             /\ sched'[g].revoke_time = sched[g].revoke_time
    BY <1>1, <1>3, TermsKept DEF RevokedAfterStart
  <1>4. ASSUME NEW a \in Account, NEW b \in Account, NEW terms \in Terms,
               GrantVesting(a, b, terms)
        PROVE  sched'[g] = sched[g]
    BY <1>2, <1>4 DEF GrantVesting, NextGrant, MapSet
  <1>5. /\ AfterClaim(sched[g]).revoked = sched[g].revoked
        /\ AfterClaim(sched[g]).revoke_time = sched[g].revoke_time
    BY <1>2 DEF AfterClaim, VestingSchedule
  <1>6. ASSUME NEW a \in Account, NEW x \in 1..MaxGrants, Claim(x, a)
        PROVE  sched'[g] = sched[g] \/ sched'[g] = AfterClaim(sched[g])
    BY <1>2, <1>6 DEF Claim
  <1>7. ASSUME NEW a \in Account, NEW ids \in Batches, BatchClaim(ids, a)
        PROVE  sched'[g] = sched[g] \/ sched'[g] = AfterClaim(sched[g])
    BY <1>2, <1>7 DEF BatchClaim
  <1>8. ASSUME NEW a \in Account, NEW x \in 1..MaxGrants, NEW delay \in RevokeDelays,
               Revoke(x, a, delay)
        PROVE  \/ sched'[g] = sched[g]
               \/ sched'[g].revoke_time >= sched'[g].start_time + MinRevokeDelay
    <2>1. CASE x # g
      BY <1>2, <1>8, <2>1 DEF Revoke
    <2>2. CASE x = g
      <3>1. /\ sched'[g] = [sched[g] EXCEPT !.revoked = TRUE, !.revoke_time = now]
            /\ delay >= MinRevokeDelay /\ now >= sched[g].start_time + delay
        BY <1>2, <1>8, <2>2 DEF Revoke
      <3>2. /\ sched'[g].revoke_time = now
            /\ sched'[g].start_time = sched[g].start_time
        BY <1>2, <3>1 DEF VestingSchedule
      <3>3. /\ now \in Nat /\ delay \in Nat /\ MinRevokeDelay \in Nat
            /\ sched[g].start_time \in Nat
        BY <1>2, VestingBounds, InputAssumption DEF IInv, TypeOK, VestingSchedule
      <3> QED
        BY <3>1, <3>2, <3>3
    <2> QED
      BY <2>1, <2>2
  <1>9. CASE \/ Deposit \/ Tick \/ UNCHANGED vars
             \/ \E a \in Account : Initialize(a)
    BY <1>3, <1>9 DEF Deposit, Tick, vars, Initialize
  <1> QED
    BY <1>3, <1>4, <1>5, <1>6, <1>7, <1>8, <1>9 DEF Next

\* A start in the past is the only way round the delay: while no grant was
\* backdated, none is revoked within the delay of its granting.
THEOREM NoSurpriseUnlessBackdated == Spec => [](NotBackdated => NoSurpriseRevoke)
<1>1. Init => RevokedAfterStart
  BY DEF Init, RevokedAfterStart, EmptyMap
<1>2. IInv /\ RevokedAfterStart /\ [Next]_vars => RevokedAfterStart'
  BY RevokedAfterStartStep
<1>3. ASSUME IInv, RevokedAfterStart, NotBackdated PROVE NoSurpriseRevoke
  <2> SUFFICES ASSUME NEW g \in DOMAIN sched, sched[g].revoked
               PROVE  sched[g].revoke_time >= grantedAt[g] + MinRevokeDelay
    BY DEF NoSurpriseRevoke
  <2>1. /\ sched[g].revoke_time >= sched[g].start_time + MinRevokeDelay
        /\ grantedAt[g] <= sched[g].start_time
    BY <1>3 DEF RevokedAfterStart, NotBackdated
  <2>2. /\ g \in 1..cnt /\ sched[g] \in VestingSchedule
        /\ grantedAt[g] \in 0..MaxTime /\ MaxTime \in Nat
    BY <1>3, VestingBounds DEF IInv, TypeOK
  <2>3. /\ sched[g].revoke_time \in Nat /\ sched[g].start_time \in Nat
        /\ grantedAt[g] \in Nat /\ MinRevokeDelay \in Nat
    BY <2>2, VestingBounds DEF VestingSchedule
  <2> QED
    BY <2>1, <2>3
<1>4. IInv /\ RevokedAfterStart => (NotBackdated => NoSurpriseRevoke)
  BY <1>3
<1>5. QED
  BY <1>1, <1>2, <1>4, InitIInv, NextIInv, PTL DEF Spec

=============================================================================
