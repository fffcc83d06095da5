------------------------------- MODULE Induction -------------------------------
(***************************************************************************)
(* Induction and recursion over the naturals, stated about sets and        *)
(* functions: a set of naturals that is closed is all of them, a bounded   *)
(* set has a greatest member, and an equation that determines each value   *)
(* of a function from its values of smaller measure has a solution. With   *)
(* the last one, what a recursive function definition says of its function *)
(* can be used: the definition only chooses a solution if there is one.    *)
(***************************************************************************)
EXTENDS Integers, FiniteSetTheorems, WellFoundedInduction, TLAPS

\* A set of naturals with a member has a least one.
LEMMA LeastNatural ==
  ASSUME NEW S \in SUBSET Nat, S # {}
  PROVE  \E x \in S : \A y \in S : x <= y
  <1> DEFINE R == {p \in Nat \X Nat : p[1] < p[2]}
  <1>1. IsWellFoundedOn(R, Nat)
    BY NatLessThanWellFounded, Zenon DEF OpToRel
  <1>2. PICK x \in S : \A y \in S : ~(<<y, x>> \in R)
    <2> HIDE DEF R
    <2>1. QED
      BY <1>1, WFMin, Zenon
  <1>3. ASSUME NEW y \in S
        PROVE  x <= y
    <2>1. ~(<<y, x>> \in R)
      BY <1>2
    <2>2. ~(y < x)
      BY <2>1
    <2>3. QED
      BY <2>2
  <1>4. QED
    BY <1>3

\* A bounded set of naturals has a greatest member: there is a least distance
\* to the bound.
LEMMA GreatestNatural ==
  ASSUME NEW n \in Nat, NEW S \in SUBSET (0..n), S # {}
  PROVE  \E x \in S : \A y \in S : y <= x
  <1> DEFINE T == {n - x : x \in S}
  <1>1. T \in SUBSET Nat /\ T # {}
    <2>1. \A x \in S : n - x \in T /\ n - x \in Nat
      OBVIOUS
    <2>2. QED
      BY <2>1
  <1>2. PICK z \in T : \A y \in T : z <= y
    <2> HIDE DEF T
    <2>1. QED
      BY <1>1, LeastNatural
  <1>3. PICK x \in S : z = n - x
    BY <1>2, Zenon
  <1>4. ASSUME NEW y \in S
        PROVE  y <= x
    <2>1. z <= n - y
      BY <1>2
    <2>2. QED
      BY <1>3, <2>1
  <1>5. QED
    BY <1>4

\* A set of naturals that holds 0 and every successor of a member is Nat.
LEMMA ClosedIsNat ==
  ASSUME NEW S \in SUBSET Nat, 0 \in S, \A n \in S : n + 1 \in S
  PROVE  S = Nat
  <1> SUFFICES ASSUME Nat \ S # {} PROVE FALSE
    OBVIOUS
  <1>1. PICK x \in Nat \ S : \A y \in Nat \ S : x <= y
    BY LeastNatural
  <1>2. x # 0 /\ x - 1 \in Nat
    BY <1>1
  <1>3. x - 1 \in S
    BY <1>1, <1>2
  <1>4. QED
    BY <1>1, <1>2, <1>3

\* The same with all smaller members at hand.
LEMMA CompleteIsNat ==
  ASSUME NEW S \in SUBSET Nat,
         \A n \in Nat : (\A k \in Nat : k < n => k \in S) => n \in S
  PROVE  S = Nat
  <1> SUFFICES ASSUME Nat \ S # {} PROVE FALSE
    OBVIOUS
  <1>1. PICK x \in Nat \ S : \A y \in Nat \ S : x <= y
    BY LeastNatural
  <1>2. \A k \in Nat : k < x => k \in S
    BY <1>1
  <1>3. QED
    BY <1>1, <1>2

\* What holds of x when it holds of everything of smaller measure, holds.
LEMMA ByMeasure ==
  ASSUME NEW S, NEW m \in [S -> Nat], NEW P \in SUBSET S,
         \A x \in S : (\A y \in S : m[y] < m[x] => y \in P) => x \in P
  PROVE  P = S
  <1> DEFINE A == {n \in Nat : \A x \in S : m[x] = n => x \in P}
  <1>1. ASSUME NEW n \in Nat, \A k \in Nat : k < n => k \in A
        PROVE  n \in A
    <2>1. ASSUME NEW x \in S, m[x] = n
          PROVE  x \in P
      <3>1. \A y \in S : m[y] < m[x] => y \in P
        BY <1>1, <2>1
      <3>2. QED
        BY <3>1
    <2>2. QED
      BY <2>1
  <1>2. A = Nat
    <2>1. A \in SUBSET Nat
      OBVIOUS
    <2> HIDE DEF A
    <2>2. QED
      BY <1>1, <2>1, CompleteIsNat
  <1>3. QED
    BY <1>2

-----------------------------------------------------------------------------
(* Recursive functions *)

\* D[x][f] is the value at x in terms of f, which it asks only for arguments
\* of smaller measure.
Determined(D, S, T, m) ==
  /\ m \in [S -> Nat]
  /\ D \in [S -> [[S -> T] -> T]]
  /\ \A x \in S : \A f, g \in [S -> T] :
    (\A y \in S : m[y] < m[x] => f[y] = g[y]) => D[x][f] = D[x][g]

\* f solves the equation for the arguments of measure below n.
SolvesBelow(f, n, D, S, m) == \A x \in S : m[x] < n => f[x] = D[x][f]

Unambiguous(D, S, T, m) ==
  \A n \in Nat : \A f, g \in [S -> T] :
    SolvesBelow(f, n, D, S, m) /\ SolvesBelow(g, n, D, S, m)
      => \A x \in S : m[x] < n => f[x] = g[x]

LEMMA SolutionsAgree ==
  ASSUME NEW S, NEW T, NEW m, NEW D, Determined(D, S, T, m)
  PROVE  Unambiguous(D, S, T, m)
  <1> SUFFICES ASSUME NEW n \in Nat,
                      NEW f \in [S -> T], SolvesBelow(f, n, D, S, m),
                      NEW g \in [S -> T], SolvesBelow(g, n, D, S, m)
               PROVE  \A x \in S : m[x] < n => f[x] = g[x]
    BY DEF Unambiguous
  <1> m \in [S -> Nat] /\ D \in [S -> [[S -> T] -> T]]
    BY DEF Determined
  <1> DEFINE A == {k \in Nat : \A x \in S : m[x] = k /\ m[x] < n => f[x] = g[x]}
  <1>1. ASSUME NEW k \in Nat, \A j \in Nat : j < k => j \in A
        PROVE  k \in A
    <2> SUFFICES ASSUME NEW x \in S, m[x] = k, m[x] < n PROVE f[x] = g[x]
      OBVIOUS
    <2>1. ASSUME NEW y \in S, m[y] < m[x]
          PROVE  f[y] = g[y]
      <3>1. m[y] \in A /\ m[y] < n
        BY <1>1, <2>1
      <3>2. QED
        BY <3>1
    <2>2. D[x][f] = D[x][g]
      BY <2>1 DEF Determined
    <2>3. QED
      BY <2>2 DEF SolvesBelow
  <1>2. A = Nat
    <2>1. A \in SUBSET Nat
      OBVIOUS
    <2> HIDE DEF A
    <2>2. QED
      BY <1>1, <2>1, CompleteIsNat
  <1>3. QED
    BY <1>2

\* There is a solution for the arguments below any measure.
LEMMA SolutionBelow ==
  ASSUME NEW S, NEW T, T # {}, NEW m, NEW D, Determined(D, S, T, m), NEW n \in Nat
  PROVE  \E f \in [S -> T] : SolvesBelow(f, n, D, S, m)
  <1> m \in [S -> Nat] /\ D \in [S -> [[S -> T] -> T]]
    BY DEF Determined
  <1> DEFINE A == {k \in Nat : \E f \in [S -> T] : SolvesBelow(f, k, D, S, m)}
  <1>1. 0 \in A
    <2>1. PICK t \in T : TRUE
      OBVIOUS
    <2>2. [x \in S |-> t] \in [S -> T]
      OBVIOUS
    <2>3. \A x \in S : ~(m[x] < 0)
      OBVIOUS
    <2>4. SolvesBelow([x \in S |-> t], 0, D, S, m)
      BY <2>3 DEF SolvesBelow
    <2>5. QED
      BY <2>2, <2>4
  <1>2. ASSUME NEW k \in A
        PROVE  k + 1 \in A
    <2>1. PICK f \in [S -> T] : SolvesBelow(f, k, D, S, m)
      OBVIOUS
    <2> DEFINE g == [x \in S |-> D[x][f]]
    <2>2. g \in [S -> T]
      OBVIOUS
    <2>3. \A y \in S : m[y] < k => f[y] = g[y]
      BY <2>1 DEF SolvesBelow
    <2>4. \A x \in S : g[x] = D[x][f]
      OBVIOUS
    <2> HIDE DEF g
    <2>5. ASSUME NEW x \in S, m[x] < k + 1
          PROVE  g[x] = D[x][g]
      <3>1. \A y \in S : m[y] < m[x] => f[y] = g[y]
        BY <2>3, <2>5
      <3>2. D[x][f] = D[x][g]
        BY <2>2, <3>1 DEF Determined
      <3>3. QED
        BY <2>4, <3>2
    <2>6. SolvesBelow(g, k + 1, D, S, m)
      BY <2>5 DEF SolvesBelow
    <2>7. QED
      BY <2>2, <2>6
  <1>3. A = Nat
    <2>1. A \in SUBSET Nat
      OBVIOUS
    <2> HIDE DEF A
    <2>2. QED
      BY <1>1, <1>2, <2>1, ClosedIsNat
  <1>4. QED
    BY <1>3

\* There is one for all of them: at x it is that of any solution that goes
\* beyond x.
LEMMA SolutionExists ==
  ASSUME NEW S, NEW T, T # {}, NEW m, NEW D, Determined(D, S, T, m)
  PROVE  \E f \in [S -> T] : \A x \in S : f[x] = D[x][f]
  <1>0. \A n \in Nat : \A f, g \in [S -> T] :
          SolvesBelow(f, n, D, S, m) /\ SolvesBelow(g, n, D, S, m)
            => \A x \in S : m[x] < n => f[x] = g[x]
    BY SolutionsAgree DEF Unambiguous
  <1> m \in [S -> Nat] /\ D \in [S -> [[S -> T] -> T]]
    BY DEF Determined
  <1> DEFINE F == [n \in Nat |-> CHOOSE f \in [S -> T] : SolvesBelow(f, n, D, S, m)]
             h == [x \in S |-> F[m[x] + 1][x]]
  <1>1. \A n \in Nat : F[n] \in [S -> T] /\ SolvesBelow(F[n], n, D, S, m)
    BY SolutionBelow
  <1> HIDE DEF F
  <1>2. h \in [S -> T] /\ \A x \in S : h[x] = F[m[x] + 1][x]
    BY <1>1
  <1> HIDE DEF h
  <1>3. ASSUME NEW x \in S
        PROVE  h[x] = D[x][h]
    <2> DEFINE n == m[x] + 1
               f == F[n]
    <2>1. n \in Nat /\ f \in [S -> T] /\ SolvesBelow(f, n, D, S, m)
      BY <1>1
    <2>2. ASSUME NEW y \in S, m[y] < n
          PROVE  h[y] = f[y]
      <3> DEFINE k == m[y] + 1
                 g == F[k]
      <3>1. k \in Nat /\ g \in [S -> T] /\ SolvesBelow(g, k, D, S, m)
        BY <1>1
      <3>2. SolvesBelow(f, k, D, S, m)
        BY <2>1, <2>2, <3>1 DEF SolvesBelow
      <3>3. m[y] < k
        OBVIOUS
      <3>4. h[y] = g[y]
        BY <1>2
      <3> HIDE DEF k, g, f, n
      <3>5. \A z \in S : m[z] < k => g[z] = f[z]
        BY <2>1, <3>1, <3>2, <1>0, Zenon
      <3>6. QED
        BY <3>3, <3>4, <3>5
    <2>3. m[x] < n
      OBVIOUS
    <2> HIDE DEF f, n
    <2>4. f[x] = D[x][f]
      BY <2>1, <2>3 DEF SolvesBelow
    <2>5. D[x][f] = D[x][h]
      <3>1. \A y \in S : m[y] < m[x] => f[y] = h[y]
        BY <2>1, <2>2, <2>3
      <3>2. QED
        BY <1>2, <2>1, <3>1 DEF Determined
    <2>6. h[x] = f[x]
      BY <2>2, <2>3
    <2>7. QED
      BY <2>4, <2>5, <2>6
  <1>4. QED
    BY <1>2, <1>3


-----------------------------------------------------------------------------
(* Sums over finite sets *)

SumFrom(f, g, T) ==
  IF T = {} THEN 0 ELSE LET x == CHOOSE x \in T : TRUE IN f[x] + g[T \ {x}]
\* The sums of f over the subsets of S, and the one over S itself.
Sums(f, S) == CHOOSE g : g = [T \in SUBSET S |-> SumFrom(f, g, T)]
Total(f, S) == Sums(f, S)[S]

SizeOf(S) == [T \in SUBSET S |-> Cardinality(T)]

LEMMA SizesShrink ==
  ASSUME NEW S, IsFiniteSet(S)
  PROVE  /\ SizeOf(S) \in [SUBSET S -> Nat]
         /\ \A T \in SUBSET S : \A x \in T : SizeOf(S)[T \ {x}] < SizeOf(S)[T]
  <1>1. ASSUME NEW T \in SUBSET S
        PROVE  /\ Cardinality(T) \in Nat
               /\ \A x \in T : Cardinality(T \ {x}) = Cardinality(T) - 1
    <2>1. IsFiniteSet(T)
      BY FS_Subset
    <2>2. QED
      BY <2>1, FS_CardinalityType, FS_RemoveElement
  <1>2. \A T \in SUBSET S : \A x \in T : T \ {x} \in SUBSET S
    OBVIOUS
  <1>3. ASSUME NEW T \in SUBSET S, NEW x \in T
        PROVE  SizeOf(S)[T \ {x}] < SizeOf(S)[T]
    <2>1. SizeOf(S)[T \ {x}] = Cardinality(T \ {x}) /\ SizeOf(S)[T] = Cardinality(T)
      BY <1>2, Zenon DEF SizeOf
    <2> DEFINE m == Cardinality(T \ {x})
               n == Cardinality(T)
    <2>2. m = n - 1 /\ n \in Nat
      BY <1>1
    <2> HIDE DEF m, n
    <2>3. m < n
      BY <2>2
    <2>4. QED
      BY <2>1, <2>3 DEF m, n
  <1>4. SizeOf(S) \in [SUBSET S -> Nat]
    BY <1>1, Zenon DEF SizeOf
  <1>5. QED
    BY <1>3, <1>4

\* What holds of a set whenever it holds of the set without one of its members
\* holds of every subset.
LEMMA ByRemoval ==
  ASSUME NEW S, IsFiniteSet(S), NEW P \in SUBSET (SUBSET S),
         \A T \in SUBSET S : (\A x \in T : T \ {x} \in P) => T \in P
  PROVE  P = SUBSET S
  <1> DEFINE D == SUBSET S
             m == SizeOf(S)
  <1>1. m \in [D -> Nat] /\ \A T \in D : \A x \in T : m[T \ {x}] < m[T]
    BY SizesShrink
  <1>2. \A T \in D : \A x \in T : T \ {x} \in D
    OBVIOUS
  <1>3. P \in SUBSET D /\ \A T \in D : (\A x \in T : T \ {x} \in P) => T \in P
    OBVIOUS
  <1> HIDE DEF D, m
  <1>4. \A T \in D : (\A U \in D : m[U] < m[T] => U \in P) => T \in P
    BY <1>1, <1>2, <1>3
  <1>5. P = D
    BY <1>1, <1>3, <1>4, ByMeasure
  <1>6. QED
    BY <1>5 DEF D

LEMMA SumsSolve ==
  ASSUME NEW S, IsFiniteSet(S), NEW f, \A x \in S : f[x] \in Nat
  PROVE  /\ \A T \in SUBSET S : Sums(f, S)[T] = SumFrom(f, Sums(f, S), T)
         /\ \A T \in SUBSET S : Sums(f, S)[T] \in Nat
  <1> DEFINE A == SUBSET S
             N == Nat
             m == SizeOf(S)
             D == [T \in A |-> [g \in [A -> N] |-> SumFrom(f, g, T)]]
  <1>1. \A T \in A : T # {} => LET x == CHOOSE x \in T : TRUE
                               IN  x \in T /\ f[x] \in Nat /\ T \ {x} \in A
    OBVIOUS
  <1>2. m \in [A -> N] /\ \A T \in A : \A x \in T : m[T \ {x}] < m[T]
    BY SizesShrink
  <1> HIDE DEF A, m
  <1>3. ASSUME NEW T \in A, NEW g \in [A -> N]
        PROVE  SumFrom(f, g, T) \in N
    <2>1. CASE T = {}
      BY <2>1 DEF SumFrom
    <2>2. CASE T # {}
      <3> DEFINE x == CHOOSE x \in T : TRUE
      <3>1. SumFrom(f, g, T) = f[x] + g[T \ {x}]
        BY <2>2 DEF SumFrom
      <3>2. f[x] \in Nat /\ T \ {x} \in A
        BY <1>1, <2>2
      <3> HIDE DEF x
      <3>3. QED
        BY <3>1, <3>2
    <2>3. QED
      BY <2>1, <2>2
  <1>4. ASSUME NEW T \in A, NEW g \in [A -> N], NEW h \in [A -> N],
               \A U \in A : m[U] < m[T] => g[U] = h[U]
        PROVE  SumFrom(f, g, T) = SumFrom(f, h, T)
    <2> DEFINE x == CHOOSE x \in T : TRUE
    <2>1. T # {} => g[T \ {x}] = h[T \ {x}]
      BY <1>1, <1>2, <1>4
    <2>2. QED
      BY <2>1, Zenon DEF SumFrom
  <1> HIDE DEF N
  <1>5. D \in [A -> [[A -> N] -> N]]
    BY <1>3
  <1>6. \A T \in A : \A g \in [A -> N] : D[T][g] = SumFrom(f, g, T)
    OBVIOUS
  <1> HIDE DEF D
  <1>7. Determined(D, A, N, m)
    <2>1. \A T \in A : \A g, h \in [A -> N] :
            (\A U \in A : m[U] < m[T] => g[U] = h[U]) => D[T][g] = D[T][h]
      BY <1>4, <1>6
    <2>2. m \in [A -> Nat]
      BY <1>2 DEF N
    <2>3. QED
      BY <1>5, <2>1, <2>2, Zenon DEF Determined
  <1>8. N # {}
    BY 0 \in N DEF N
  <1>9. PICK g \in [A -> N] : \A T \in A : g[T] = D[T][g]
    BY <1>7, <1>8, SolutionExists
  <1>10. g = [T \in A |-> SumFrom(f, g, T)]
    <2>1. \A T \in A : g[T] = SumFrom(f, g, T)
      BY <1>6, <1>9
    <2>2. QED
      BY <2>1, Zenon
  <1> DEFINE F == Sums(f, S)
  <1>11. F = CHOOSE h : h = [T \in A |-> SumFrom(f, h, T)]
    BY DEF Sums, A
  <1> HIDE DEF F
  <1>12. F = [T \in A |-> SumFrom(f, F, T)]
    BY <1>10, <1>11, Zenon
  <1>13. \A T \in A : F[T] = SumFrom(f, F, T)
    BY <1>12, Zenon
  <1> DEFINE P == {T \in A : F[T] \in Nat}
  <1>14. \A T \in A : (\A x \in T : T \ {x} \in P) => T \in P
    <2> SUFFICES ASSUME NEW T \in A, \A x \in T : T \ {x} \in P
                 PROVE  F[T] \in Nat
      OBVIOUS
    <2>1. CASE T = {}
      BY <1>13, <2>1 DEF SumFrom
    <2>2. CASE T # {}
      <3> DEFINE x == CHOOSE x \in T : TRUE
      <3>1. F[T] = f[x] + F[T \ {x}]
        BY <1>13, <2>2 DEF SumFrom
      <3>2. f[x] \in Nat /\ T \ {x} \in P
        BY <1>1, <2>2
      <3> HIDE DEF x
      <3>3. QED
        BY <3>1, <3>2
    <2>3. QED
      BY <2>1, <2>2
  <1>15. P \in SUBSET A
    OBVIOUS
  <1> HIDE DEF P
  <1>16. P = A
    BY <1>14, <1>15, ByRemoval DEF A
  <1>17. QED
    BY <1>13, <1>16 DEF P, F, A

\* The sum of a part does not depend on the set that f is summed over, nor on f
\* elsewhere.
LEMMA SumsAgree ==
  ASSUME NEW S, IsFiniteSet(S), NEW U \in SUBSET S, NEW f, NEW g,
         \A x \in S : f[x] \in Nat, \A x \in U : g[x] = f[x]
  PROVE  \A T \in SUBSET U : Sums(f, S)[T] = Sums(g, U)[T]
  <1> DEFINE F == Sums(f, S)
             G == Sums(g, U)
             A == SUBSET U
             P == {T \in A : F[T] = G[T]}
  <1>1. IsFiniteSet(U) /\ \A x \in U : g[x] \in Nat
    BY FS_Subset
  <1>2. \A T \in A : F[T] = SumFrom(f, F, T) /\ G[T] = SumFrom(g, G, T)
    <2>1. \A T \in SUBSET S : F[T] = SumFrom(f, F, T)
      BY SumsSolve
    <2>2. \A T \in SUBSET U : G[T] = SumFrom(g, G, T)
      BY <1>1, SumsSolve
    <2>3. QED
      BY <2>1, <2>2
  <1> HIDE DEF F, G
  <1>3. \A T \in A : (\A x \in T : T \ {x} \in P) => T \in P
    <2> SUFFICES ASSUME NEW T \in A, \A x \in T : T \ {x} \in P
                 PROVE  F[T] = G[T]
      OBVIOUS
    <2>1. CASE T = {}
      BY <1>2, <2>1 DEF SumFrom
    <2>2. CASE T # {}
      <3> DEFINE x == CHOOSE x \in T : TRUE
      <3>1. F[T] = f[x] + F[T \ {x}] /\ G[T] = g[x] + G[T \ {x}]
        BY <1>2, <2>2 DEF SumFrom
      <3>2. x \in T /\ f[x] = g[x] /\ T \ {x} \in P
        BY <2>2
      <3> HIDE DEF x
      <3>3. QED
        BY <3>1, <3>2
    <2>3. QED
      BY <2>1, <2>2
  <1>4. P \in SUBSET A
    OBVIOUS
  <1> HIDE DEF P
  <1>5. P = A
    BY <1>1, <1>3, <1>4, ByRemoval DEF A
  <1>6. QED
    BY <1>5 DEF P, F, G, A

\* One more member adds its value, whichever member the sum chooses first.
LEMMA SumsAdd ==
  ASSUME NEW S, IsFiniteSet(S), NEW f, \A x \in S : f[x] \in Nat
  PROVE  \A T \in SUBSET S : \A x \in T : Sums(f, S)[T] = f[x] + Sums(f, S)[T \ {x}]
  <1> DEFINE F == Sums(f, S)
             A == SUBSET S
             P == {T \in A : \A x \in T : F[T] = f[x] + F[T \ {x}]}
  <1>1. \A T \in A : F[T] = SumFrom(f, F, T) /\ F[T] \in Nat
    BY SumsSolve
  <1> HIDE DEF F
  <1>2. \A T \in A : (\A x \in T : T \ {x} \in P) => T \in P
    <2> SUFFICES ASSUME NEW T \in A, \A x \in T : T \ {x} \in P, NEW x \in T
                 PROVE  F[T] = f[x] + F[T \ {x}]
      OBVIOUS
    <2> DEFINE y == CHOOSE y \in T : TRUE
    <2>1. F[T] = f[y] + F[T \ {y}] /\ y \in T
      BY <1>1 DEF SumFrom
    <2> HIDE DEF y
    <2>2. CASE x = y
      BY <2>1, <2>2
    <2>3. CASE x # y
      <3> DEFINE U == (T \ {x}) \ {y}
      <3>1. T \ {x} \in P /\ T \ {y} \in P /\ y \in T \ {x} /\ x \in T \ {y}
        BY <2>1, <2>3
      <3>2. (T \ {y}) \ {x} = U
        OBVIOUS
      <3>3. F[T \ {y}] = f[x] + F[(T \ {y}) \ {x}]
        BY <3>1
      <3>4. F[T \ {x}] = f[y] + F[U]
        BY <3>1
      <3>5. U \in A /\ x \in S /\ y \in S
        BY <2>1
      <3>6. F[U] \in Nat /\ f[x] \in Nat /\ f[y] \in Nat
        BY <1>1, <3>5
      <3> HIDE DEF U, P
      <3>7. F[T \ {y}] = f[x] + F[U]
        BY <3>2, <3>3
      <3>8. QED
        BY <2>1, <3>4, <3>6, <3>7
    <2>4. QED
      BY <2>2, <2>3
  <1>3. P \in SUBSET A
    OBVIOUS
  <1> HIDE DEF P
  <1>4. P = A
    BY <1>2, <1>3, ByRemoval DEF A
  <1>5. QED
    BY <1>4 DEF P, F, A

LEMMA TotalOfNone ==
  ASSUME NEW f
  PROVE  Total(f, {}) = 0
  <1>1. IsFiniteSet({})
    BY FS_EmptySet
  <1>2. {} \in SUBSET {} /\ \A x \in {} : f[x] \in Nat
    OBVIOUS
  <1>3. Sums(f, {})[{}] = SumFrom(f, Sums(f, {}), {})
    BY <1>1, <1>2, SumsSolve
  <1>4. QED
    BY <1>3 DEF Total, SumFrom

LEMMA TotalIsNat ==
  ASSUME NEW S, IsFiniteSet(S), NEW f, \A x \in S : f[x] \in Nat
  PROVE  Total(f, S) \in Nat
  <1>1. S \in SUBSET S
    OBVIOUS
  <1>2. Sums(f, S)[S] \in Nat
    BY <1>1, SumsSolve
  <1>3. QED
    BY <1>2 DEF Total

LEMMA TotalsAgree ==
  ASSUME NEW S, IsFiniteSet(S), NEW f, NEW g,
         \A x \in S : f[x] \in Nat, \A x \in S : g[x] = f[x]
  PROVE  Total(g, S) = Total(f, S)
  <1>1. S \in SUBSET S
    OBVIOUS
  <1>2. \A T \in SUBSET S : Sums(f, S)[T] = Sums(g, S)[T]
    BY <1>1, SumsAgree
  <1>3. QED
    BY <1>1, <1>2 DEF Total

LEMMA TotalWithout ==
  ASSUME NEW S, IsFiniteSet(S), NEW f, \A x \in S : f[x] \in Nat, NEW a \in S
  PROVE  Total(f, S) = f[a] + Total(f, S \ {a})
  <1> DEFINE U == S \ {a}
  <1>1. U \in SUBSET S /\ U \in SUBSET U /\ S \in SUBSET S
    OBVIOUS
  <1>2. Sums(f, S)[S] = f[a] + Sums(f, S)[U]
    BY <1>1, SumsAdd
  <1> HIDE DEF U
  <1>3. \A T \in SUBSET U : Sums(f, S)[T] = Sums(f, U)[T]
    BY <1>1, SumsAgree
  <1>4. QED
    BY <1>1, <1>2, <1>3 DEF Total, U

\* Where f and g differ at a only, so do their sums.
LEMMA TotalChanges ==
  ASSUME NEW S, IsFiniteSet(S), NEW f, \A x \in S : f[x] \in Nat,
         NEW g, NEW a \in S, g[a] \in Nat, \A x \in S \ {a} : g[x] = f[x]
  PROVE  Total(g, S) - g[a] = Total(f, S) - f[a]
  <1> DEFINE U == S \ {a}
  <1>1. IsFiniteSet(U) /\ \A x \in U : f[x] \in Nat /\ g[x] = f[x]
    BY FS_Subset
  <1>2. \A x \in S : g[x] \in Nat
    OBVIOUS
  <1>3. Total(f, S) = f[a] + Total(f, U) /\ Total(g, S) = g[a] + Total(g, U)
    BY <1>2, TotalWithout
  <1> HIDE DEF U
  <1>4. Total(g, U) = Total(f, U) /\ Total(f, U) \in Nat
    BY <1>1, TotalsAgree, TotalIsNat
  <1>5. f[a] \in Nat
    OBVIOUS
  <1>6. QED
    BY <1>3, <1>4, <1>5

LEMMA TotalOfZeros ==
  ASSUME NEW S, IsFiniteSet(S), NEW f, \A x \in S : f[x] = 0
  PROVE  Total(f, S) = 0
  <1> DEFINE F == Sums(f, S)
             A == SUBSET S
             P == {T \in A : F[T] = 0}
  <1>1. \A x \in S : f[x] \in Nat
    OBVIOUS
  <1>2. \A T \in A : F[T] = SumFrom(f, F, T)
    BY <1>1, SumsSolve
  <1> HIDE DEF F
  <1>3. \A T \in A : (\A x \in T : T \ {x} \in P) => T \in P
    <2> SUFFICES ASSUME NEW T \in A, \A x \in T : T \ {x} \in P
                 PROVE  F[T] = 0
      OBVIOUS
    <2> DEFINE x == CHOOSE x \in T : TRUE
    <2>1. T # {} => F[T] = f[x] + F[T \ {x}] /\ f[x] = 0 /\ F[T \ {x}] = 0
      BY <1>2 DEF SumFrom
    <2>2. T = {} => F[T] = 0
      BY <1>2 DEF SumFrom
    <2> HIDE DEF x
    <2>3. QED
      BY <2>1, <2>2
  <1>4. P \in SUBSET A
    OBVIOUS
  <1> HIDE DEF P
  <1>5. P = A
    BY <1>3, <1>4, ByRemoval DEF A
  <1>6. QED
    BY <1>5 DEF Total, P, F, A

\* Members whose value is 0 add nothing.
LEMMA TotalOfPart ==
  ASSUME NEW S, IsFiniteSet(S), NEW f, \A x \in S : f[x] \in Nat,
         NEW U \in SUBSET S, \A x \in S \ U : f[x] = 0
  PROVE  Total(f, S) = Total(f, U)
  <1> DEFINE R == S \ U
             A == SUBSET R
             P == {T \in A : Total(f, U \cup T) = Total(f, U)}
  <1>1. \A T \in A : (\A x \in T : T \ {x} \in P) => T \in P
    <2> SUFFICES ASSUME NEW T \in A, \A x \in T : T \ {x} \in P
                 PROVE  Total(f, U \cup T) = Total(f, U)
      OBVIOUS
    <2>1. CASE T = {}
      <3>1. U \cup T = U
        BY <2>1
      <3>2. QED
        BY <3>1
    <2>2. CASE T # {}
      <3>1. PICK a \in T : TRUE
        BY <2>2
      <3> DEFINE W == U \cup T
                 V == U \cup (T \ {a})
      <3>2. Total(f, V) = Total(f, U)
        BY <3>1
      <3>3. W \ {a} = V /\ W \in SUBSET S /\ V \in SUBSET S /\ a \in W /\ f[a] = 0
        BY <3>1
      <3>4. IsFiniteSet(W) /\ IsFiniteSet(V) /\ \A x \in W : f[x] \in Nat
        BY <3>3, FS_Subset
      <3>5. \A x \in V : f[x] \in Nat
        BY <3>3
      <3> HIDE DEF W, V
      <3>6. Total(f, W) = f[a] + Total(f, W \ {a})
        BY <3>3, <3>4, TotalWithout
      <3>7. Total(f, V) \in Nat
        BY <3>4, <3>5, TotalIsNat
      <3> DEFINE z == Total(f, V)
      <3>8. Total(f, W) = 0 + z /\ z \in Nat
        BY <3>3, <3>6, <3>7
      <3> HIDE DEF z
      <3>9. Total(f, W) = z
        BY <3>8
      <3>10. QED
        BY <3>2, <3>9 DEF z, W
    <2>3. QED
      BY <2>1, <2>2
  <1>2. P \in SUBSET A
    OBVIOUS
  <1>3. IsFiniteSet(R)
    BY FS_Subset
  <1> HIDE DEF P, R
  <1>4. P = A
    BY <1>1, <1>2, <1>3, ByRemoval DEF A
  <1>5. R \in P /\ U \cup R = S
    BY <1>4 DEF R
  <1>6. QED
    BY <1>5 DEF P

\* g is f, but for a, where it is k more.
Raised(f, g, S, a, k) ==
  /\ IsFiniteSet(S) /\ (\A x \in S : f[x] \in Nat)
  /\ a \in S /\ k \in Nat /\ g[a] = f[a] + k
  /\ \A x \in S \ {a} : g[x] = f[x]

\* Where one value grows by k, so does the sum.
LEMMA TotalRaised ==
  ASSUME NEW S, NEW f, NEW g, NEW a, NEW k, Raised(f, g, S, a, k)
  PROVE  Total(g, S) = Total(f, S) + k
  <1> USE DEF Raised
  <1> DEFINE U == S \ {a}
  <1>1. IsFiniteSet(U) /\ (\A x \in U : f[x] \in Nat) /\ (\A x \in U : g[x] = f[x])
    BY FS_Subset
  <1>2. \A x \in S : g[x] \in Nat
    OBVIOUS
  <1>3. Total(f, S) = f[a] + Total(f, U) /\ Total(g, S) = g[a] + Total(g, U)
    BY <1>2, TotalWithout
  <1> HIDE DEF U
  <1>4. Total(g, U) = Total(f, U) /\ Total(f, U) \in Nat
    BY <1>1, TotalsAgree, TotalIsNat
  <1> DEFINE z == Total(f, U)
  <1>5. Total(f, S) = f[a] + z /\ Total(g, S) = (f[a] + k) + z /\ z \in Nat /\ f[a] \in Nat
    BY <1>3, <1>4
  <1> HIDE DEF z
  <1>6. QED
    BY <1>5
=============================================================================
