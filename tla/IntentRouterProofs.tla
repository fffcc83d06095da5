------------------------- MODULE IntentRouterProofs -------------------------
(***************************************************************************)
(* Theorems about IntentRouter, for every set of agents, segments,         *)
(* subscriptions and messages and every bound on the dead letters.         *)
(***************************************************************************)
EXTENDS IntentRouter, Induction, SequenceTheorems

-----------------------------------------------------------------------------
(* The wildcard recursion finds a cut whenever there is one.               *)

\* The piece of t between two cuts is one that the segment x stands for.
Piece(x, t, from, to) ==
  IF x = "**" THEN to >= from ELSE to = from + 1 /\ x \in {"*", t[to]}

Cuts(p, t) ==
  {cut \in [0..Len(p) -> 0..Len(t)] :
     /\ cut[0] = 0 /\ cut[Len(p)] = Len(t)
     /\ \A i \in 1..Len(p) : Piece(p[i], t, cut[i - 1], cut[i])}

\* The topic that is left after its first k segments.
After(t, k) == SubSeq(t, k + 1, Len(t))

LEMMA AfterParts ==
  ASSUME NEW t \in Topics, NEW k \in 0..Len(t)
  PROVE  /\ After(t, k) \in Topics /\ Len(After(t, k)) = Len(t) - k
         /\ \A i \in 1..(Len(t) - k) : After(t, k)[i] = t[k + i]
  <1> DEFINE m == k + 1
             n == Len(t)
             u == SubSeq(t, m, n)
  <1>1. m \in Int /\ n \in Nat /\ k \in Nat /\ \A i \in m..n : t[i] \in Segments
    BY DEF Topics
  <1> HIDE DEF m, n
  <1>2. /\ u \in Seq(Segments)
        /\ Len(u) = IF m <= n THEN n - m + 1 ELSE 0
        /\ \A i \in 1..(n - m + 1) : u[i] = t[m + i - 1]
    BY <1>1, SubSeqProperties
  <1> HIDE DEF u
  <1>3. Len(u) = n - k /\ \A i \in 1..(n - k) : u[i] = t[k + i]
    <2>1. n - m + 1 = n - k /\ \A i \in 1..(n - k) : m + i - 1 = k + i
      BY <1>1 DEF m
    <2>2. k <= n
      BY DEF n
    <2>3. QED
      BY <1>1, <1>2, <2>1, <2>2 DEF m
  <1>4. QED
    BY <1>2, <1>3 DEF u, m, n, After, Topics

LEMMA CutsRise ==
  ASSUME NEW p \in Patterns, p # <<>>, NEW t \in Topics, NEW cut \in Cuts(p, t)
  PROVE  \A i \in 1..Len(p) : cut[i] >= cut[1]
  <1> DEFINE S == {n \in Nat : n + 1 \in 1..Len(p) => cut[n + 1] >= cut[1]}
  <1>1. /\ Len(p) \in Nat /\ Len(t) \in Nat
        /\ \A i \in 0..Len(p) : cut[i] \in 0..Len(t)
    BY DEF Patterns, Topics, Cuts
  <1>2. 0 \in S
    BY <1>1
  <1>3. ASSUME NEW n \in S
        PROVE  n + 1 \in S
    <2> SUFFICES ASSUME n + 2 \in 1..Len(p) PROVE cut[n + 2] >= cut[1]
      BY <1>1
    <2>1. n + 1 \in 1..Len(p) /\ n + 2 \in 0..Len(p) /\ 1 \in 0..Len(p)
      BY <1>1
    <2>2. Piece(p[n + 2], t, cut[n + 1], cut[n + 2])
      BY <1>1, <2>1 DEF Cuts
    <2>3. cut[n + 2] >= cut[n + 1]
      BY <1>1, <2>1, <2>2 DEF Piece
    <2>4. cut[n + 1] >= cut[1]
      BY <2>1
    <2>5. QED
      BY <1>1, <2>1, <2>3, <2>4
  <1>4. S = Nat
    <2>1. S \in SUBSET Nat
      OBVIOUS
    <2> HIDE DEF S
    <2>2. QED
      BY <1>2, <1>3, <2>1, ClosedIsNat
  <1>5. ASSUME NEW i \in 1..Len(p)
        PROVE  cut[i] >= cut[1]
    <2>1. i - 1 \in Nat /\ (i - 1) + 1 = i
      BY <1>1
    <2>2. \A n \in Nat : n + 1 \in 1..Len(p) => cut[n + 1] >= cut[1]
      BY <1>4
    <2>3. QED
      BY <2>1, <2>2
  <1>6. QED
    BY <1>5

LEMMA TailOfPattern ==
  ASSUME NEW p \in Patterns, p # <<>>
  PROVE  /\ Tail(p) \in Patterns /\ Len(Tail(p)) = Len(p) - 1 /\ Len(p) \in Nat /\ Len(p) > 0
         /\ Head(p) = p[1]
         /\ \A i \in 1..(Len(p) - 1) : Tail(p)[i] = p[i + 1]
  BY HeadTailProperties DEF Patterns

\* A topic can be cut for a pattern when some first piece fits the first
\* segment and what is left can be cut for the rest of the pattern.
LEMMA FirstCut ==
  ASSUME NEW p \in Patterns, p # <<>>, NEW t \in Topics, NEW cut \in Cuts(p, t)
  PROVE  \E k \in 0..Len(t) : /\ Piece(p[1], t, 0, k)
                              /\ Cuts(Tail(p), After(t, k)) # {}
  <1> DEFINE k == cut[1]
             q == Tail(p)
             u == After(t, k)
             rest == [i \in 0..(Len(p) - 1) |-> cut[i + 1] - k]
  <1>1. /\ Len(p) \in Nat /\ Len(t) \in Nat /\ Len(p) > 0
        /\ \A i \in 0..Len(p) : cut[i] \in 0..Len(t)
        /\ cut[0] = 0 /\ cut[Len(p)] = Len(t)
        /\ \A i \in 1..Len(p) : Piece(p[i], t, cut[i - 1], cut[i])
    BY TailOfPattern DEF Topics, Cuts
  <1>2. k \in 0..Len(t) /\ Piece(p[1], t, 0, k)
    <2>1. 1 \in 1..Len(p) /\ 1 \in 0..Len(p) /\ 1 - 1 = 0
      BY <1>1
    <2>2. Piece(p[1], t, cut[1 - 1], cut[1])
      BY <1>1, <2>1
    <2>3. QED
      BY <1>1, <2>1, <2>2
  <1>3. \A i \in 1..Len(p) : cut[i] >= k
    BY CutsRise
  <1>4. /\ u \in Topics /\ Len(u) = Len(t) - k
        /\ \A i \in 1..(Len(t) - k) : u[i] = t[k + i]
    BY <1>2, AfterParts
  <1>5. /\ q \in Patterns /\ Len(q) = Len(p) - 1
        /\ \A i \in 1..(Len(p) - 1) : q[i] = p[i + 1]
    BY TailOfPattern
  <1>6. rest \in [0..(Len(p) - 1) -> 0..(Len(t) - k)]
    <2>1. ASSUME NEW i \in 0..(Len(p) - 1)
          PROVE  cut[i + 1] - k \in 0..(Len(t) - k)
      <3>1. i + 1 \in 1..Len(p) /\ i + 1 \in 0..Len(p)
        BY <1>1
      <3>2. cut[i + 1] >= k /\ cut[i + 1] \in 0..Len(t) /\ k \in Nat
        BY <1>1, <1>2, <1>3, <3>1
      <3>3. QED
        BY <1>1, <3>2
    <2>2. QED
      BY <2>1
  <1>7. \A i \in 0..(Len(p) - 1) : rest[i] = cut[i + 1] - k
    OBVIOUS
  <1>8. k = cut[1]
    OBVIOUS
  <1> HIDE DEF rest, u, q, k
  <1>9. rest[0] = 0 /\ rest[Len(p) - 1] = Len(t) - k
    <2>1. 0 \in 0..(Len(p) - 1) /\ Len(p) - 1 \in 0..(Len(p) - 1)
          /\ (Len(p) - 1) + 1 = Len(p) /\ 0 + 1 = 1 /\ k - k = 0
      BY <1>1, <1>2
    <2>2. QED
      BY <1>1, <1>7, <1>8, <2>1
  <1>10. ASSUME NEW i \in 1..(Len(p) - 1)
         PROVE  Piece(q[i], u, rest[i - 1], rest[i])
    <2>1. /\ i + 1 \in 1..Len(p) /\ (i + 1) - 1 = i /\ i \in 0..(Len(p) - 1)
          /\ i - 1 \in 0..(Len(p) - 1) /\ (i - 1) + 1 = i /\ i \in 0..Len(p)
          /\ i + 1 \in 0..Len(p)
      BY <1>1
    <2> DEFINE from == cut[i]
               to == cut[i + 1]
    <2>2. Piece(p[i + 1], t, from, to) /\ q[i] = p[i + 1]
      BY <1>1, <1>5, <2>1
    <2>3. /\ rest[i - 1] = from - k /\ rest[i] = to - k
          /\ from \in Nat /\ to \in 0..Len(t) /\ k \in Nat
          /\ rest[i] \in 0..(Len(t) - k) /\ rest[i - 1] \in 0..(Len(t) - k)
      <3>1. rest[i - 1] = from - k /\ rest[i] = to - k
        BY <1>7, <2>1
      <3>2. from \in Nat /\ to \in 0..Len(t) /\ k \in Nat
        BY <1>1, <1>2, <2>1
      <3>3. rest[i] \in 0..(Len(t) - k) /\ rest[i - 1] \in 0..(Len(t) - k)
        BY <1>6, <2>1
      <3>4. QED
        BY <3>1, <3>2, <3>3
    <2> HIDE DEF from, to
    <2>4. CASE q[i] = "**"
      BY <2>2, <2>3, <2>4 DEF Piece
    <2>5. CASE q[i] # "**"
      <3>1. to = from + 1 /\ q[i] \in {"*", t[to]}
        BY <2>2, <2>5 DEF Piece
      <3>2. rest[i] = rest[i - 1] + 1 /\ rest[i] \in 1..(Len(t) - k) /\ k + rest[i] = to
        BY <1>1, <2>3, <3>1
      <3>3. u[rest[i]] = t[to]
        BY <1>4, <3>2
      <3>4. QED
        BY <2>5, <3>1, <3>2, <3>3 DEF Piece
    <2>6. QED
      BY <2>4, <2>5
  <1>11. rest \in Cuts(q, u)
    BY <1>4, <1>5, <1>6, <1>9, <1>10 DEF Cuts
  <1>12. QED
    BY <1>2, <1>11 DEF u, q

LEMMA CutAhead ==
  ASSUME NEW p \in Patterns, p # <<>>, NEW t \in Topics, NEW k \in 0..Len(t),
         Piece(p[1], t, 0, k), NEW rest \in Cuts(Tail(p), After(t, k))
  PROVE  Cuts(p, t) # {}
  <1> DEFINE q == Tail(p)
             u == After(t, k)
             cut == [i \in 0..Len(p) |-> IF i = 0 THEN 0 ELSE rest[i - 1] + k]
  <1>1. /\ q \in Patterns /\ Len(q) = Len(p) - 1 /\ Len(p) \in Nat /\ Len(p) > 0
        /\ \A i \in 1..(Len(p) - 1) : q[i] = p[i + 1]
    BY TailOfPattern
  <1>2. /\ u \in Topics /\ Len(u) = Len(t) - k /\ Len(t) \in Nat
        /\ \A i \in 1..(Len(t) - k) : u[i] = t[k + i]
    BY AfterParts DEF Topics
  <1>3. /\ \A i \in 0..(Len(p) - 1) : rest[i] \in 0..(Len(t) - k)
        /\ rest[0] = 0 /\ rest[Len(p) - 1] = Len(t) - k
        /\ \A i \in 1..(Len(p) - 1) : Piece(q[i], u, rest[i - 1], rest[i])
    <2> HIDE DEF q, u
    <2>1. rest \in Cuts(q, u)
      BY DEF q, u
    <2>2. QED
      BY <1>1, <1>2, <2>1 DEF Cuts
  <1>4. cut \in [0..Len(p) -> 0..Len(t)]
    <2>1. ASSUME NEW i \in 0..Len(p), i # 0
          PROVE  rest[i - 1] + k \in 0..Len(t)
      <3>1. i - 1 \in 0..(Len(p) - 1)
        BY <1>1, <2>1
      <3>2. rest[i - 1] \in 0..(Len(t) - k)
        BY <1>3, <3>1
      <3>3. QED
        BY <1>2, <3>2
    <2>2. QED
      BY <1>2, <2>1
  <1>5. \A i \in 0..Len(p) : cut[i] = IF i = 0 THEN 0 ELSE rest[i - 1] + k
    OBVIOUS
  <1> HIDE DEF cut, q, u
  <1>6. cut[0] = 0 /\ cut[Len(p)] = Len(t)
    <2>1. 0 \in 0..Len(p) /\ Len(p) \in 0..Len(p) /\ Len(p) # 0 /\ (Len(t) - k) + k = Len(t)
      BY <1>1, <1>2
    <2>2. QED
      BY <1>3, <1>5, <2>1
  <1>7. ASSUME NEW i \in 1..Len(p)
        PROVE  Piece(p[i], t, cut[i - 1], cut[i])
    <2>1. CASE i = 1
      <3>1. 0 \in 0..Len(p) /\ 1 \in 0..Len(p) /\ 1 - 1 = 0 /\ 0 + k = k
        BY <1>1
      <3>2. cut[1] = k
        BY <1>3, <1>5, <3>1
      <3>3. QED
        BY <1>6, <2>1, <3>1, <3>2
    <2>2. CASE i # 1
      <3> DEFINE j == i - 1
                 from == rest[j - 1]
                 to == rest[j]
      <3>1. j \in 1..(Len(p) - 1) /\ j + 1 = i /\ j - 1 \in 0..(Len(p) - 1)
            /\ j \in 0..(Len(p) - 1) /\ j \in 0..Len(p) /\ i \in 0..Len(p)
            /\ j # 0 /\ i # 0
        BY <1>1, <2>2
      <3>2. cut[i] = to + k /\ cut[j] = from + k
        BY <1>5, <3>1
      <3>3. Piece(q[j], u, from, to) /\ q[j] = p[i]
        BY <1>1, <1>3, <3>1
      <3>4. from \in Nat /\ to \in 0..(Len(t) - k) /\ k \in Nat
        BY <1>2, <1>3, <3>1
      <3>5. j = i - 1
        OBVIOUS
      <3> HIDE DEF from, to, j
      <3>6. CASE p[i] = "**"
        BY <3>2, <3>3, <3>4, <3>5, <3>6 DEF Piece
      <3>7. CASE p[i] # "**"
        <4>1. to = from + 1 /\ p[i] \in {"*", u[to]}
          BY <3>3, <3>7 DEF Piece
        <4>2. to \in 1..(Len(t) - k) /\ k + to = to + k /\ cut[i] = cut[j] + 1
          BY <3>2, <3>4, <4>1
        <4>3. u[to] = t[to + k]
          BY <1>2, <4>2
        <4>4. QED
          BY <3>2, <3>5, <3>7, <4>1, <4>2, <4>3 DEF Piece
      <3>8. QED
        BY <3>6, <3>7
    <2>3. QED
      BY <2>1, <2>2
  <1>8. QED
    BY <1>4, <1>6, <1>7 DEF Cuts

LEMMA NoCuts == ASSUME NEW t \in Topics PROVE Cuts(<<>>, t) # {} <=> t = <<>>
  <1>1. Len(<<>>) = 0 /\ Len(t) \in Nat /\ (t = <<>> <=> Len(t) = 0)
    BY EmptySeq DEF Topics
  <1>2. ASSUME NEW cut \in Cuts(<<>>, t)
        PROVE  Len(t) = 0
    BY <1>1 DEF Cuts
  <1>3. ASSUME Len(t) = 0
        PROVE  [i \in 0..0 |-> 0] \in Cuts(<<>>, t)
    BY <1>1, <1>3 DEF Cuts
  <1>4. QED
    BY <1>1, <1>2, <1>3

LEMMA CutsFirst ==
  ASSUME NEW p \in Patterns, p # <<>>, NEW t \in Topics
  PROVE  Cuts(p, t) # {} <=>
           \E k \in 0..Len(t) : Piece(p[1], t, 0, k) /\ Cuts(Tail(p), After(t, k)) # {}
  <1>1. ASSUME NEW cut \in Cuts(p, t)
        PROVE  \E k \in 0..Len(t) : Piece(p[1], t, 0, k) /\ Cuts(Tail(p), After(t, k)) # {}
    BY FirstCut
  <1>2. ASSUME NEW k \in 0..Len(t), Piece(p[1], t, 0, k), Cuts(Tail(p), After(t, k)) # {}
        PROVE  Cuts(p, t) # {}
    <2>1. PICK rest \in Cuts(Tail(p), After(t, k)) : TRUE
      BY <1>2
    <2>2. QED
      BY <1>2, CutAhead
  <1>3. QED
    BY <1>1, <1>2

-----------------------------------------------------------------------------
(* The recursion of mqtt_match_segments.                                   *)

Arguments == Patterns \X Topics
Wildcards == [c \in Arguments |-> Len(c[1])]

MatchFrom(f, c) ==
  LET p == c[1]  t == c[2]
  IN  \/ p = <<>> /\ t = <<>>
      \/ /\ p # <<>> /\ Head(p) = "**"
         /\ \E skip \in 0..Len(t) : f[<<Tail(p), SubSeq(t, skip + 1, Len(t))>>]
      \/ /\ p # <<>> /\ t # <<>> /\ Head(p) \in {"*", Head(t)}
         /\ f[<<Tail(p), Tail(t)>>]

LEMMA ArgumentParts ==
  /\ \A c \in Arguments : c[1] \in Patterns /\ c[2] \in Topics
  /\ \A p \in Patterns : \A t \in Topics :
       <<p, t>> \in Arguments /\ <<p, t>>[1] = p /\ <<p, t>>[2] = t
  BY DEF Arguments

LEMMA WildcardsTyped ==
  /\ Wildcards \in [Arguments -> Nat]
  /\ \A c \in Arguments : Wildcards[c] = Len(c[1])
  <1>1. \A c \in Arguments : Len(c[1]) \in Nat
    BY ArgumentParts DEF Patterns
  <1>2. QED
    BY <1>1 DEF Wildcards

\* What is asked for next has one segment less.
LEMMA MatchGoesOn ==
  ASSUME NEW c \in Arguments, c[1] # <<>>
  PROVE  /\ \A k \in 0..Len(c[2]) :
              LET d == <<Tail(c[1]), After(c[2], k)>>
              IN  d \in Arguments /\ Wildcards[d] < Wildcards[c]
         /\ c[2] # <<>> => 1 \in 0..Len(c[2]) /\ Tail(c[2]) = After(c[2], 1)
  <1>1. c[1] \in Patterns /\ c[2] \in Topics
    BY ArgumentParts
  <1>2. Tail(c[1]) \in Patterns /\ Len(Tail(c[1])) = Len(c[1]) - 1 /\ Len(c[1]) \in Nat
    BY <1>1, TailOfPattern
  <1>3. ASSUME NEW k \in 0..Len(c[2])
        PROVE  LET d == <<Tail(c[1]), After(c[2], k)>>
               IN  d \in Arguments /\ Wildcards[d] < Wildcards[c]
    <2> DEFINE d == <<Tail(c[1]), After(c[2], k)>>
    <2>1. d \in Arguments /\ d[1] = Tail(c[1])
      BY <1>1, <1>2, AfterParts, ArgumentParts
    <2> HIDE DEF d
    <2>2. Wildcards[d] = Len(Tail(c[1])) /\ Wildcards[c] = Len(c[1])
      BY <2>1, WildcardsTyped
    <2>3. Wildcards[d] < Wildcards[c]
      BY <1>2, <2>2
    <2>4. QED
      BY <2>1, <2>3 DEF d
  <1>4. ASSUME c[2] # <<>>
        PROVE  1 \in 0..Len(c[2]) /\ Tail(c[2]) = After(c[2], 1)
    <2>1. Len(c[2]) \in Nat \ {0}
      BY <1>1, <1>4, EmptySeq DEF Topics
    <2>2. Tail(c[2]) = SubSeq(c[2], 2, Len(c[2])) /\ 1 + 1 = 2
      BY <1>1, <1>4, TailIsSubSeq DEF Topics
    <2>3. QED
      BY <2>1, <2>2 DEF After
  <1>5. QED
    BY <1>3, <1>4

LEMMA MatchSolves == MatchSegments = [c \in Arguments |-> MatchFrom(MatchSegments, c)]
  <1> DEFINE T == BOOLEAN
             D == [c \in Arguments |-> [f \in [Arguments -> T] |-> MatchFrom(f, c)]]
  <1>1. ASSUME NEW c \in Arguments, NEW f \in [Arguments -> T]
        PROVE  MatchFrom(f, c) \in T
    BY Zenon DEF MatchFrom
  <1>2. ASSUME NEW c \in Arguments, NEW f \in [Arguments -> T], NEW g \in [Arguments -> T],
               \A d \in Arguments : Wildcards[d] < Wildcards[c] => f[d] = g[d]
        PROVE  MatchFrom(f, c) = MatchFrom(g, c)
    <2>1. ASSUME c[1] # <<>>, NEW k \in 0..Len(c[2])
          PROVE  LET d == <<Tail(c[1]), SubSeq(c[2], k + 1, Len(c[2]))>> IN f[d] = g[d]
      <3> DEFINE d == <<Tail(c[1]), SubSeq(c[2], k + 1, Len(c[2]))>>
      <3>1. d \in Arguments /\ Wildcards[d] < Wildcards[c]
        BY <2>1, MatchGoesOn DEF After
      <3> HIDE DEF d
      <3>2. f[d] = g[d]
        BY <1>2, <3>1
      <3>3. QED
        BY <3>2 DEF d
    <2>2. c[1] # <<>> /\ c[2] # <<>> => f[<<Tail(c[1]), Tail(c[2])>>] = g[<<Tail(c[1]), Tail(c[2])>>]
      BY <1>2, MatchGoesOn
    <2>3. QED
      BY <2>1, <2>2, Zenon DEF MatchFrom
  <1>3. \A c \in Arguments : \A f \in [Arguments -> T] : D[c][f] = MatchFrom(f, c)
    BY Zenon
  <1> HIDE DEF T
  <1>4. D \in [Arguments -> [[Arguments -> T] -> T]]
    BY <1>1, Zenon
  <1> HIDE DEF D
  <1>5. Determined(D, Arguments, T, Wildcards)
    <2>1. \A c \in Arguments : \A f, g \in [Arguments -> T] :
            (\A d \in Arguments : Wildcards[d] < Wildcards[c] => f[d] = g[d]) => D[c][f] = D[c][g]
      <3> SUFFICES ASSUME NEW c \in Arguments, NEW f \in [Arguments -> T], NEW g \in [Arguments -> T],
                          \A d \in Arguments : Wildcards[d] < Wildcards[c] => f[d] = g[d]
                   PROVE  D[c][f] = D[c][g]
        OBVIOUS
      <3>1. MatchFrom(f, c) = MatchFrom(g, c)
        BY <1>2
      <3>2. D[c][f] = MatchFrom(f, c) /\ D[c][g] = MatchFrom(g, c)
        BY <1>3
      <3>3. QED
        BY <3>1, <3>2, Zenon
    <2>2. QED
      BY <1>4, <2>1, WildcardsTyped, Zenon DEF Determined
  <1>6. T # {}
    BY DEF T
  <1>7. PICK f \in [Arguments -> T] : \A c \in Arguments : f[c] = D[c][f]
    BY <1>5, <1>6, SolutionExists
  <1>8. f = [c \in Arguments |-> MatchFrom(f, c)]
    <2>1. \A c \in Arguments : f[c] = MatchFrom(f, c)
      BY <1>3, <1>7, Zenon
    <2>2. QED
      BY <2>1, Zenon
  <1>9. MatchSegments = CHOOSE g : g = [c \in Arguments |-> MatchFrom(g, c)]
    BY DEF MatchSegments, MatchFrom, Arguments
  <1>10. QED
    BY <1>8, <1>9, Zenon

LEMMA MatchByFirst ==
  ASSUME NEW p \in Patterns, p # <<>>, NEW t \in Topics
  PROVE  MatchSegments[<<p, t>>] <=>
           \E k \in 0..Len(t) : Piece(p[1], t, 0, k) /\ MatchSegments[<<Tail(p), After(t, k)>>]
  <1> DEFINE c == <<p, t>>
             F == MatchSegments
             R(k) == F[<<Tail(p), After(t, k)>>]
  <1>1. c \in Arguments /\ c[1] = p /\ c[2] = t
    BY ArgumentParts
  <1>2. F[c] = MatchFrom(F, c)
    BY <1>1, MatchSolves, Zenon
  <1>3. MatchFrom(F, c) <=>
          \/ Head(p) = "**" /\ \E k \in 0..Len(t) : R(k)
          \/ t # <<>> /\ Head(p) \in {"*", Head(t)} /\ F[<<Tail(p), Tail(t)>>]
    BY <1>1 DEF MatchFrom, After
  <1>4. t # <<>> => 1 \in 0..Len(t) /\ Tail(t) = After(t, 1) /\ Head(t) = t[1]
    <2> HIDE DEF c
    <2>1. t # <<>> => 1 \in 0..Len(t) /\ Tail(t) = After(t, 1)
      BY <1>1, MatchGoesOn
    <2>2. t # <<>> => Head(t) = t[1]
      BY HeadTailProperties DEF Topics
    <2>3. QED
      BY <2>1, <2>2
  <1>5. Head(p) = p[1] /\ Len(t) \in Nat /\ (t = <<>> => Len(t) = 0)
    BY TailOfPattern, EmptySeq DEF Topics
  <1> HIDE DEF F, c, R
  <1>6. t # <<>> => F[<<Tail(p), Tail(t)>>] = R(1)
    BY <1>4, Zenon DEF R
  <1>7. CASE p[1] = "**"
    <2>1. \A k \in 0..Len(t) : Piece(p[1], t, 0, k)
      BY <1>5, <1>7 DEF Piece
    <2>2. MatchFrom(F, c) <=> \E k \in 0..Len(t) : R(k)
      BY <1>3, <1>4, <1>5, <1>6, <1>7
    <2>3. QED
      BY <1>2, <2>1, <2>2 DEF F, c, R
  <1>8. CASE p[1] # "**"
    <2>1. \A k \in 0..Len(t) : Piece(p[1], t, 0, k) <=> k = 1 /\ p[1] \in {"*", t[1]}
      BY <1>5, <1>8 DEF Piece
    <2>2. MatchFrom(F, c) <=> t # <<>> /\ p[1] \in {"*", t[1]} /\ R(1)
      BY <1>3, <1>4, <1>5, <1>6, <1>8
    <2>3. (\E k \in 0..Len(t) : k = 1) => t # <<>>
      BY <1>5
    <2>4. (\E k \in 0..Len(t) : Piece(p[1], t, 0, k) /\ R(k))
            <=> t # <<>> /\ p[1] \in {"*", t[1]} /\ R(1)
      <3>1. ASSUME NEW k \in 0..Len(t), Piece(p[1], t, 0, k), R(k)
            PROVE  t # <<>> /\ p[1] \in {"*", t[1]} /\ R(1)
        BY <2>1, <2>3, <3>1, Zenon
      <3>2. ASSUME t # <<>>, p[1] \in {"*", t[1]}, R(1)
            PROVE  \E k \in 0..Len(t) : Piece(p[1], t, 0, k) /\ R(k)
        BY <1>4, <2>1, <3>2, Zenon
      <3>3. QED
        BY <3>1, <3>2
    <2>5. QED
      BY <1>2, <2>2, <2>4, Zenon DEF F, c, R
  <1>9. QED
    BY <1>7, <1>8

LEMMA MatchesCut ==
  ASSUME NEW p \in Patterns, NEW t \in Topics
  PROVE  MatchSegments[<<p, t>>] <=> Cuts(p, t) # {}
  <1> DEFINE F == MatchSegments
             P == {c \in Arguments : F[c] <=> Cuts(c[1], c[2]) # {}}
  <1>1. ASSUME NEW c \in Arguments, \A d \in Arguments : Wildcards[d] < Wildcards[c] => d \in P
        PROVE  F[c] <=> Cuts(c[1], c[2]) # {}
    <2> DEFINE q == c[1]
               u == c[2]
    <2>1. q \in Patterns /\ u \in Topics /\ c = <<q, u>>
      BY DEF Arguments
    <2>2. CASE q = <<>>
      <3>1. F[c] <=> u = <<>>
        BY <2>2, MatchSolves, Zenon DEF MatchFrom
      <3>2. QED
        BY <2>1, <2>2, <3>1, NoCuts
    <2>3. CASE q # <<>>
      <3>1. ASSUME NEW k \in 0..Len(u)
            PROVE  F[<<Tail(q), After(u, k)>>] <=> Cuts(Tail(q), After(u, k)) # {}
        <4> DEFINE d == <<Tail(q), After(u, k)>>
        <4>1. d \in Arguments /\ Wildcards[d] < Wildcards[c]
          BY <2>3, MatchGoesOn
        <4>2. d[1] = Tail(q) /\ d[2] = After(u, k)
          OBVIOUS
        <4> HIDE DEF d, q, u
        <4>3. d \in P
          BY <1>1, <4>1
        <4>4. F[d] <=> Cuts(d[1], d[2]) # {}
          BY <4>3
        <4>5. QED
          BY <4>2, <4>4 DEF d
      <3> HIDE DEF q, u
      <3>2. F[<<q, u>>] <=> \E k \in 0..Len(u) : Piece(q[1], u, 0, k) /\ F[<<Tail(q), After(u, k)>>]
        BY <2>1, <2>3, MatchByFirst
      <3>3. Cuts(q, u) # {} <=> \E k \in 0..Len(u) : Piece(q[1], u, 0, k) /\ Cuts(Tail(q), After(u, k)) # {}
        BY <2>1, <2>3, CutsFirst
      <3>4. F[<<q, u>>] <=> Cuts(q, u) # {}
        BY <3>1, <3>2, <3>3, Zenon
      <3>5. QED
        BY <2>1, <3>4 DEF q, u
    <2>4. QED
      BY <2>2, <2>3
  <1>2. P \in SUBSET Arguments
    OBVIOUS
  <1>3. \A c \in Arguments : (\A d \in Arguments : Wildcards[d] < Wildcards[c] => d \in P) => c \in P
    BY <1>1
  <1> HIDE DEF P
  <1>4. P = Arguments
    BY <1>2, <1>3, WildcardsTyped, ByMeasure
  <1>5. <<p, t>> \in P /\ <<p, t>>[1] = p /\ <<p, t>>[2] = t
    BY <1>4, ArgumentParts
  <1>6. QED
    BY <1>5 DEF P

\* topic_matches decides what patterns mean.
LEMMA MatchingIsMeaning ==
  ASSUME NEW p \in Patterns, NEW t \in Topics
  PROVE  TopicMatches(p, t) <=> Denotes(p, t)
  <1>1. DOMAIN p = 1..Len(p)
    BY DEF Patterns
  <1>2. Cuts(p, t) # {} <=>
          \E cut \in [0..Len(p) -> 0..Len(t)] :
            /\ cut[0] = 0 /\ cut[Len(p)] = Len(t)
            /\ \A i \in DOMAIN p :
                 IF p[i] = "**" THEN cut[i] >= cut[i - 1]
                 ELSE cut[i] = cut[i - 1] + 1 /\ p[i] \in {"*", t[cut[i]]}
    BY <1>1, Zenon DEF Cuts, Piece
  <1>3. CASE \A i \in DOMAIN p : p[i] \notin {"*", "**"}
    BY <1>3, Zenon DEF TopicMatches, Denotes
  <1>4. CASE ~ \A i \in DOMAIN p : p[i] \notin {"*", "**"}
    <2>1. TopicMatches(p, t) <=> MatchSegments[<<p, t>>]
      BY <1>4, Zenon DEF TopicMatches
    <2>2. Denotes(p, t) <=> Cuts(p, t) # {}
      BY <1>2, <1>4, Zenon DEF Denotes
    <2>3. QED
      BY <2>1, <2>2, MatchesCut
  <1>5. QED
    BY <1>3, <1>4

-----------------------------------------------------------------------------
(* Who receives.                                                           *)

LEMMA MessageParts ==
  ASSUME NEW m \in Messages
  PROVE  /\ m.source \in Agents /\ m.kind \in TargetKinds
         /\ m.agents \in Seq(Agents) /\ m.text \in Topics
         /\ m.kind = "ByCapability" => m.cap # None
  BY RouterAssumption

LEMMA NamedByCount ==
  ASSUME NEW m \in Messages, NEW a \in Agents
  PROVE  /\ TimesNamed(m, a) \in Nat
         /\ TimesNamed(m, a) > 0 <=>
              \/ m.kind = "Broadcast"
              \/ m.kind \in {"Unicast", "Multicast"} /\ a \in ToSet(m.agents)
              \/ m.kind = "ByCapability" /\ a \in FindByCapability(m.cap)
              \/ m.kind = "PublishSubscribe" /\ a \in FindByTopic(m.text)
  <1> DEFINE I == {i \in DOMAIN m.agents : m.agents[i] = a}
             n == Cardinality(I)
  <1>1. m.kind \in TargetKinds /\ DOMAIN m.agents = 1..Len(m.agents) /\ Len(m.agents) \in Nat
    BY MessageParts
  <1>2. IsFiniteSet(I)
    <2>1. IsFiniteSet(1..Len(m.agents)) /\ I \in SUBSET (1..Len(m.agents))
      BY <1>1, FS_Interval
    <2> HIDE DEF I
    <2>2. QED
      BY <2>1, FS_Subset
  <1>3. n \in Nat /\ (n > 0 <=> I # {})
    <2> HIDE DEF I
    <2>1. n \in Nat /\ (n = 0 <=> I = {})
      BY <1>2, FS_CardinalityType, FS_EmptySet
    <2>2. QED
      BY <2>1
  <1>4. I # {} <=> a \in ToSet(m.agents)
    BY DEF ToSet
  <1>5. CASE m.kind \in {"Unicast", "Multicast"}
    <2>1. TimesNamed(m, a) = n
      BY <1>5 DEF TimesNamed
    <2> HIDE DEF n
    <2>2. QED
      BY <1>3, <1>4, <1>5, <2>1
  <1>6. CASE m.kind = "Broadcast"
    BY <1>6 DEF TimesNamed
  <1>7. CASE m.kind = "ByCapability"
    BY <1>7 DEF TimesNamed
  <1>8. CASE m.kind = "PublishSubscribe"
    BY <1>8 DEF TimesNamed
  <1>9. QED
    BY <1>1, <1>5, <1>6, <1>7, <1>8 DEF TargetKinds

LEMMA DeliversToAudience == TypeOK => ReachesAudience
  <1> SUFFICES ASSUME TypeOK, NEW m \in Messages
               PROVE  DeliverTo(m) = Audience(m)
    BY DEF ReachesAudience
  <1> SUFFICES ASSUME NEW a \in Agents, a # m.source
               PROVE  a \in DeliverTo(m) <=> a \in Audience(m)
    BY DEF DeliverTo, Audience
  <1>1. m.text \in Topics /\ m.kind \in TargetKinds /\ (m.kind = "ByCapability" => m.cap # None)
    BY MessageParts
  <1>2. ASSUME NEW s \in subscriptions[a], s.topic # None
        PROVE  TopicMatches(s.topic, m.text) <=> Denotes(s.topic, m.text)
    <2>1. s \in Subscriptions
      BY DEF TypeOK
    <2>2. s.topic \in Patterns
      BY <1>2, <2>1, RouterAssumption
    <2> DEFINE p == s.topic
               t == m.text
    <2> HIDE DEF p, t
    <2>3. TopicMatches(p, t) <=> Denotes(p, t)
      BY <1>1, <2>2, MatchingIsMeaning DEF p, t
    <2>4. QED
      BY <2>3 DEF p, t
  <1>3. (\E s \in subscriptions[a] : Matches(s, m)) <=>
           \E s \in subscriptions[a] :
             /\ s.types # {} => m.type \in s.types
             /\ s.topic # None => Denotes(s.topic, m.text)
             /\ s.cap # None => m.kind = "ByCapability" /\ m.cap = s.cap
    BY <1>2, Zenon DEF Matches
  <1>4. a \in FindByTopic(m.text) <=>
           \E s \in subscriptions[a] : s.topic # None /\ Denotes(s.topic, m.text)
    BY <1>2, Zenon DEF FindByTopic
  <1>5. m.kind = "ByCapability" =>
           (a \in FindByCapability(m.cap) <=> \E s \in subscriptions[a] : s.cap = m.cap)
    BY <1>1 DEF FindByCapability
  <1>6. TimesNamed(m, a) > 0 <=>
          \/ m.kind = "Broadcast"
          \/ m.kind \in {"Unicast", "Multicast"} /\ a \in ToSet(m.agents)
          \/ m.kind = "ByCapability" /\ \E s \in subscriptions[a] : s.cap = m.cap
          \/ /\ m.kind = "PublishSubscribe"
             /\ \E s \in subscriptions[a] : s.topic # None /\ Denotes(s.topic, m.text)
    BY <1>4, <1>5, NamedByCount, Zenon
  <1>7. a \in DeliverTo(m) <=> TimesNamed(m, a) > 0 /\ \E s \in subscriptions[a] : Matches(s, m)
    BY Zenon DEF DeliverTo
  <1>8. QED
    BY <1>3, <1>6, <1>7, Zenon DEF Audience

-----------------------------------------------------------------------------
(* Positions, and sequences without one of their elements.                 *)

LEMMA LeastPosition ==
  ASSUME NEW n \in Nat, NEW I \in SUBSET (1..n), I # {}
  PROVE  Min(I) \in I /\ \A i \in I : Min(I) <= i
  <1>1. \E x \in I : \A y \in I : x <= y
    BY LeastNatural
  <1>2. QED
    BY <1>1, Zenon DEF Min

LEMMA FirstMatchingParts ==
  ASSUME NEW q \in Seq(Intents), NEW s
  PROVE  LET n == FirstMatching(q, s)
         IN  /\ n \in 0..Len(q)
             /\ n > 0 => Matches(s, q[n].message)
             /\ n = 0 => \A i \in 1..Len(q) : ~Matches(s, q[i].message)
  <1> DEFINE I == {i \in 1..Len(q) : Matches(s, q[i].message)}
             n == FirstMatching(q, s)
  <1>1. n = IF I # {} THEN Min(I) ELSE 0
    BY Zenon DEF FirstMatching, SelectInSeq
  <1>2. Len(q) \in Nat /\ I \in SUBSET (1..Len(q))
    OBVIOUS
  <1>3. I # {} => Min(I) \in I
    <2> HIDE DEF I
    <2>1. QED
      BY <1>2, LeastPosition
  <1> HIDE DEF n
  <1>4. n \in 0..Len(q) /\ (n > 0 => n \in I) /\ (n = 0 => I = {})
    <2> HIDE DEF I
    <2>1. CASE I = {}
      <3>1. n = 0
        BY <1>1, <2>1
      <3>2. QED
        BY <1>2, <2>1, <3>1
    <2>2. CASE I # {}
      <3>1. n = Min(I)
        BY <1>1, <2>2
      <3>2. n \in 1..Len(q) /\ n \in I
        BY <1>2, <1>3, <2>2, <3>1
      <3>3. QED
        BY <1>2, <3>2
    <2>3. QED
      BY <2>1, <2>2
  <1>5. QED
    BY <1>4 DEF n

\* Where the dead letters bear id first.
PositionOf(id) == SelectInSeq(dead_letters, LAMBDA i : i.id = id)

LEMMA PositionParts ==
  ASSUME TypeOK, NEW k \in 1..Len(dead_letters)
  PROVE  LET n == PositionOf(dead_letters[k].id)
         IN  n \in 1..Len(dead_letters) /\ dead_letters[n].id = dead_letters[k].id
  <1> DEFINE q == dead_letters
             id == dead_letters[k].id
             I == {i \in 1..Len(q) : q[i].id = id}
             n == PositionOf(id)
  <1>1. n = IF I # {} THEN Min(I) ELSE 0
    BY Zenon DEF PositionOf, SelectInSeq
  <1>2. Len(q) \in Nat /\ I \in SUBSET (1..Len(q)) /\ k \in I
    BY DEF TypeOK
  <1>3. Min(I) \in I
    <2> HIDE DEF I
    <2>1. QED
      BY <1>2, LeastPosition
  <1> HIDE DEF n
  <1>4. n \in I
    BY <1>1, <1>2, <1>3
  <1>5. QED
    BY <1>4 DEF n

LEMMA RemovedParts ==
  ASSUME NEW S, NEW q \in Seq(S), NEW n \in 1..Len(q)
  PROVE  LET r == RemoveAt(q, n)
         IN  /\ r \in Seq(S) /\ Len(r) = Len(q) - 1
             /\ \A i \in 1..(Len(q) - 1) : r[i] = IF i < n THEN q[i] ELSE q[i + 1]
  <1> DEFINE l == n - 1
             m == n + 1
             z == Len(q)
             f == SubSeq(q, 1, l)
             g == SubSeq(q, m, z)
             r == f \o g
  <1>1. z \in Nat /\ n \in 1..z /\ l = n - 1 /\ m = n + 1 /\ \A i \in 1..z : q[i] \in S
    BY ElementOfSeq
  <1> HIDE DEF l, m, z
  <1>2. l \in Int /\ m \in Int /\ 1 \in Int /\ z \in Int
        /\ \A i \in 1..l : q[i] \in S
    BY <1>1
  <1>3. \A i \in m..z : q[i] \in S
    BY <1>1
  <1>4. /\ f \in Seq(S) /\ Len(f) = IF 1 <= l THEN l - 1 + 1 ELSE 0
        /\ \A i \in 1..(l - 1 + 1) : f[i] = q[1 + i - 1]
    BY <1>2, SubSeqProperties
  <1>5. /\ g \in Seq(S) /\ Len(g) = IF m <= z THEN z - m + 1 ELSE 0
        /\ \A i \in 1..(z - m + 1) : g[i] = q[m + i - 1]
    BY <1>2, <1>3, SubSeqProperties
  <1> HIDE DEF f, g
  <1>6. /\ r \in Seq(S) /\ Len(r) = Len(f) + Len(g)
        /\ \A i \in 1..(Len(f) + Len(g)) : r[i] = IF i <= Len(f) THEN f[i] ELSE g[i - Len(f)]
    BY <1>4, <1>5, ConcatProperties
  <1>7. Len(f) = l /\ Len(g) = z - n
    BY <1>1, <1>4, <1>5
  <1> HIDE DEF r
  <1>8. ASSUME NEW i \in 1..(z - 1)
        PROVE  r[i] = IF i < n THEN q[i] ELSE q[i + 1]
    <2>1. i \in 1..(Len(f) + Len(g))
      BY <1>1, <1>7
    <2>2. CASE i < n
      <3>1. i <= Len(f) /\ i \in 1..(l - 1 + 1) /\ 1 + i - 1 = i
        BY <1>1, <1>7, <2>2
      <3>2. QED
        BY <1>4, <1>6, <2>1, <2>2, <3>1
    <2>3. CASE ~(i < n)
      <3>1. ~(i <= Len(f)) /\ i - Len(f) \in 1..(z - m + 1) /\ m + (i - Len(f)) - 1 = i + 1
        BY <1>1, <1>7, <2>3
      <3>2. r[i] = g[i - Len(f)]
        BY <1>6, <2>1, <3>1
      <3>3. g[i - Len(f)] = q[m + (i - Len(f)) - 1]
        BY <1>5, <3>1
      <3>4. QED
        BY <2>3, <3>1, <3>2, <3>3
    <2>4. QED
      BY <2>2, <2>3
  <1>9. Len(r) = z - 1
    BY <1>1, <1>6, <1>7
  <1>10. r = RemoveAt(q, n)
    BY DEF RemoveAt, r, f, g, l, m, z
  <1>11. QED
    BY <1>6, <1>8, <1>9, <1>10 DEF z

\* Only the element removed may be gone.
LEMMA RemovedMembers ==
  ASSUME NEW S, NEW q \in Seq(S), NEW n \in 1..Len(q)
  PROVE  \A x \in ToSet(q) : x \in ToSet(RemoveAt(q, n)) \/ x = q[n]
  <1> DEFINE r == RemoveAt(q, n)
  <1>1. /\ r \in Seq(S) /\ Len(r) = Len(q) - 1
        /\ \A i \in 1..(Len(q) - 1) : r[i] = IF i < n THEN q[i] ELSE q[i + 1]
    BY RemovedParts
  <1> HIDE DEF r
  <1>2. Len(q) \in Nat /\ DOMAIN q = 1..Len(q) /\ DOMAIN r = 1..Len(r)
    BY <1>1
  <1>3. ASSUME NEW k \in 1..Len(q), k # n
        PROVE  \E i \in DOMAIN r : r[i] = q[k]
    <2>1. CASE k < n
      <3>1. k \in 1..(Len(q) - 1)
        BY <1>2, <2>1
      <3>2. QED
        BY <1>1, <1>2, <2>1, <3>1
    <2>2. CASE ~(k < n)
      <3>1. k - 1 \in 1..(Len(q) - 1) /\ ~(k - 1 < n) /\ (k - 1) + 1 = k
        BY <1>2, <1>3, <2>2
      <3>2. r[k - 1] = q[k] /\ k - 1 \in DOMAIN r
        BY <1>1, <1>2, <3>1
      <3>3. QED
        BY <3>2
    <2>3. QED
      BY <2>1, <2>2
  <1>4. QED
    BY <1>2, <1>3 DEF ToSet, r

LEMMA RemovedFrom ==
  ASSUME NEW S, NEW q \in Seq(S), NEW n \in 1..Len(q)
  PROVE  ToSet(RemoveAt(q, n)) \in SUBSET ToSet(q) /\ RemoveAt(q, n) # q
  <1> DEFINE r == RemoveAt(q, n)
  <1>1. /\ r \in Seq(S) /\ Len(r) = Len(q) - 1
        /\ \A i \in 1..(Len(q) - 1) : r[i] = IF i < n THEN q[i] ELSE q[i + 1]
    BY RemovedParts
  <1> HIDE DEF r
  <1>2. Len(q) \in Nat /\ DOMAIN q = 1..Len(q) /\ DOMAIN r = 1..Len(r)
    BY <1>1
  <1>3. r # q
    BY <1>1, <1>2
  <1>4. ASSUME NEW i \in DOMAIN r
        PROVE  \E k \in DOMAIN q : q[k] = r[i]
    <2>1. i \in 1..(Len(q) - 1) /\ i \in 1..Len(q) /\ i + 1 \in 1..Len(q)
      BY <1>1, <1>2
    <2>2. r[i] = q[i] \/ r[i] = q[i + 1]
      BY <1>1, <2>1
    <2>3. QED
      BY <1>2, <2>1, <2>2
  <1>5. QED
    BY <1>3, <1>4 DEF ToSet, r

-----------------------------------------------------------------------------
(* The types, and the ids of the dead letters.                             *)

\* The dead letters bear different ids, of intents already sent, as long as
\* clients keep ids unique.
IdsDiffer ==
  unique_ids =>
    /\ \A i \in 1..Len(dead_letters) : dead_letters[i].id <= total_published
    /\ \A i, j \in 1..Len(dead_letters) :
         dead_letters[i].id = dead_letters[j].id => i = j

RInv == TypeOK /\ IdsDiffer

\* The part of RInv about the dead letters, for any queue of intents.
Queued(use, q, total) ==
  /\ q \in Seq(Intents) /\ Len(q) <= max_dead_letters
  /\ use # "retries" =>
       /\ \A i \in 1..Len(q) : q[i].id <= total
       /\ \A i, j \in 1..Len(q) : q[i].id = q[j].id => i = j

RInvBody ==
  /\ subscriptions \in [Agents -> SUBSET Subscriptions]
  /\ mailboxes \in [Agents -> Seq(Intents)]
  /\ total_published \in 0..MaxPublished
  /\ usage \in Usages
  /\ Queued(usage, dead_letters, total_published)

LEMMA RInvParts == (RInv <=> RInvBody) /\ (RInv' <=> RInvBody')
  BY DEF RInv, TypeOK, IdsDiffer, Queued, RInvBody, unique_ids

LEMMA RemovalKeepsQueue ==
  ASSUME NEW u, NEW q, NEW total, Queued(u, q, total), NEW n \in 1..Len(q)
  PROVE  Queued(u, RemoveAt(q, n), total)
  <1> DEFINE r == RemoveAt(q, n)
  <1>1. q \in Seq(Intents) /\ Len(q) <= max_dead_letters
    BY DEF Queued
  <1>2. /\ r \in Seq(Intents) /\ Len(r) = Len(q) - 1
        /\ \A i \in 1..(Len(q) - 1) : r[i] = IF i < n THEN q[i] ELSE q[i + 1]
    BY <1>1, RemovedParts
  <1> HIDE DEF r
  <1>3. Len(q) \in Nat /\ max_dead_letters \in Nat /\ Len(r) <= max_dead_letters
    BY <1>1, <1>2, RouterAssumption
  <1> DEFINE at == [i \in 1..Len(r) |-> IF i < n THEN i ELSE i + 1]
  <1>4. \A i \in 1..Len(r) : at[i] \in 1..Len(q) /\ r[i] = q[at[i]]
    BY <1>2, <1>3
  <1>5. \A i, j \in 1..Len(r) : at[i] = at[j] => i = j
    BY <1>2, <1>3
  <1> HIDE DEF at
  <1>6. ASSUME u # "retries"
        PROVE  /\ \A i \in 1..Len(r) : r[i].id <= total
               /\ \A i, j \in 1..Len(r) : r[i].id = r[j].id => i = j
    <2>1. /\ \A i \in 1..Len(q) : q[i].id <= total
          /\ \A i, j \in 1..Len(q) : q[i].id = q[j].id => i = j
      BY <1>6 DEF Queued
    <2>2. ASSUME NEW i \in 1..Len(r)
          PROVE  r[i].id <= total
      <3>1. at[i] \in 1..Len(q) /\ r[i] = q[at[i]]
        BY <1>4
      <3>2. q[at[i]].id <= total
        BY <2>1, <3>1
      <3>3. QED
        BY <3>1, <3>2
    <2>3. ASSUME NEW i \in 1..Len(r), NEW j \in 1..Len(r), r[i].id = r[j].id
          PROVE  i = j
      <3> DEFINE k == at[i]
                 l == at[j]
      <3>1. k \in 1..Len(q) /\ l \in 1..Len(q) /\ r[i] = q[k] /\ r[j] = q[l]
        BY <1>4
      <3> HIDE DEF k, l
      <3>2. k = l
        BY <2>1, <2>3, <3>1
      <3>3. QED
        BY <1>5, <3>2, Zenon DEF k, l
    <2>4. QED
      BY <2>2, <2>3
  <1>7. QED
    BY <1>2, <1>3, <1>6 DEF Queued, r

\* Room is made at the front: the queue loses its head when it is full.
LEMMA RoomIsMade ==
  ASSUME NEW q \in Seq(Intents), Len(q) <= max_dead_letters
  PROVE  IF Len(q) < max_dead_letters THEN WithRoom(q) = q
         ELSE q # <<>> /\ WithRoom(q) = RemoveAt(q, 1) /\ Len(q) = max_dead_letters /\ 1 \in 1..Len(q)
  <1> DEFINE z == Len(q)
             m == max_dead_letters
             k == z - m + 2
             e == SubSeq(q, 1, 0)
             g == SubSeq(q, 2, z)
  <1>1. z \in Nat /\ m \in Nat \ {0} /\ z <= m
    BY RouterAssumption
  <1>2. CASE z < m
    BY <1>2 DEF WithRoom
  <1>3. CASE ~(z < m)
    <2>1. z = m /\ k = 2 /\ z > 0
      BY <1>1, <1>3
    <2>2. q # <<>>
      BY <2>1, EmptySeq
    <2>3. WithRoom(q) = SubSeq(q, k, z)
      BY <1>3 DEF WithRoom
    <2>4. e = <<>>
      BY SubSeqEmpty
    <2>5. g = Tail(q) /\ Tail(q) \in Seq(Intents)
      BY <2>2, TailIsSubSeq, HeadTailProperties
    <2>6. RemoveAt(q, 1) = e \o g
      BY DEF RemoveAt
    <2> HIDE DEF e, g, k
    <2>7. e \o g = g
      BY <2>4, <2>5, ConcatEmptySeq
    <2>8. WithRoom(q) = g
      BY <2>1, <2>3 DEF g
    <2>9. z = Len(q)
      OBVIOUS
    <2> HIDE DEF z
    <2>10. 1 \in 1..Len(q)
      BY <1>1, <2>1, <2>9
    <2>11. QED
      BY <1>3, <2>1, <2>2, <2>6, <2>7, <2>8, <2>9, <2>10
  <1>4. QED
    BY <1>2, <1>3

LEMMA PushKeepsQueue ==
  ASSUME NEW u, NEW q, NEW total \in Nat, Queued(u, q, total),
         NEW i \in Intents, u # "retries" => i.id = total + 1
  PROVE  Queued(u, Append(WithRoom(q), i), total + 1)
  <1> DEFINE w == WithRoom(q)
             r == Append(w, i)
  <1>1. q \in Seq(Intents) /\ Len(q) <= max_dead_letters
    BY DEF Queued
  <1>2. Queued(u, w, total) /\ Len(w) < max_dead_letters
    <2>1. CASE Len(q) < max_dead_letters
      BY <1>1, <2>1, RoomIsMade
    <2>2. CASE ~(Len(q) < max_dead_letters)
      <3>1. w = RemoveAt(q, 1) /\ Len(q) = max_dead_letters /\ 1 \in 1..Len(q)
        BY <1>1, <2>2, RoomIsMade
      <3>2. Queued(u, RemoveAt(q, 1), total) /\ Len(RemoveAt(q, 1)) = Len(q) - 1
        BY <1>1, <3>1, RemovalKeepsQueue, RemovedParts
      <3> HIDE DEF w
      <3>3. QED
        BY <1>1, <3>1, <3>2
    <2>3. QED
      BY <2>1, <2>2
  <1> HIDE DEF w
  <1>3. w \in Seq(Intents) /\ Len(w) \in Nat
    BY <1>2 DEF Queued
  <1>4. /\ r \in Seq(Intents) /\ Len(r) = Len(w) + 1
        /\ \A k \in 1..Len(w) : r[k] = w[k]
        /\ r[Len(w) + 1] = i
    BY <1>3, AppendProperties
  <1> HIDE DEF r
  <1>5. Len(r) <= max_dead_letters
    BY <1>2, <1>3, <1>4, RouterAssumption
  <1>6. ASSUME u # "retries"
        PROVE  /\ \A k \in 1..Len(r) : r[k].id <= total + 1
               /\ \A k, l \in 1..Len(r) : r[k].id = r[l].id => k = l
    <2>1. /\ \A k \in 1..Len(w) : w[k].id <= total /\ w[k].id \in Nat
          /\ \A k, l \in 1..Len(w) : w[k].id = w[l].id => k = l
      <3>1. \A k \in 1..Len(w) : w[k] \in Intents
        BY <1>3, ElementOfSeq
      <3>2. QED
        BY <1>2, <1>6, <3>1 DEF Queued, Intents
    <2>2. ASSUME NEW k \in 1..Len(r)
          PROVE  \/ k \in 1..Len(w) /\ r[k].id = w[k].id
                 \/ k = Len(w) + 1 /\ r[k].id = total + 1
      BY <1>3, <1>4, <1>6
    <2>3. ASSUME NEW k \in 1..Len(r)
          PROVE  r[k].id <= total + 1
      BY <2>1, <2>2
    <2>4. ASSUME NEW k \in 1..Len(r), NEW l \in 1..Len(r), r[k].id = r[l].id
          PROVE  k = l
      <3>1. CASE k \in 1..Len(w)
        <4>1. r[k].id = w[k].id /\ w[k].id <= total /\ w[k].id \in Nat
          BY <1>4, <2>1, <3>1
        <4>2. l \in 1..Len(w) /\ r[l].id = w[l].id
          <5>1. ASSUME r[l].id = total + 1
                PROVE  FALSE
            <6>1. w[k].id = total + 1
              BY <2>4, <4>1, <5>1
            <6>2. QED
              BY <4>1, <6>1
          <5>2. QED
            BY <2>2, <5>1
        <4>3. QED
          BY <2>1, <2>4, <3>1, <4>1, <4>2
      <3>2. CASE k \notin 1..Len(w)
        <4>1. k = Len(w) + 1 /\ r[k].id = total + 1
          BY <2>2, <3>2
        <4>2. ASSUME l \in 1..Len(w), r[l].id = w[l].id
              PROVE  FALSE
          <5>1. w[l].id <= total /\ w[l].id \in Nat /\ w[l].id = total + 1
            BY <2>1, <2>4, <4>1, <4>2
          <5>2. QED
            BY <5>1
        <4>3. QED
          BY <2>2, <4>1, <4>2
      <3>3. QED
        BY <3>1, <3>2
    <2>5. QED
      BY <2>3, <2>4
  <1>7. Queued(u, r, total + 1)
    BY <1>4, <1>5, <1>6, Zenon DEF Queued
  <1>8. QED
    BY <1>7 DEF r, w

\* As many copies of an intent as its target names the agent.
LEMMA MailIsTyped ==
  ASSUME NEW i \in Intents, NEW a \in Agents, NEW q \in Seq(Intents)
  PROVE  LET r == q \o [n \in 1..TimesNamed(i.message, a) |-> i]
         IN  /\ r \in Seq(Intents) /\ ToSet(q) \in SUBSET ToSet(r)
             /\ TimesNamed(i.message, a) > 0 => i \in ToSet(r)
  <1> DEFINE k == TimesNamed(i.message, a)
             c == [n \in 1..k |-> i]
             r == q \o c
  <1>1. k \in Nat
    BY NamedByCount DEF Intents
  <1> HIDE DEF k
  <1>2. c \in Seq(Intents) /\ Len(c) = k /\ \A n \in 1..k : c[n] = i
    BY <1>1
  <1> HIDE DEF c
  <1>3. /\ r \in Seq(Intents) /\ Len(r) = Len(q) + Len(c)
        /\ \A n \in 1..(Len(q) + Len(c)) : r[n] = IF n <= Len(q) THEN q[n] ELSE c[n - Len(q)]
    BY <1>2, ConcatProperties
  <1> HIDE DEF r
  <1>4. Len(q) \in Nat /\ DOMAIN q = 1..Len(q) /\ DOMAIN r = 1..Len(r)
    BY <1>3
  <1>5. ASSUME NEW n \in DOMAIN q
        PROVE  n \in DOMAIN r /\ r[n] = q[n]
    <2>1. n \in 1..(Len(q) + Len(c)) /\ n <= Len(q)
      BY <1>1, <1>2, <1>4
    <2>2. QED
      BY <1>3, <1>4, <2>1
  <1>6. ASSUME k > 0
        PROVE  Len(q) + 1 \in DOMAIN r /\ r[Len(q) + 1] = i
    <2>1. /\ Len(q) + 1 \in 1..(Len(q) + Len(c)) /\ ~(Len(q) + 1 <= Len(q))
          /\ (Len(q) + 1) - Len(q) = 1 /\ 1 \in 1..k
      BY <1>1, <1>2, <1>4, <1>6
    <2>2. QED
      BY <1>2, <1>3, <1>4, <2>1
  <1>7. QED
    BY <1>3, <1>5, <1>6 DEF ToSet, r, c, k

LEMMA RInvInit == Init => RInv
  <1> SUFFICES ASSUME Init PROVE RInvBody
    BY RInvParts
  <1>1. <<>> \in Seq(Intents) /\ Len(<<>>) = 0
    BY EmptySeq
  <1>2. Queued(usage, dead_letters, total_published)
    BY <1>1, RouterAssumption DEF Init, Queued
  <1>3. QED
    BY <1>1, <1>2, RouterAssumption DEF Init, RInvBody

LEMMA SendKeepsRInv ==
  ASSUME RInv, NEW i \in Intents, SendIntent(i), UNCHANGED usage
  PROVE  RInv'
  <1> DEFINE R == DeliverTo(i.message)
             t == total_published
  <1>1. RInvBody
    BY RInvParts
  <1>2. mailboxes' \in [Agents -> Seq(Intents)]
    <2>1. \A a \in Agents : mailboxes[a] \in Seq(Intents)
      BY <1>1 DEF RInvBody
    <2>2. \A a \in Agents :
            mailboxes[a] \o [n \in 1..TimesNamed(i.message, a) |-> i] \in Seq(Intents)
      BY <2>1, MailIsTyped
    <2>3. mailboxes' = [a \in Agents |->
            IF a \in R THEN mailboxes[a] \o [n \in 1..TimesNamed(i.message, a) |-> i]
            ELSE mailboxes[a]]
      BY DEF SendIntent
    <2>4. QED
      BY <2>1, <2>2, <2>3
  <1>3. t \in Nat /\ t' = t + 1 /\ t' \in 0..MaxPublished
    BY <1>1, RouterAssumption DEF RInvBody, SendIntent
  <1>4. usage # "retries" => i.id = t + 1
    BY <1>3 DEF SendIntent, unique_ids
  <1>5. Queued(usage, dead_letters', t + 1)
    <2>1. CASE R = {}
      <3>1. dead_letters' = Append(WithRoom(dead_letters), i)
        BY <2>1 DEF SendIntent
      <3>2. QED
        BY <1>1, <1>3, <1>4, <3>1, PushKeepsQueue DEF RInvBody
    <2>2. CASE R # {}
      <3>1. dead_letters' = dead_letters
        BY <2>2 DEF SendIntent
      <3>2. \A k \in 1..Len(dead_letters) : dead_letters[k].id \in Nat
        <4>1. \A k \in 1..Len(dead_letters) : dead_letters[k] \in Intents
          BY <1>1, ElementOfSeq DEF RInvBody, Queued
        <4>2. QED
          BY <4>1 DEF Intents
      <3>3. QED
        BY <1>1, <1>3, <3>1, <3>2 DEF RInvBody, Queued
    <2>3. QED
      BY <2>1, <2>2
  <1>6. QED
    BY <1>1, <1>2, <1>3, <1>5, RInvParts DEF RInvBody, SendIntent

LEMMA SubscriptionsTyped ==
  ASSUME RInv, NEW a \in Agents, NEW s \in Subscriptions, SubscribeOnce(a, s)
  PROVE  subscriptions' \in [Agents -> SUBSET Subscriptions]
  BY DEF RInv, TypeOK, SubscribeOnce

\* An entry that is replayed is the first that bears its id, and the one that
\* matches where ids are unique.
LEMMA ReplayRemoves ==
  ASSUME RInv, NEW s, FirstMatching(dead_letters, s) > 0
  PROVE  \E k \in 1..Len(dead_letters) :
           /\ Requeued(s) = RemoveAt(dead_letters, k)
           /\ unique_ids => Matches(s, dead_letters[k].message)
  <1> DEFINE n == FirstMatching(dead_letters, s)
             k == PositionOf(dead_letters[n].id)
  <1>1. TypeOK /\ IdsDiffer /\ dead_letters \in Seq(Intents)
    BY DEF RInv, TypeOK
  <1>2. n \in 1..Len(dead_letters) /\ Matches(s, dead_letters[n].message)
    <2>1. /\ n \in 0..Len(dead_letters)
          /\ n > 0 => Matches(s, dead_letters[n].message)
      BY <1>1, FirstMatchingParts
    <2>2. QED
      BY <2>1
  <1>3. k \in 1..Len(dead_letters) /\ dead_letters[k].id = dead_letters[n].id
    <2> HIDE DEF n
    <2>1. QED
      BY <1>1, <1>2, PositionParts
  <1>4. Requeued(s) = RemoveAt(dead_letters, k)
    BY Zenon DEF Requeued, WithoutId, PositionOf
  <1> HIDE DEF k, n
  <1>5. unique_ids => k = n
    BY <1>1, <1>2, <1>3 DEF IdsDiffer
  <1>6. unique_ids => Matches(s, dead_letters[k].message)
    BY <1>2, <1>5, Zenon
  <1>7. QED
    BY <1>3, <1>4, <1>6, Zenon

LEMMA AwaitKeepsRInv ==
  ASSUME RInv, NEW a \in Agents, NEW s \in Subscriptions, AwaitIntent(a, s), UNCHANGED usage
  PROVE  RInv'
  <1>1. RInvBody
    BY RInvParts
  <1>2. SubscribeOnce(a, s)
    BY DEF AwaitIntent, AwaitMail, AwaitReplay, AwaitNothing
  <1>3. subscriptions' \in [Agents -> SUBSET Subscriptions]
    BY <1>2, SubscriptionsTyped
  <1>4. CASE AwaitMail(a, s)
    <2> DEFINE q == mailboxes[a]
               n == FirstMatching(q, s)
    <2>1. q \in Seq(Intents)
      BY <1>1 DEF RInvBody
    <2>2. n \in 1..Len(q)
      <3>1. n \in 0..Len(q) /\ n > 0
        BY <1>4, <2>1, FirstMatchingParts DEF AwaitMail
      <3>2. QED
        BY <3>1
    <2>3. mailboxes' = [mailboxes EXCEPT ![a] = RemoveAt(q, n)]
      BY <1>4 DEF AwaitMail
    <2> HIDE DEF q, n
    <2>4. RemoveAt(q, n) \in Seq(Intents)
      BY <2>1, <2>2, RemovedParts
    <2>5. mailboxes' \in [Agents -> Seq(Intents)]
      BY <1>1, <2>3, <2>4 DEF RInvBody
    <2>6. QED
      BY <1>1, <1>3, <1>4, <2>5, RInvParts DEF RInvBody, AwaitMail
  <1>5. CASE AwaitReplay(a, s)
    <2>1. PICK k \in 1..Len(dead_letters) : Requeued(s) = RemoveAt(dead_letters, k)
      BY <1>5, ReplayRemoves DEF AwaitReplay
    <2>2. Queued(usage, dead_letters', total_published)
      BY <1>1, <1>5, <2>1, RemovalKeepsQueue DEF RInvBody, AwaitReplay
    <2>3. QED
      BY <1>1, <1>3, <1>5, <2>2, RInvParts DEF RInvBody, AwaitReplay
  <1>6. CASE AwaitNothing(a, s)
    BY <1>1, <1>3, <1>6, RInvParts DEF RInvBody, AwaitNothing
  <1>7. QED
    BY <1>4, <1>5, <1>6 DEF AwaitIntent

LEMMA OtherKeepsRInv ==
  ASSUME RInv, OtherCall, UNCHANGED usage
  PROVE  RInv'
  <1>1. RInvBody
    BY RInvParts
  <1>2. CASE \E a \in Agents, s \in Subscriptions : Subscribe(a, s)
    <2>1. PICK a \in Agents, s \in Subscriptions : Subscribe(a, s)
      BY <1>2
    <2>2. subscriptions' \in [Agents -> SUBSET Subscriptions]
      BY <2>1, SubscriptionsTyped DEF Subscribe
    <2>3. QED
      BY <1>1, <2>1, <2>2, RInvParts DEF RInvBody, Subscribe
  <1>3. ASSUME NEW a \in Agents, NEW S, Unsubscribe(a, S)
        PROVE  RInv'
    <2>1. subscriptions' \in [Agents -> SUBSET Subscriptions]
      BY <1>1, <1>3 DEF RInvBody, Unsubscribe
    <2>2. QED
      BY <1>1, <1>3, <2>1, RInvParts DEF RInvBody, Unsubscribe
  <1>4. CASE ClearDeadLetters
    <2>1. Queued(usage, <<>>, total_published)
      <3>1. <<>> \in Seq(Intents) /\ Len(<<>>) = 0
        BY EmptySeq
      <3>2. QED
        BY <3>1, RouterAssumption DEF Queued
    <2>2. QED
      BY <1>1, <1>4, <2>1, RInvParts DEF RInvBody, ClearDeadLetters
  <1>5. ASSUME NEW id \in 1..MaxPublished, RequeueDeadLetter(id)
        PROVE  RInv'
    <2>1. PICK k \in 1..Len(dead_letters) : dead_letters[k].id = id
      BY <1>1, <1>5 DEF RInvBody, Queued, RequeueDeadLetter, ToSet
    <2>2. PositionOf(id) \in 1..Len(dead_letters)
      BY <2>1, PositionParts DEF RInv
    <2>3. dead_letters' = RemoveAt(dead_letters, PositionOf(id))
      BY <1>5, Zenon DEF RequeueDeadLetter, WithoutId, PositionOf
    <2>4. Queued(usage, dead_letters', total_published)
      BY <1>1, <2>2, <2>3, RemovalKeepsQueue DEF RInvBody
    <2>5. QED
      BY <1>1, <1>5, <2>4, RInvParts DEF RInvBody, RequeueDeadLetter
  <1>6. QED
    BY <1>2, <1>3, <1>4, <1>5 DEF OtherCall

LEMMA RInvNext == RInv /\ [Next]_vars => RInv'
  <1> SUFFICES ASSUME RInv, [Next]_vars PROVE RInv'
    OBVIOUS
  <1>1. RInvBody
    BY RInvParts
  <1>2. ASSUME NEW i \in Intents, SendIntent(i), UNCHANGED usage
        PROVE  RInv'
    BY <1>2, SendKeepsRInv
  <1>3. ASSUME NEW a \in Agents, NEW s \in Subscriptions, AwaitIntent(a, s), UNCHANGED usage
        PROVE  RInv'
    BY <1>3, AwaitKeepsRInv
  <1>4. ASSUME NEW a \in Agents, DestroyAgent(a), UNCHANGED usage
        PROVE  RInv'
    <2>1. <<>> \in Seq(Intents)
      BY EmptySeq
    <2>2. mailboxes' \in [Agents -> Seq(Intents)]
      BY <1>1, <1>4, <2>1 DEF RInvBody, DestroyAgent
    <2>3. QED
      BY <1>1, <1>4, <2>2, RInvParts DEF RInvBody, DestroyAgent
  <1>5. CASE OtherCall /\ UNCHANGED usage
    BY <1>5, OtherKeepsRInv
  <1>6. CASE UNCHANGED vars
    BY <1>1, <1>6, RInvParts DEF RInvBody, vars
  <1>7. QED
    BY <1>2, <1>3, <1>4, <1>5, <1>6 DEF Next, KernelCall

\* What an intent router holds: every queue is one of intents, the dead letters
\* never exceed their limit, and their ids differ as long as clients keep ids
\* unique.
THEOREM RouterInvariant == Spec => []RInv
  <1>1. RInv /\ [Next]_vars => RInv'
    BY RInvNext
  <1>2. QED
    BY RInvInit, <1>1, PTL DEF Spec

\* The dead letters keep within max_dead_letters, whatever is published, and
\* mailboxes and dead letters hold whole intents (publish, deliver_to_agent).
THEOREM RouterTypes == Spec => []TypeOK
  <1>1. RInv => TypeOK
    BY DEF RInv
  <1>2. QED
    BY RouterInvariant, <1>1, PTL

\* For any subscriptions and any message, publish delivers to the audience of
\* the message and to nobody else (publish, deliver_to_agent, check_sub_match,
\* topic_matches).
THEOREM PublishingReachesAudience == Spec => []ReachesAudience
  <1>1. RInv => ReachesAudience
    BY DeliversToAudience DEF RInv
  <1>2. QED
    BY RouterInvariant, <1>1, PTL

-----------------------------------------------------------------------------
(* What a step may take away.                                              *)

\* A step takes away nothing but, at most, an intent that matches what is asked
\* for, when ids are unique.
LEMMA AwaitTakesOne ==
  ASSUME RInv, NEW a \in Agents, NEW s \in Subscriptions, AwaitIntent(a, s)
  PROVE  \E x : /\ Gone \in SUBSET {x}
                /\ unique_ids => \A i \in Gone : Matches(s, i.message)
  <1>1. RInvBody
    BY RInvParts
  <1>2. CASE AwaitMail(a, s)
    <2> DEFINE q == mailboxes[a]
               n == FirstMatching(q, s)
               r == RemoveAt(q, n)
    <2>1. q \in Seq(Intents)
      BY <1>1 DEF RInvBody
    <2>2. n \in 1..Len(q) /\ Matches(s, q[n].message)
      <3>1. n \in 0..Len(q) /\ n > 0 /\ Matches(s, q[n].message)
        BY <1>2, <2>1, FirstMatchingParts DEF AwaitMail
      <3>2. QED
        BY <3>1
    <2>3. mailboxes' = [mailboxes EXCEPT ![a] = r] /\ dead_letters' = dead_letters
      BY <1>2 DEF AwaitMail
    <2>4. q = mailboxes[a]
      OBVIOUS
    <2> HIDE DEF q, n
    <2>5. \A x \in ToSet(q) : x \in ToSet(r) \/ x = q[n]
      BY <2>1, <2>2, RemovedMembers
    <2> HIDE DEF r
    <2>6. \A b \in Agents : mailboxes'[b] = IF b = a THEN r ELSE mailboxes[b]
      BY <1>1, <2>3 DEF RInvBody
    <2>7. Gone \in SUBSET {q[n]}
      BY <2>3, <2>4, <2>5, <2>6 DEF Gone, Pending, InMail
    <2>8. QED
      BY <2>2, <2>7
  <1>3. CASE AwaitReplay(a, s)
    <2> DEFINE q == dead_letters
    <2>1. PICK k \in 1..Len(q) : /\ Requeued(s) = RemoveAt(q, k)
                                 /\ unique_ids => Matches(s, q[k].message)
      BY <1>3, ReplayRemoves DEF AwaitReplay
    <2> DEFINE r == RemoveAt(q, k)
    <2>2. dead_letters' = r /\ mailboxes' = mailboxes
      BY <1>3, <2>1 DEF AwaitReplay
    <2>3. \A x \in ToSet(q) : x \in ToSet(r) \/ x = q[k]
      BY <1>1, RemovedMembers DEF RInvBody, Queued
    <2> HIDE DEF r
    <2>4. Gone \in SUBSET {q[k]}
      BY <2>2, <2>3 DEF Gone, Pending, InMail
    <2>5. QED
      BY <2>1, <2>4
  <1>4. CASE AwaitNothing(a, s)
    <2>1. Gone = {}
      BY <1>4 DEF AwaitNothing, Gone, Pending, InMail
    <2>2. QED
      BY <2>1
  <1>5. QED
    BY <1>2, <1>3, <1>4 DEF AwaitIntent

\* Sending leaves the intent somewhere, and takes away at most the oldest dead
\* letter, when they are full.
LEMMA SendTakesHead ==
  ASSUME RInv, NEW i \in Intents, SendIntent(i)
  PROVE  /\ i \in Pending'
         /\ Gone # {} => Gone = {Head(dead_letters)} /\ Len(dead_letters) = max_dead_letters
  <1> DEFINE R == DeliverTo(i.message)
             q == dead_letters
             w == WithRoom(q)
  <1>1. RInvBody
    BY RInvParts
  <1>2. \A a \in Agents : mailboxes[a] \in Seq(Intents)
    BY <1>1 DEF RInvBody
  <1>3. \A a \in Agents : mailboxes'[a] =
          IF a \in R THEN mailboxes[a] \o [n \in 1..TimesNamed(i.message, a) |-> i]
          ELSE mailboxes[a]
    BY DEF SendIntent
  <1>4. \A a \in Agents : InMail(a) \in SUBSET ToSet(mailboxes'[a])
    BY <1>2, <1>3, MailIsTyped DEF InMail
  <1>5. CASE R # {}
    <2>1. PICK a \in R : a \in Agents /\ TimesNamed(i.message, a) > 0
      BY <1>5 DEF DeliverTo
    <2>2. i \in ToSet(mailboxes'[a])
      BY <1>2, <1>3, <2>1, MailIsTyped
    <2>3. dead_letters' = dead_letters
      BY <1>5 DEF SendIntent
    <2>4. QED
      BY <1>4, <2>1, <2>2, <2>3 DEF Gone, Pending, InMail
  <1>6. CASE R = {}
    <2>1. dead_letters' = Append(w, i)
      BY <1>6 DEF SendIntent
    <2>2. q \in Seq(Intents) /\ Len(q) <= max_dead_letters
      BY <1>1 DEF RInvBody, Queued
    <2>3. /\ w \in Seq(Intents)
          /\ \/ w = q
             \/ /\ Len(q) = max_dead_letters
                /\ \A x \in ToSet(q) : x \in ToSet(w) \/ x = Head(q)
      <3>1. CASE Len(q) < max_dead_letters
        BY <2>2, <3>1, RoomIsMade
      <3>2. CASE ~(Len(q) < max_dead_letters)
        <4>1. q # <<>> /\ w = RemoveAt(q, 1) /\ Len(q) = max_dead_letters /\ 1 \in 1..Len(q)
          BY <2>2, <3>2, RoomIsMade
        <4>2. /\ RemoveAt(q, 1) \in Seq(Intents)
              /\ \A x \in ToSet(q) : x \in ToSet(RemoveAt(q, 1)) \/ x = q[1]
          BY <2>2, <4>1, RemovedParts, RemovedMembers
        <4>3. Head(q) = q[1]
          BY <2>2, <4>1
        <4> HIDE DEF w
        <4>4. QED
          BY <4>1, <4>2, <4>3
      <3>3. QED
        BY <3>1, <3>2
    <2> HIDE DEF w
    <2>4. i \in ToSet(dead_letters') /\ ToSet(w) \in SUBSET ToSet(dead_letters')
      <3> DEFINE r == Append(w, i)
      <3>1. /\ r \in Seq(Intents) /\ Len(r) = Len(w) + 1
            /\ \A k \in 1..Len(w) : r[k] = w[k]
            /\ r[Len(w) + 1] = i
        BY <2>3, AppendProperties
      <3> HIDE DEF r
      <3>2. Len(w) \in Nat /\ DOMAIN w = 1..Len(w) /\ DOMAIN r = 1..Len(r)
        BY <2>3, <3>1
      <3>3. i \in ToSet(r) /\ \A k \in DOMAIN w : k \in DOMAIN r /\ r[k] = w[k]
        BY <3>1, <3>2 DEF ToSet
      <3>4. dead_letters' = r
        BY <2>1 DEF r
      <3>5. QED
        BY <3>3, <3>4 DEF ToSet
    <2>5. i \in Pending'
      BY <2>4 DEF Pending
    <2>6. Gone \in SUBSET (ToSet(q) \ ToSet(w))
      BY <1>4, <2>4 DEF Gone, Pending, InMail
    <2>7. Gone # {} => Gone = {Head(q)} /\ Len(q) = max_dead_letters
      BY <2>3, <2>6
    <2>8. QED
      BY <2>5, <2>7
  <1>7. QED
    BY <1>5, <1>6

\* Nothing that waits vanishes: what one step takes away is an answer, the mail
\* of an agent destroyed, or the oldest dead letter where they are full
\* (send_intent, await_intent, destroy_agent, publish).
THEOREM IntentsAreConserved == Spec => NothingVanishes
  <1> DEFINE Sent == total_published' > total_published => \E i \in Pending' : SendIntent(i)
             Kept == Gone # {} /\ usage # "api" =>
                       \/ /\ Cardinality(Gone) = 1
                          /\ \E a \in Agents, s \in Subscriptions : AwaitIntent(a, s)
                       \/ \E a \in Agents : Gone \subseteq InMail(a) /\ DestroyAgent(a)
                       \/ /\ Gone = {Head(dead_letters)} /\ Len(dead_letters) = max_dead_letters
                          /\ total_published' > total_published
  <1>1. ASSUME RInv, [Next]_vars
        PROVE  [Sent /\ Kept]_vars
    <2>1. total_published \in Nat /\ ~(total_published > total_published)
      BY <1>1, RouterAssumption DEF RInv, TypeOK
    <2>2. ASSUME NEW i \in Intents, SendIntent(i)
          PROVE  Sent /\ Kept
      <3>1. /\ i \in Pending'
            /\ Gone # {} => Gone = {Head(dead_letters)} /\ Len(dead_letters) = max_dead_letters
        BY <1>1, <2>2, SendTakesHead
      <3>2. total_published' > total_published
        BY <2>1, <2>2 DEF SendIntent
      <3>3. Sent
        BY <2>2, <3>1, Zenon
      <3>4. Kept
        BY <3>1, <3>2, Zenon
      <3>5. QED
        BY <3>3, <3>4
    <2>3. ASSUME NEW a \in Agents, NEW s \in Subscriptions, AwaitIntent(a, s)
          PROVE  Sent /\ Kept
      <3>1. PICK x : Gone \in SUBSET {x}
        BY <1>1, <2>3, AwaitTakesOne
      <3>2. Gone # {} => Cardinality(Gone) = 1
        <4>1. Gone # {} => Gone = {x}
          BY <3>1
        <4>2. Cardinality({x}) = 1
          BY FS_Singleton
        <4>3. QED
          BY <4>1, <4>2, Zenon
      <3>3. total_published' = total_published
        BY <2>3 DEF AwaitIntent, AwaitMail, AwaitReplay, AwaitNothing
      <3>4. Sent
        BY <2>1, <3>3
      <3>5. Kept
        BY <2>3, <3>2, Zenon
      <3>6. QED
        BY <3>4, <3>5
    <2>4. ASSUME NEW a \in Agents, DestroyAgent(a)
          PROVE  Sent /\ Kept
      <3>1. \A b \in Agents : b # a => mailboxes'[b] = mailboxes[b]
        BY <1>1, <2>4 DEF DestroyAgent, RInv, TypeOK
      <3>2. Gone \subseteq InMail(a)
        BY <2>4, <3>1 DEF DestroyAgent, Gone, Pending, InMail
      <3>3. Sent
        BY <2>1, <2>4 DEF DestroyAgent
      <3>4. Kept
        BY <2>4, <3>2, Zenon
      <3>5. QED
        BY <3>3, <3>4
    <2>5. CASE usage = "api" /\ OtherCall
      <3>1. total_published' = total_published
        BY <2>5 DEF OtherCall, Subscribe, Unsubscribe, ClearDeadLetters, RequeueDeadLetter
      <3>2. QED
        BY <2>1, <2>5, <3>1
    <2>6. QED
      BY <1>1, <2>2, <2>3, <2>4, <2>5 DEF Next, KernelCall
  <1>2. QED
    BY RouterInvariant, <1>1, PTL DEF Spec, NothingVanishes

\* An agent that asks is answered when an intent that matches waits for it or
\* among the dead letters, and with one that matches as long as ids are unique
\* (await_intent, requeue_dead_letter).
THEOREM AnswersAreRight == Spec => AnswersMatch
  <1> DEFINE Right == \A a \in Agents, s \in Subscriptions :
               total_published' = total_published /\ AwaitIntent(a, s) =>
                 /\ (\E i \in InMail(a) \cup ToSet(dead_letters) : Matches(s, i.message)) =>
                      <<dead_letters, mailboxes>>' # <<dead_letters, mailboxes>>
                 /\ unique_ids => \A i \in Gone : Matches(s, i.message)
  <1>1. ASSUME RInv
        PROVE  Right
    <2> SUFFICES ASSUME NEW a \in Agents, NEW s \in Subscriptions, AwaitIntent(a, s)
                 PROVE  /\ (\E i \in InMail(a) \cup ToSet(dead_letters) : Matches(s, i.message)) =>
                             <<dead_letters, mailboxes>>' # <<dead_letters, mailboxes>>
                        /\ unique_ids => \A i \in Gone : Matches(s, i.message)
      OBVIOUS
    <2>1. unique_ids => \A i \in Gone : Matches(s, i.message)
      BY <1>1, AwaitTakesOne
    <2>2. RInvBody
      BY <1>1, RInvParts
    <2>3. dead_letters \in Seq(Intents) /\ mailboxes[a] \in Seq(Intents)
      BY <2>2 DEF RInvBody, Queued
    <2>4. CASE AwaitMail(a, s)
      <3> DEFINE q == mailboxes[a]
                 n == FirstMatching(q, s)
      <3>1. n \in 0..Len(q) /\ n > 0
        BY <2>3, <2>4, FirstMatchingParts DEF AwaitMail
      <3>2. mailboxes' = [mailboxes EXCEPT ![a] = RemoveAt(q, n)] /\ q \in Seq(Intents)
        BY <2>3, <2>4 DEF AwaitMail
      <3>3. q = mailboxes[a]
        OBVIOUS
      <3> HIDE DEF q, n
      <3>4. n \in 1..Len(q)
        BY <3>1
      <3>5. RemoveAt(q, n) # q
        BY <3>2, <3>4, RemovedFrom
      <3>6. mailboxes'[a] # mailboxes[a]
        BY <2>2, <3>2, <3>3, <3>5 DEF RInvBody
      <3>7. QED
        BY <2>1, <3>6
    <2>5. CASE AwaitReplay(a, s)
      <3>1. PICK k \in 1..Len(dead_letters) : Requeued(s) = RemoveAt(dead_letters, k)
        BY <1>1, <2>5, ReplayRemoves DEF AwaitReplay
      <3>2. dead_letters' # dead_letters
        BY <2>3, <2>5, <3>1, RemovedFrom DEF AwaitReplay
      <3>3. QED
        BY <2>1, <3>2
    <2>6. CASE AwaitNothing(a, s)
      <3>1. /\ \A i \in 1..Len(mailboxes[a]) : ~Matches(s, mailboxes[a][i].message)
            /\ \A i \in 1..Len(dead_letters) : ~Matches(s, dead_letters[i].message)
        BY <2>3, <2>6, FirstMatchingParts DEF AwaitNothing
      <3>2. DOMAIN mailboxes[a] = 1..Len(mailboxes[a]) /\ DOMAIN dead_letters = 1..Len(dead_letters)
        BY <2>3
      <3>3. \A i \in InMail(a) \cup ToSet(dead_letters) : ~Matches(s, i.message)
        BY <3>1, <3>2 DEF InMail, ToSet
      <3>4. QED
        BY <2>1, <3>3
    <2>7. QED
      BY <2>4, <2>5, <2>6 DEF AwaitIntent
  <1>2. RInv /\ [Next]_vars => [Right]_vars
    BY <1>1
  <1>3. QED
    BY RouterInvariant, <1>2, PTL DEF Spec, AnswersMatch
=============================================================================
