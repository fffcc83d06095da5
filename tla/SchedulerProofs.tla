--------------------------- MODULE SchedulerProofs ---------------------------
(***************************************************************************)
(* Theorems about Scheduler.  The sifts, the drain and the rebuild are     *)
(* recursive, and each is shown to reorder the array it is given: first    *)
(* that the definition has the function it describes (Induction), then, by *)
(* induction on the position or the length, what that function keeps.      *)
(***************************************************************************)
EXTENDS Scheduler, Induction, FiniteSetTheorems, SequenceTheorems

\* h has the entry e, and each task at most once.
Holds(h, e) == \E i \in 1..Len(h) : h[i] = e
Once(h) == \A i, j \in 1..Len(h) : h[i].task = h[j].task => i = j

\* g is h in some order.
Kept(h, g) ==
  /\ g \in Heaps /\ Len(g) = Len(h)
  /\ \A e : Holds(g, e) <=> Holds(h, e)
  /\ Once(h) => Once(g)

LEMMA MaxWaitIsNat == MaxWait \in Nat
  <1>1. \A x, y \in Nat : x * y \in Nat
    OBVIOUS
  <1>2. MaxAging * Minute \in Nat
    BY <1>1, SchedulerAssumption DEF SchedulerAssumption
  <1>3. MaxAging * Minute * Second \in Nat
    BY <1>1, <1>2, SchedulerAssumption DEF SchedulerAssumption
  <1>4. QED
    BY <1>3 DEF MaxWait

LEMMA KeptItself ==
  ASSUME NEW h \in Heaps
  PROVE  Kept(h, h)
  BY DEF Kept

LEMMA KeptInTurn ==
  ASSUME NEW f, NEW g, NEW h, Kept(f, g), Kept(g, h)
  PROVE  Kept(f, h)
  BY DEF Kept

\* g takes h's entries by a permutation of the positions.
Rearranged(h, g, to, from) ==
  /\ h \in Heaps /\ g \in Heaps /\ Len(g) = Len(h)
  /\ \A k \in 1..Len(h) :
       /\ to[k] \in 1..Len(h) /\ from[k] \in 1..Len(h)
       /\ from[to[k]] = k /\ to[from[k]] = k
       /\ g[k] = h[to[k]]

LEMMA RearrangedKeeps ==
  ASSUME NEW h, NEW g, NEW to, NEW from, Rearranged(h, g, to, from)
  PROVE  Kept(h, g)
  <1> USE DEF Rearranged
  <1>1. \A e : Holds(g, e) <=> Holds(h, e)
    <2> TAKE e
    <2>1. ASSUME Holds(g, e) PROVE Holds(h, e)
      BY <2>1 DEF Holds
    <2>2. ASSUME Holds(h, e) PROVE Holds(g, e)
      <3>1. PICK k \in 1..Len(h) : h[k] = e
        BY <2>2 DEF Holds
      <3>2. g[from[k]] = e /\ from[k] \in 1..Len(g)
        BY <3>1
      <3>3. QED
        BY <3>2 DEF Holds
    <2>3. QED
      BY <2>1, <2>2
  <1>2. Once(h) => Once(g)
    <2> SUFFICES ASSUME Once(h), NEW k \in 1..Len(g), NEW l \in 1..Len(g), g[k].task = g[l].task
                 PROVE  k = l
      BY DEF Once
    <2>1. h[to[k]].task = h[to[l]].task
      OBVIOUS
    <2>2. to[k] = to[l]
      BY <2>1 DEF Once
    <2>3. from[to[k]] = k /\ from[to[l]] = l
      OBVIOUS
    <2>4. QED
      BY <2>2, <2>3
  <1>3. QED
    BY <1>1, <1>2 DEF Kept

LEMMA SwappedKeeps ==
  ASSUME NEW h \in Heaps, NEW i \in 1..Len(h), NEW j \in 1..Len(h)
  PROVE  Kept(h, Swapped(h, i, j))
  <1> DEFINE g == Swapped(h, i, j)
             to == [k \in 1..Len(h) |-> IF k = i THEN j ELSE IF k = j THEN i ELSE k]
  <1>1. g \in Heaps /\ Len(g) = Len(h)
    BY DEF Heaps, Swapped
  <1>2. \A k \in 1..Len(h) : g[k] = h[to[k]]
    BY DEF Heaps, Swapped
  <1>3. \A k \in 1..Len(h) : to[k] \in 1..Len(h) /\ to[to[k]] = k
    OBVIOUS
  <1> HIDE DEF g, to
  <1>4. Rearranged(h, g, to, to)
    BY <1>1, <1>2, <1>3 DEF Rearranged
  <1>5. QED
    BY <1>4, RearrangedKeeps DEF g

LEMMA ParentInRange ==
  ASSUME NEW i \in Nat, i > 1
  PROVE  Parent(i) \in Nat /\ 1 <= Parent(i) /\ Parent(i) < i
  BY DEF Parent

LEMMA ChildInRange ==
  ASSUME NEW h \in Heaps, NEW i \in 1..Len(h), 2 * i <= Len(h)
  PROVE  GreaterChild(h, i) \in 1..Len(h) /\ i < GreaterChild(h, i)
  <1> DEFINE right == 2 * i + 1 <= Len(h)
                      /\ scheduling_score(h[2 * i]) <= scheduling_score(h[2 * i + 1])
  <1>1. GreaterChild(h, i) = IF right THEN 2 * i + 1 ELSE 2 * i
    BY DEF GreaterChild
  <1>2. right => 2 * i + 1 <= Len(h)
    OBVIOUS
  <1> HIDE DEF right
  <1>3. QED
    BY <1>1, <1>2 DEF Heaps

-----------------------------------------------------------------------------
(* sift_up *)

LEMMA CursorParts ==
  /\ \A c \in Cursors : c = <<c[1], c[2]>> /\ c[1] \in Heaps /\ c[2] \in Nat /\ c[2] \in 1..Len(c[1])
  /\ \A h \in Heaps : \A i \in 1..Len(h) :
       <<h, i>> \in Cursors /\ <<h, i>>[1] = h /\ <<h, i>>[2] = i
  BY DEF Cursors, Heaps

\* The cursor one level up, and the number of positions before a cursor.
Above(c) == <<Swapped(c[1], c[2], Parent(c[2])), Parent(c[2])>>
Height == [c \in Cursors |-> c[2]]

\* The value sift_up gives at c, by its values at other cursors.
UpFrom(f, c) ==
  IF c[2] = 1 \/ scheduling_score(c[1][c[2]]) <= scheduling_score(c[1][Parent(c[2])])
  THEN c[1] ELSE f[Above(c)]

LEMMA HeightIsNat == Height \in [Cursors -> Nat]
  BY CursorParts DEF Height

LEMMA AboveGoesUp ==
  ASSUME NEW c \in Cursors, c[2] # 1
  PROVE  Above(c) \in Cursors /\ Height[Above(c)] < Height[c] /\ Kept(c[1], Above(c)[1])
  <1> DEFINE i == Parent(c[2])
             g == Swapped(c[1], c[2], i)
  <1>1. c[1] \in Heaps /\ c[2] \in 1..Len(c[1]) /\ c[2] > 1
    BY CursorParts DEF Heaps
  <1>2. i \in 1..Len(c[1]) /\ i < c[2]
    BY <1>1, ParentInRange DEF Heaps
  <1>3. Kept(c[1], g)
    BY <1>1, <1>2, SwappedKeeps
  <1>4. Above(c) = <<g, i>>
    BY DEF Above
  <1> HIDE DEF i, g
  <1>5. g \in Heaps /\ i \in 1..Len(g)
    BY <1>2, <1>3 DEF Kept
  <1>6. <<g, i>> \in Cursors /\ <<g, i>>[1] = g /\ <<g, i>>[2] = i
    BY <1>5, CursorParts
  <1>7. Above(c) \in Cursors /\ Above(c)[1] = g /\ Above(c)[2] = i
    BY <1>4, <1>6
  <1>8. Height[Above(c)] = i /\ Height[c] = c[2]
    BY <1>7 DEF Height
  <1>9. QED
    BY <1>2, <1>3, <1>7, <1>8

LEMMA UpSolves == sift_up = [c \in Cursors |-> UpFrom(sift_up, c)]
  <1> DEFINE D == [c \in Cursors |-> [f \in [Cursors -> Heaps] |-> UpFrom(f, c)]]
  <1>1. ASSUME NEW c \in Cursors, NEW f \in [Cursors -> Heaps]
        PROVE  UpFrom(f, c) \in Heaps
    BY CursorParts, AboveGoesUp DEF UpFrom
  <1>2. ASSUME NEW c \in Cursors, NEW f \in [Cursors -> Heaps], NEW g \in [Cursors -> Heaps],
               \A d \in Cursors : Height[d] < Height[c] => f[d] = g[d]
        PROVE  UpFrom(f, c) = UpFrom(g, c)
    BY <1>2, AboveGoesUp DEF UpFrom
  <1>3. D \in [Cursors -> [[Cursors -> Heaps] -> Heaps]]
    BY <1>1
  <1>4. \A c \in Cursors : \A f \in [Cursors -> Heaps] : D[c][f] = UpFrom(f, c)
    OBVIOUS
  <1> HIDE DEF D
  <1>5. Determined(D, Cursors, Heaps, Height)
    <2>1. \A c \in Cursors : \A f, g \in [Cursors -> Heaps] :
            (\A d \in Cursors : Height[d] < Height[c] => f[d] = g[d]) => D[c][f] = D[c][g]
      BY <1>2, <1>4
    <2>2. QED
      BY <1>3, <2>1, HeightIsNat, Zenon DEF Determined
  <1>6. Heaps # {}
    BY <<>> \in Heaps DEF Heaps
  <1>7. PICK f \in [Cursors -> Heaps] : \A c \in Cursors : f[c] = D[c][f]
    BY <1>5, <1>6, SolutionExists
  <1>8. f = [c \in Cursors |-> UpFrom(f, c)]
    <2>1. \A c \in Cursors : f[c] = UpFrom(f, c)
      BY <1>4, <1>7
    <2>2. QED
      BY <2>1, Zenon
  <1>9. sift_up = CHOOSE g : g = [c \in Cursors |-> UpFrom(g, c)]
    BY DEF sift_up, UpFrom, Above
  <1>10. QED
    BY <1>8, <1>9, Zenon

LEMMA UpKeeps == \A c \in Cursors : Kept(c[1], sift_up[c])
  <1> DEFINE P == {c \in Cursors : Kept(c[1], sift_up[c])}
  <1>1. ASSUME NEW c \in Cursors, \A d \in Cursors : Height[d] < Height[c] => d \in P
        PROVE  Kept(c[1], sift_up[c])
    <2> DEFINE d == Above(c)
    <2>1. sift_up[c] = UpFrom(sift_up, c)
      BY UpSolves
    <2>2. CASE sift_up[c] = c[1]
      BY <2>2, CursorParts, KeptItself
    <2>3. CASE c[2] # 1 /\ sift_up[c] = sift_up[d]
      <3>1. d \in Cursors /\ Height[d] < Height[c] /\ Kept(c[1], d[1])
        BY <2>3, AboveGoesUp
      <3>2. Kept(d[1], sift_up[d])
        BY <1>1, <3>1
      <3>3. QED
        BY <2>3, <3>1, <3>2, KeptInTurn
    <2>4. QED
      BY <2>1, <2>2, <2>3 DEF UpFrom
  <1>2. P = Cursors
    <2>1. P \in SUBSET Cursors
      OBVIOUS
    <2>2. \A c \in Cursors : (\A d \in Cursors : Height[d] < Height[c] => d \in P) => c \in P
      BY <1>1
    <2> HIDE DEF P
    <2>3. QED
      BY <2>1, <2>2, HeightIsNat, ByMeasure
  <1>3. QED
    BY <1>2

-----------------------------------------------------------------------------
(* The downward sifts *)

\* The cursor one level down, at the greater child.
Below(c) == <<Swapped(c[1], c[2], GreaterChild(c[1], c[2])), GreaterChild(c[1], c[2])>>

DownFrom(f, c) ==
  IF 2 * c[2] > Len(c[1])
     \/ scheduling_score(c[1][c[2]]) >= scheduling_score(c[1][GreaterChild(c[1], c[2])])
  THEN c[1] ELSE f[Below(c)]

BottomFrom(f, c) == IF 2 * c[2] > Len(c[1]) THEN sift_up[c] ELSE f[Below(c)]

\* The number of positions after a cursor.
Room == [c \in Cursors |-> Len(c[1]) - c[2]]

LEMMA RoomIsNat == Room \in [Cursors -> Nat]
  <1>1. \A c \in Cursors : Len(c[1]) - c[2] \in Nat
    BY CursorParts DEF Heaps
  <1>2. QED
    BY <1>1 DEF Room

LEMMA BelowGoesDown ==
  ASSUME NEW c \in Cursors, 2 * c[2] <= Len(c[1])
  PROVE  Below(c) \in Cursors /\ Room[Below(c)] < Room[c] /\ Kept(c[1], Below(c)[1])
  <1> DEFINE i == GreaterChild(c[1], c[2])
             g == Swapped(c[1], c[2], i)
  <1>1. c[1] \in Heaps /\ c[2] \in 1..Len(c[1]) /\ Len(c[1]) \in Nat
    BY CursorParts DEF Heaps
  <1>2. i \in 1..Len(c[1]) /\ c[2] < i
    BY <1>1, ChildInRange
  <1>3. Kept(c[1], g)
    BY <1>1, <1>2, SwappedKeeps
  <1>4. Below(c) = <<g, i>>
    BY DEF Below
  <1> HIDE DEF i, g
  <1>5. g \in Heaps /\ Len(g) = Len(c[1]) /\ i \in 1..Len(g)
    BY <1>2, <1>3 DEF Kept
  <1>6. <<g, i>> \in Cursors /\ <<g, i>>[1] = g /\ <<g, i>>[2] = i
    BY <1>5, CursorParts
  <1>7. Below(c) \in Cursors /\ Below(c)[1] = g /\ Below(c)[2] = i
    BY <1>4, <1>6
  <1>8. Room[Below(c)] = Len(g) - i /\ Room[c] = Len(c[1]) - c[2]
    BY <1>7 DEF Room
  <1>9. QED
    BY <1>1, <1>2, <1>3, <1>5, <1>7, <1>8

LEMMA DownSolves == sift_down = [c \in Cursors |-> DownFrom(sift_down, c)]
  <1> DEFINE D == [c \in Cursors |-> [f \in [Cursors -> Heaps] |-> DownFrom(f, c)]]
  <1>1. ASSUME NEW c \in Cursors, NEW f \in [Cursors -> Heaps]
        PROVE  DownFrom(f, c) \in Heaps
    BY CursorParts, BelowGoesDown DEF DownFrom, Heaps
  <1>2. ASSUME NEW c \in Cursors, NEW f \in [Cursors -> Heaps], NEW g \in [Cursors -> Heaps],
               \A d \in Cursors : Room[d] < Room[c] => f[d] = g[d]
        PROVE  DownFrom(f, c) = DownFrom(g, c)
    BY <1>2, CursorParts, BelowGoesDown DEF DownFrom, Heaps
  <1>3. D \in [Cursors -> [[Cursors -> Heaps] -> Heaps]]
    BY <1>1
  <1>4. \A c \in Cursors : \A f \in [Cursors -> Heaps] : D[c][f] = DownFrom(f, c)
    OBVIOUS
  <1> HIDE DEF D
  <1>5. Determined(D, Cursors, Heaps, Room)
    <2>1. \A c \in Cursors : \A f, g \in [Cursors -> Heaps] :
            (\A d \in Cursors : Room[d] < Room[c] => f[d] = g[d]) => D[c][f] = D[c][g]
      BY <1>2, <1>4
    <2>2. QED
      BY <1>3, <2>1, RoomIsNat, Zenon DEF Determined
  <1>6. Heaps # {}
    BY <<>> \in Heaps DEF Heaps
  <1>7. PICK f \in [Cursors -> Heaps] : \A c \in Cursors : f[c] = D[c][f]
    BY <1>5, <1>6, SolutionExists
  <1>8. f = [c \in Cursors |-> DownFrom(f, c)]
    <2>1. \A c \in Cursors : f[c] = DownFrom(f, c)
      BY <1>4, <1>7
    <2>2. QED
      BY <2>1, Zenon
  <1>9. sift_down = CHOOSE g : g = [c \in Cursors |-> DownFrom(g, c)]
    BY DEF sift_down, DownFrom, Below
  <1>10. QED
    BY <1>8, <1>9, Zenon

LEMMA DownKeeps == \A c \in Cursors : Kept(c[1], sift_down[c])
  <1> DEFINE P == {c \in Cursors : Kept(c[1], sift_down[c])}
  <1>1. ASSUME NEW c \in Cursors, \A d \in Cursors : Room[d] < Room[c] => d \in P
        PROVE  Kept(c[1], sift_down[c])
    <2> DEFINE d == Below(c)
    <2>1. sift_down[c] = DownFrom(sift_down, c)
      BY DownSolves
    <2>2. CASE sift_down[c] = c[1]
      BY <2>2, CursorParts, KeptItself
    <2>3. CASE 2 * c[2] <= Len(c[1]) /\ sift_down[c] = sift_down[d]
      <3>1. d \in Cursors /\ Room[d] < Room[c] /\ Kept(c[1], d[1])
        BY <2>3, BelowGoesDown
      <3>2. Kept(d[1], sift_down[d])
        BY <1>1, <3>1
      <3>3. QED
        BY <2>3, <3>1, <3>2, KeptInTurn
    <2>4. QED
      BY <2>1, <2>2, <2>3, CursorParts DEF DownFrom, Heaps
  <1>2. P = Cursors
    <2>1. P \in SUBSET Cursors
      OBVIOUS
    <2>2. \A c \in Cursors : (\A d \in Cursors : Room[d] < Room[c] => d \in P) => c \in P
      BY <1>1
    <2> HIDE DEF P
    <2>3. QED
      BY <2>1, <2>2, RoomIsNat, ByMeasure
  <1>3. QED
    BY <1>2

LEMMA BottomSolves == sift_down_to_bottom = [c \in Cursors |-> BottomFrom(sift_down_to_bottom, c)]
  <1> DEFINE D == [c \in Cursors |-> [f \in [Cursors -> Heaps] |-> BottomFrom(f, c)]]
  <1>1. ASSUME NEW c \in Cursors, NEW f \in [Cursors -> Heaps]
        PROVE  BottomFrom(f, c) \in Heaps
    BY CursorParts, UpKeeps, BelowGoesDown DEF BottomFrom, Heaps, Kept
  <1>2. ASSUME NEW c \in Cursors, NEW f \in [Cursors -> Heaps], NEW g \in [Cursors -> Heaps],
               \A d \in Cursors : Room[d] < Room[c] => f[d] = g[d]
        PROVE  BottomFrom(f, c) = BottomFrom(g, c)
    BY <1>2, CursorParts, BelowGoesDown DEF BottomFrom, Heaps
  <1>3. D \in [Cursors -> [[Cursors -> Heaps] -> Heaps]]
    BY <1>1
  <1>4. \A c \in Cursors : \A f \in [Cursors -> Heaps] : D[c][f] = BottomFrom(f, c)
    OBVIOUS
  <1> HIDE DEF D
  <1>5. Determined(D, Cursors, Heaps, Room)
    <2>1. \A c \in Cursors : \A f, g \in [Cursors -> Heaps] :
            (\A d \in Cursors : Room[d] < Room[c] => f[d] = g[d]) => D[c][f] = D[c][g]
      BY <1>2, <1>4
    <2>2. QED
      BY <1>3, <2>1, RoomIsNat, Zenon DEF Determined
  <1>6. Heaps # {}
    BY <<>> \in Heaps DEF Heaps
  <1>7. PICK f \in [Cursors -> Heaps] : \A c \in Cursors : f[c] = D[c][f]
    BY <1>5, <1>6, SolutionExists
  <1>8. f = [c \in Cursors |-> BottomFrom(f, c)]
    <2>1. \A c \in Cursors : f[c] = BottomFrom(f, c)
      BY <1>4, <1>7
    <2>2. QED
      BY <2>1, Zenon
  <1>9. sift_down_to_bottom = CHOOSE g : g = [c \in Cursors |-> BottomFrom(g, c)]
    BY DEF sift_down_to_bottom, BottomFrom, Below
  <1>10. QED
    BY <1>8, <1>9, Zenon

LEMMA BottomKeeps == \A c \in Cursors : Kept(c[1], sift_down_to_bottom[c])
  <1> DEFINE P == {c \in Cursors : Kept(c[1], sift_down_to_bottom[c])}
  <1>1. ASSUME NEW c \in Cursors, \A d \in Cursors : Room[d] < Room[c] => d \in P
        PROVE  Kept(c[1], sift_down_to_bottom[c])
    <2> DEFINE d == Below(c)
    <2>1. sift_down_to_bottom[c] = BottomFrom(sift_down_to_bottom, c)
      BY BottomSolves
    <2>2. CASE sift_down_to_bottom[c] = sift_up[c]
      BY <2>2, UpKeeps
    <2>3. CASE 2 * c[2] <= Len(c[1]) /\ sift_down_to_bottom[c] = sift_down_to_bottom[d]
      <3>1. d \in Cursors /\ Room[d] < Room[c] /\ Kept(c[1], d[1])
        BY <2>3, BelowGoesDown
      <3>2. Kept(d[1], sift_down_to_bottom[d])
        BY <1>1, <3>1
      <3>3. QED
        BY <2>3, <3>1, <3>2, KeptInTurn
    <2>4. QED
      BY <2>1, <2>2, <2>3, CursorParts DEF BottomFrom, Heaps
  <1>2. P = Cursors
    <2>1. P \in SUBSET Cursors
      OBVIOUS
    <2>2. \A c \in Cursors : (\A d \in Cursors : Room[d] < Room[c] => d \in P) => c \in P
      BY <1>1
    <2> HIDE DEF P
    <2>3. QED
      BY <2>1, <2>2, RoomIsNat, ByMeasure
  <1>3. QED
    BY <1>2


-----------------------------------------------------------------------------
(* push and pop *)

LEMMA PushKeeps ==
  ASSUME NEW h \in Heaps, NEW t \in Tasks
  PROVE  Kept(Append(h, [task |-> t, waited |-> 0]), Push(h, t))
  <1> DEFINE e == [task |-> t, waited |-> 0]
             g == Append(h, e)
  <1>1. e \in Entries
    BY MaxWaitIsNat DEF Entries
  <1> HIDE DEF e
  <1>2. g \in Heaps /\ Len(g) = Len(h) + 1 /\ Len(h) + 1 \in 1..Len(g)
    BY <1>1 DEF Heaps
  <1> HIDE DEF g
  <1>3. Kept(g, sift_up[<<g, Len(h) + 1>>])
    BY <1>2, CursorParts, UpKeeps
  <1>4. QED
    BY <1>3 DEF Push, g, e

\* pop keeps everything but the top.
LEMMA PopKeeps ==
  ASSUME NEW h \in Heaps, h # <<>>
  PROVE  Kept(Tail(h), PopRest(h))
  <1> DEFINE n == Len(h) - 1
             rest == SubSeq(h, 1, n)
             g == [rest EXCEPT ![1] = h[Len(h)]]
             to == [k \in 1..n |-> IF k = 1 THEN n ELSE k - 1]
             from == [k \in 1..n |-> IF k = n THEN 1 ELSE k + 1]
  <1>1. Len(h) \in Nat /\ Len(h) >= 1 /\ n \in Nat
    BY DEF Heaps
  <1>2. Tail(h) \in Heaps /\ Len(Tail(h)) = n /\ \A k \in 1..n : Tail(h)[k] = h[k + 1]
    BY <1>1 DEF Heaps
  <1>3. rest \in Heaps /\ Len(rest) = n /\ \A k \in 1..n : rest[k] = h[k]
    <2>1. \A k \in 1..n : h[k] \in Entries
      BY <1>1 DEF Heaps
    <2> HIDE DEF n
    <2>2. /\ SubSeq(h, 1, n) \in Seq(Entries)
          /\ Len(SubSeq(h, 1, n)) = IF 1 <= n THEN n - 1 + 1 ELSE 0
          /\ \A k \in 1..(n - 1 + 1) : SubSeq(h, 1, n)[k] = h[1 + k - 1]
      BY <1>1, <2>1, SubSeqProperties
    <2>3. QED
      BY <1>1, <2>2 DEF Heaps
  <1>4. CASE n = 0
    <2>1. rest = <<>> /\ Tail(h) = <<>>
      <3> HIDE DEF rest, n
      <3>1. QED
        BY <1>2, <1>3, <1>4, EmptySeq DEF Heaps
    <2>2. PopRest(h) = Tail(h)
      BY <2>1 DEF PopRest
    <2>3. QED
      BY <1>2, <2>2, KeptItself
  <1>5. CASE n # 0
    <2>1. rest # <<>>
      BY <1>3, <1>5 DEF Heaps
    <2>2. h[Len(h)] \in Entries
      BY <1>1 DEF Heaps
    <2>3. /\ g \in Heaps /\ Len(g) = n
          /\ \A k \in 1..n : g[k] = IF k = 1 THEN h[Len(h)] ELSE h[k]
      <3> HIDE DEF rest, n
      <3>1. 1 \in 1..Len(rest)
        BY <1>1, <1>3, <1>5
      <3>2. /\ g \in Seq(Entries) /\ Len(g) = Len(rest)
            /\ \A k \in 1..Len(rest) : g[k] = IF k = 1 THEN h[Len(h)] ELSE rest[k]
        BY <1>3, <2>2, <3>1, ExceptSeq DEF Heaps
      <3> HIDE DEF g
      <3>3. QED
        BY <1>3, <3>2 DEF Heaps
    <2>4. \A k \in 1..n : /\ to[k] \in 1..n /\ from[k] \in 1..n
                          /\ from[to[k]] = k /\ to[from[k]] = k
                          /\ g[k] = Tail(h)[to[k]]
      <3> HIDE DEF g
      <3>1. ASSUME NEW k \in 1..n
            PROVE  to[k] \in 1..n /\ from[k] \in 1..n /\ from[to[k]] = k /\ to[from[k]] = k
        BY <1>1, <1>5
      <3>2. ASSUME NEW k \in 1..n
            PROVE  g[k] = Tail(h)[to[k]]
        BY <1>1, <1>2, <1>5, <2>3
      <3>3. QED
        BY <3>1, <3>2
    <2>5. PopRest(h) = sift_down_to_bottom[<<g, 1>>]
      BY <2>1 DEF PopRest
    <2> HIDE DEF g, to, from, rest, n
    <2>6. Kept(Tail(h), g)
      <3> DEFINE f == Tail(h)
      <3>1. f \in Heaps /\ Len(g) = Len(f) /\ Len(f) = n
        BY <1>2, <2>3
      <3>2. \A k \in 1..Len(f) : /\ to[k] \in 1..Len(f) /\ from[k] \in 1..Len(f)
                                /\ from[to[k]] = k /\ to[from[k]] = k
                                /\ g[k] = f[to[k]]
        BY <2>4, <3>1
      <3> HIDE DEF f
      <3>3. Rearranged(f, g, to, from)
        BY <2>3, <3>1, <3>2 DEF Rearranged
      <3>4. QED
        BY <3>3, RearrangedKeeps DEF f
    <2>7. Kept(g, sift_down_to_bottom[<<g, 1>>])
      <3>1. 1 \in 1..Len(g)
        BY <1>1, <1>5, <2>3 DEF n
      <3>2. QED
        BY <2>3, <3>1, CursorParts, BottomKeeps
    <2>8. QED
      BY <2>5, <2>6, <2>7, KeptInTurn
  <1>6. QED
    BY <1>4, <1>5

\* What the top adds to the rest.
LEMMA TopAndTail ==
  ASSUME NEW h \in Heaps, h # <<>>
  PROVE  /\ Head(h) \in Entries /\ Head(h) = h[1]
         /\ Tail(h) \in Heaps /\ Len(Tail(h)) = Len(h) - 1 /\ Len(h) >= 1
         /\ \A e : Holds(h, e) <=> e = Head(h) \/ Holds(Tail(h), e)
         /\ Once(h) => Once(Tail(h)) /\ \A e : Holds(Tail(h), e) => e.task # Head(h).task
  <1>1. Len(h) \in Nat /\ Len(h) >= 1
    BY DEF Heaps
  <1>2. /\ Tail(h) \in Heaps /\ Len(Tail(h)) = Len(h) - 1
        /\ \A k \in 1..(Len(h) - 1) : Tail(h)[k] = h[k + 1]
    BY <1>1 DEF Heaps
  <1>3. Head(h) \in Entries /\ Head(h) = h[1]
    BY <1>1 DEF Heaps
  <1>4. ASSUME NEW e
        PROVE  Holds(h, e) <=> e = Head(h) \/ Holds(Tail(h), e)
    <2>1. ASSUME Holds(h, e), e # Head(h)
          PROVE  Holds(Tail(h), e)
      <3>1. PICK k \in 1..Len(h) : h[k] = e
        BY <2>1 DEF Holds
      <3>2. k - 1 \in 1..Len(Tail(h)) /\ Tail(h)[k - 1] = e
        BY <1>1, <1>2, <1>3, <2>1, <3>1
      <3>3. QED
        BY <3>2 DEF Holds
    <2>2. ASSUME Holds(Tail(h), e)
          PROVE  Holds(h, e)
      <3>1. PICK k \in 1..(Len(h) - 1) : Tail(h)[k] = e
        BY <1>2, <2>2 DEF Holds
      <3>2. k + 1 \in 1..Len(h) /\ h[k + 1] = e
        BY <1>1, <1>2, <3>1
      <3>3. QED
        BY <3>2 DEF Holds
    <2>3. e = Head(h) => Holds(h, e)
      BY <1>1, <1>3 DEF Holds
    <2>4. QED
      BY <2>1, <2>2, <2>3
  <1>5. ASSUME Once(h)
        PROVE  Once(Tail(h))
    <2> SUFFICES ASSUME NEW k \in 1..(Len(h) - 1), NEW l \in 1..(Len(h) - 1),
                        Tail(h)[k].task = Tail(h)[l].task
                 PROVE  k = l
      BY <1>2 DEF Once
    <2>1. h[k + 1].task = h[l + 1].task /\ k + 1 \in 1..Len(h) /\ l + 1 \in 1..Len(h)
      BY <1>1, <1>2
    <2>2. k + 1 = l + 1
      BY <1>5, <2>1 DEF Once
    <2>3. QED
      BY <2>2
  <1>6. ASSUME Once(h), NEW e, Holds(Tail(h), e), e.task = Head(h).task
        PROVE  FALSE
    <2>1. PICK k \in 1..(Len(h) - 1) : Tail(h)[k] = e
      BY <1>2, <1>6 DEF Holds
    <2>2. h[k + 1].task = h[1].task /\ k + 1 \in 1..Len(h) /\ 1 \in 1..Len(h)
      BY <1>1, <1>2, <1>3, <1>6, <2>1
    <2>3. k + 1 = 1
      BY <1>6, <2>2 DEF Once
    <2>4. QED
      BY <2>3
  <1>7. QED
    BY <1>1, <1>2, <1>3, <1>4, <1>5, <1>6

-----------------------------------------------------------------------------
(* cancel's drain *)

\* g is h without the entries of the id.
Cancelled(h, id, g) ==
  /\ g \in Heaps
  /\ \A e : Holds(g, e) <=> Holds(h, e) /\ task_id[e.task] # id
  /\ Once(h) => Once(g)

Draining == Heaps \X Ids
DrainFrom(f, c) ==
  IF c[1] = <<>> THEN <<>>
  ELSE (IF task_id[Head(c[1]).task] = c[2] THEN <<>> ELSE <<Head(c[1])>>) \o f[<<PopRest(c[1]), c[2]>>]
Size == [c \in Draining |-> Len(c[1])]

LEMMA DrainingParts ==
  /\ \A c \in Draining : c[1] \in Heaps /\ c[2] \in Ids
  /\ \A h \in Heaps : \A t \in Ids : <<h, t>> \in Draining /\ <<h, t>>[1] = h /\ <<h, t>>[2] = t
  BY DEF Draining

LEMMA SizeIsNat == Size \in [Draining -> Nat]
  <1>1. \A c \in Draining : Len(c[1]) \in Nat
    BY DrainingParts DEF Heaps
  <1>2. QED
    BY <1>1 DEF Size

LEMMA DrainGoesOn ==
  ASSUME NEW c \in Draining, c[1] # <<>>
  PROVE  LET d == <<PopRest(c[1]), c[2]>>
         IN  d \in Draining /\ Size[d] < Size[c] /\ d[1] = PopRest(c[1]) /\ d[2] = c[2]
  <1> DEFINE d == <<PopRest(c[1]), c[2]>>
  <1>1. Kept(Tail(c[1]), PopRest(c[1])) /\ Len(Tail(c[1])) = Len(c[1]) - 1
    BY DrainingParts, PopKeeps, TopAndTail
  <1>2. d \in Draining /\ d[1] = PopRest(c[1]) /\ d[2] = c[2]
    BY <1>1, DrainingParts DEF Kept
  <1> HIDE DEF d
  <1>3. Size[d] = Len(PopRest(c[1])) /\ Size[c] = Len(c[1]) /\ Len(c[1]) \in Nat
    BY <1>2, DrainingParts DEF Size, Heaps
  <1>4. Size[d] < Size[c]
    BY <1>1, <1>3 DEF Kept
  <1>5. QED
    BY <1>2, <1>4 DEF d

\* An entry in front of others.
LEMMA EntryInFront ==
  ASSUME NEW e \in Entries, NEW r \in Heaps
  PROVE  /\ <<e>> \o r \in Heaps /\ <<>> \o r = r
         /\ \A x : Holds(<<e>> \o r, x) <=> x = e \/ Holds(r, x)
         /\ Once(r) /\ (\A x : Holds(r, x) => x.task # e.task) => Once(<<e>> \o r)
  <1> DEFINE g == <<e>> \o r
  <1>1. <<>> \o r = r
    BY ConcatEmptySeq DEF Heaps
  <1>2. /\ g \in Heaps /\ Len(g) = Len(r) + 1 /\ Len(r) \in Nat
        /\ \A k \in 1..Len(g) : g[k] = IF k = 1 THEN e ELSE r[k - 1]
    <2> DEFINE one == <<e>>
    <2>1. one \in Seq(Entries) /\ Len(one) = 1 /\ one[1] = e
      OBVIOUS
    <2> HIDE DEF one
    <2>2. /\ one \o r \in Seq(Entries)
          /\ Len(one \o r) = Len(one) + Len(r)
          /\ \A k \in 1..(Len(one) + Len(r)) :
               (one \o r)[k] = IF k <= Len(one) THEN one[k] ELSE r[k - Len(one)]
      BY <2>1, ConcatProperties DEF Heaps
    <2>3. Len(r) \in Nat
      BY DEF Heaps
    <2>4. QED
      BY <2>1, <2>2, <2>3 DEF Heaps, one
  <1> HIDE DEF g
  <1>3. ASSUME NEW x
        PROVE  Holds(g, x) <=> x = e \/ Holds(r, x)
    <2>1. ASSUME Holds(g, x), x # e
          PROVE  Holds(r, x)
      BY <1>2, <2>1 DEF Holds
    <2>2. ASSUME Holds(r, x)
          PROVE  Holds(g, x)
      <3>1. PICK k \in 1..Len(r) : r[k] = x
        BY <2>2 DEF Holds
      <3>2. k + 1 \in 1..Len(g) /\ g[k + 1] = x
        BY <1>2, <3>1
      <3>3. QED
        BY <3>2 DEF Holds
    <2>3. x = e => Holds(g, x)
      BY <1>2 DEF Holds
    <2>4. QED
      BY <2>1, <2>2, <2>3
  <1>4. ASSUME Once(r), \A x : Holds(r, x) => x.task # e.task
        PROVE  Once(g)
    <2>1. \A k \in 1..Len(r) : r[k].task # e.task
      BY <1>4 DEF Holds
    <2>2. ASSUME NEW k \in 1..Len(g), NEW l \in 1..Len(g), g[k].task = g[l].task
          PROVE  k = l
      <3>1. CASE k = 1 /\ l # 1
        BY <1>2, <2>1, <2>2, <3>1
      <3>2. CASE k # 1 /\ l = 1
        BY <1>2, <2>1, <2>2, <3>2
      <3>3. CASE k # 1 /\ l # 1
        <4>1. r[k - 1].task = r[l - 1].task /\ k - 1 \in 1..Len(r) /\ l - 1 \in 1..Len(r)
          BY <1>2, <2>2, <3>3
        <4>2. k - 1 = l - 1
          BY <1>4, <4>1 DEF Once
        <4>3. QED
          BY <4>2
      <3>4. QED
        BY <3>1, <3>2, <3>3
    <2>3. QED
      BY <2>2 DEF Once
  <1>5. QED
    BY <1>1, <1>2, <1>3, <1>4 DEF g

LEMMA DrainTyped ==
  ASSUME NEW c \in Draining, NEW f, c[1] # <<>> => f[<<PopRest(c[1]), c[2]>>] \in Heaps
  PROVE  DrainFrom(f, c) \in Heaps
  <1>1. CASE c[1] = <<>>
    BY <1>1, EmptySeq DEF DrainFrom, Heaps
  <1>2. CASE c[1] # <<>>
    <2> DEFINE r == f[<<PopRest(c[1]), c[2]>>]
               e == Head(c[1])
    <2>1. e \in Entries
      BY <1>2, DrainingParts, TopAndTail
    <2>2. DrainFrom(f, c) = (IF task_id[e.task] = c[2] THEN <<>> ELSE <<e>>) \o r
      BY <1>2 DEF DrainFrom
    <2>3. r \in Heaps
      BY <1>2
    <2> HIDE DEF r, e
    <2>4. DrainFrom(f, c) = <<>> \o r \/ DrainFrom(f, c) = <<e>> \o r
      BY <2>2
    <2>5. QED
      BY <2>1, <2>3, <2>4, EntryInFront
  <1>3. QED
    BY <1>1, <1>2

LEMMA DrainSolves == Drained = [c \in Draining |-> DrainFrom(Drained, c)]
  <1> DEFINE D == [c \in Draining |-> [f \in [Draining -> Heaps] |-> DrainFrom(f, c)]]
  <1>1. ASSUME NEW c \in Draining, NEW f \in [Draining -> Heaps]
        PROVE  DrainFrom(f, c) \in Heaps
    BY DrainTyped, DrainGoesOn
  <1>2. ASSUME NEW c \in Draining, NEW f \in [Draining -> Heaps], NEW g \in [Draining -> Heaps],
               \A d \in Draining : Size[d] < Size[c] => f[d] = g[d]
        PROVE  DrainFrom(f, c) = DrainFrom(g, c)
    <2>1. c[1] # <<>> => f[<<PopRest(c[1]), c[2]>>] = g[<<PopRest(c[1]), c[2]>>]
      BY <1>2, DrainGoesOn
    <2>2. QED
      BY <2>1, Zenon DEF DrainFrom
  <1>3. D \in [Draining -> [[Draining -> Heaps] -> Heaps]]
    BY <1>1
  <1>4. \A c \in Draining : \A f \in [Draining -> Heaps] : D[c][f] = DrainFrom(f, c)
    OBVIOUS
  <1> HIDE DEF D
  <1>5. Determined(D, Draining, Heaps, Size)
    <2>1. \A c \in Draining : \A f, g \in [Draining -> Heaps] :
            (\A d \in Draining : Size[d] < Size[c] => f[d] = g[d]) => D[c][f] = D[c][g]
      BY <1>2, <1>4
    <2>2. QED
      BY <1>3, <2>1, SizeIsNat, Zenon DEF Determined
  <1>6. Heaps # {}
    BY <<>> \in Heaps DEF Heaps
  <1>7. PICK f \in [Draining -> Heaps] : \A c \in Draining : f[c] = D[c][f]
    BY <1>5, <1>6, SolutionExists
  <1>8. f = [c \in Draining |-> DrainFrom(f, c)]
    <2>1. \A c \in Draining : f[c] = DrainFrom(f, c)
      BY <1>4, <1>7
    <2>2. QED
      BY <2>1, Zenon
  <1>9. Drained = CHOOSE g : g = [c \in Draining |-> DrainFrom(g, c)]
    BY DEF Drained, DrainFrom, Draining
  <1>10. QED
    BY <1>8, <1>9, Zenon

LEMMA DrainCancels == \A c \in Draining : Cancelled(c[1], c[2], Drained[c])
  <1> DEFINE P == {c \in Draining : Cancelled(c[1], c[2], Drained[c])}
  <1>1. ASSUME NEW c \in Draining, \A d \in Draining : Size[d] < Size[c] => d \in P
        PROVE  Cancelled(c[1], c[2], Drained[c])
    <2> DEFINE h == c[1]
               t == c[2]
               d == <<PopRest(h), t>>
               r == Drained[d]
               e == Head(h)
    <2>1. Drained[c] = DrainFrom(Drained, c) /\ h \in Heaps /\ t \in Ids
      BY DrainSolves, DrainingParts
    <2>2. CASE h = <<>>
      <3>1. Drained[c] = <<>> /\ \A x : ~Holds(<<>>, x)
        BY <2>1, <2>2 DEF DrainFrom, Holds
      <3>2. QED
        BY <2>1, <2>2, <3>1 DEF Cancelled
    <2>3. CASE h # <<>>
      <3>1. Drained[c] = (IF task_id[e.task] = t THEN <<>> ELSE <<e>>) \o r
        BY <2>1, <2>3 DEF DrainFrom
      <3>2. Cancelled(PopRest(h), t, r)
        <4>1. d \in Draining /\ Size[d] < Size[c] /\ d[1] = PopRest(h) /\ d[2] = t
          BY <2>3, DrainGoesOn
        <4> HIDE DEF d, h, t
        <4>2. Cancelled(d[1], d[2], Drained[d])
          BY <1>1, <4>1
        <4>3. QED
          BY <4>1, <4>2
      <3>3. Kept(Tail(h), PopRest(h))
        BY <2>1, <2>3, PopKeeps
      <3>4. /\ e \in Entries /\ \A x : Holds(h, x) <=> x = e \/ Holds(Tail(h), x)
            /\ Once(h) => Once(Tail(h)) /\ \A x : Holds(Tail(h), x) => x.task # e.task
        BY <2>1, <2>3, TopAndTail
      <3> HIDE DEF h, t, e, r, d
      <3>5. /\ r \in Heaps
            /\ \A x : Holds(r, x) <=> Holds(Tail(h), x) /\ task_id[x.task] # t
            /\ Once(h) => Once(r)
        BY <3>2, <3>3, <3>4 DEF Cancelled, Kept
      <3>6. CASE task_id[e.task] = t
        <4>1. Drained[c] = r
          BY <3>1, <3>4, <3>5, <3>6, EntryInFront
        <4>2. QED
          BY <3>4, <3>5, <3>6, <4>1 DEF Cancelled, h, t
      <3>7. CASE task_id[e.task] # t
        <4>1. Drained[c] = <<e>> \o r
          BY <3>1, <3>7
        <4>2. /\ Drained[c] \in Heaps
              /\ \A x : Holds(Drained[c], x) <=> x = e \/ Holds(r, x)
              /\ Once(r) /\ (\A x : Holds(r, x) => x.task # e.task) => Once(Drained[c])
          BY <3>4, <3>5, <4>1, EntryInFront
        <4>3. \A x : Holds(Drained[c], x) <=> Holds(h, x) /\ task_id[x.task] # t
          BY <3>4, <3>5, <3>7, <4>2
        <4>4. Once(h) => Once(Drained[c])
          BY <3>4, <3>5, <4>2
        <4>5. QED
          BY <4>2, <4>3, <4>4 DEF Cancelled, h, t
      <3>8. QED
        BY <3>6, <3>7
    <2>4. QED
      BY <2>2, <2>3
  <1>2. P = Draining
    <2>1. P \in SUBSET Draining
      OBVIOUS
    <2>2. \A c \in Draining : (\A d \in Draining : Size[d] < Size[c] => d \in P) => c \in P
      BY <1>1
    <2> HIDE DEF P
    <2>3. QED
      BY <2>1, <2>2, SizeIsNat, ByMeasure
  <1>3. QED
    BY <1>2

-----------------------------------------------------------------------------
(* cancel's rebuild *)

BuildFrom(f, c) == IF c[2] = 0 THEN c[1] ELSE f[<<sift_down[c], c[2] - 1>>]
Left == [c \in Building |-> c[2]]

LEMMA BuildingParts ==
  /\ \A c \in Building : /\ c[1] \in Heaps /\ c[2] \in Nat
                         /\ c[2] # 0 => c \in Cursors
  /\ \A h \in Heaps : \A i \in Nat :
       i <= Len(h) => <<h, i>> \in Building /\ <<h, i>>[1] = h /\ <<h, i>>[2] = i
  BY DEF Building, Cursors, Heaps

LEMMA LeftIsNat == Left \in [Building -> Nat]
  BY BuildingParts DEF Left

LEMMA BuildGoesOn ==
  ASSUME NEW c \in Building, c[2] # 0
  PROVE  LET d == <<sift_down[c], c[2] - 1>>
         IN  d \in Building /\ Left[d] < Left[c] /\ Kept(c[1], d[1])
  <1> DEFINE g == sift_down[c]
             i == c[2] - 1
  <1>1. Kept(c[1], g)
    BY BuildingParts, DownKeeps
  <1>2. g \in Heaps /\ i \in Nat /\ i < c[2] /\ i <= Len(g)
    <2>1. g \in Heaps /\ Len(g) = Len(c[1])
      BY <1>1 DEF Kept
    <2>2. c[2] \in Nat /\ c[2] <= Len(c[1]) /\ Len(c[1]) \in Nat
      BY BuildingParts DEF Building, Heaps
    <2> HIDE DEF g
    <2>3. QED
      BY <2>1, <2>2
  <1> HIDE DEF g, i
  <1>3. <<g, i>> \in Building /\ <<g, i>>[1] = g /\ <<g, i>>[2] = i
    BY <1>2, BuildingParts
  <1>4. Left[<<g, i>>] < Left[c] /\ Kept(c[1], <<g, i>>[1])
    BY <1>1, <1>2, <1>3 DEF Left
  <1>5. QED
    BY <1>3, <1>4 DEF g, i

LEMMA BuildSolves == Rebuilt = [c \in Building |-> BuildFrom(Rebuilt, c)]
  <1> DEFINE D == [c \in Building |-> [f \in [Building -> Heaps] |-> BuildFrom(f, c)]]
  <1>1. ASSUME NEW c \in Building, NEW f \in [Building -> Heaps]
        PROVE  BuildFrom(f, c) \in Heaps
    BY BuildingParts, BuildGoesOn DEF BuildFrom
  <1>2. ASSUME NEW c \in Building, NEW f \in [Building -> Heaps], NEW g \in [Building -> Heaps],
               \A d \in Building : Left[d] < Left[c] => f[d] = g[d]
        PROVE  BuildFrom(f, c) = BuildFrom(g, c)
    BY <1>2, BuildGoesOn DEF BuildFrom
  <1>3. D \in [Building -> [[Building -> Heaps] -> Heaps]]
    BY <1>1
  <1>4. \A c \in Building : \A f \in [Building -> Heaps] : D[c][f] = BuildFrom(f, c)
    OBVIOUS
  <1> HIDE DEF D
  <1>5. Determined(D, Building, Heaps, Left)
    <2>1. \A c \in Building : \A f, g \in [Building -> Heaps] :
            (\A d \in Building : Left[d] < Left[c] => f[d] = g[d]) => D[c][f] = D[c][g]
      BY <1>2, <1>4
    <2>2. QED
      BY <1>3, <2>1, LeftIsNat, Zenon DEF Determined
  <1>6. Heaps # {}
    BY <<>> \in Heaps DEF Heaps
  <1>7. PICK f \in [Building -> Heaps] : \A c \in Building : f[c] = D[c][f]
    BY <1>5, <1>6, SolutionExists
  <1>8. f = [c \in Building |-> BuildFrom(f, c)]
    <2>1. \A c \in Building : f[c] = BuildFrom(f, c)
      BY <1>4, <1>7
    <2>2. QED
      BY <2>1, Zenon
  <1>9. Rebuilt = CHOOSE g : g = [c \in Building |-> BuildFrom(g, c)]
    BY DEF Rebuilt, BuildFrom, Building
  <1>10. QED
    BY <1>8, <1>9, Zenon

LEMMA BuildKeeps == \A c \in Building : Kept(c[1], Rebuilt[c])
  <1> DEFINE P == {c \in Building : Kept(c[1], Rebuilt[c])}
  <1>1. ASSUME NEW c \in Building, \A d \in Building : Left[d] < Left[c] => d \in P
        PROVE  Kept(c[1], Rebuilt[c])
    <2> DEFINE d == <<sift_down[c], c[2] - 1>>
    <2>1. Rebuilt[c] = BuildFrom(Rebuilt, c)
      BY BuildSolves
    <2>2. CASE Rebuilt[c] = c[1]
      BY <2>2, BuildingParts, KeptItself
    <2>3. CASE c[2] # 0 /\ Rebuilt[c] = Rebuilt[d]
      <3>1. d \in Building /\ Left[d] < Left[c] /\ Kept(c[1], d[1])
        BY <2>3, BuildGoesOn
      <3>2. Kept(d[1], Rebuilt[d])
        BY <1>1, <3>1
      <3>3. QED
        BY <2>3, <3>1, <3>2, KeptInTurn
    <2>4. QED
      BY <2>1, <2>2, <2>3 DEF BuildFrom
  <1>2. P = Building
    <2>1. P \in SUBSET Building
      OBVIOUS
    <2>2. \A c \in Building : (\A d \in Building : Left[d] < Left[c] => d \in P) => c \in P
      BY <1>1
    <2> HIDE DEF P
    <2>3. QED
      BY <2>1, <2>2, LeftIsNat, ByMeasure
  <1>3. QED
    BY <1>2

\* cancel drops the id's entries from the heap and keeps the others.
LEMMA WithoutTaskCancels ==
  ASSUME NEW h \in Heaps, NEW t \in Ids
  PROVE  Cancelled(h, t, WithoutTask(h, t))
  <1> DEFINE g == Drained[<<h, t>>]
  <1>1. Cancelled(h, t, g)
    <2>1. <<h, t>> \in Draining /\ <<h, t>>[1] = h /\ <<h, t>>[2] = t
      BY DrainingParts
    <2> DEFINE c == <<h, t>>
    <2>2. Cancelled(c[1], c[2], Drained[c])
      <3> HIDE DEF c
      <3>1. c \in Draining
        BY <2>1 DEF c
      <3>2. QED
        BY <3>1, DrainCancels
    <2>3. QED
      BY <2>1, <2>2
  <1> HIDE DEF g
  <1>2. Kept(g, Rebuilt[<<g, Len(g) \div 2>>])
    <2> DEFINE i == Len(g) \div 2
    <2>1. g \in Heaps
      BY <1>1 DEF Cancelled
    <2>2. i \in Nat /\ i <= Len(g)
      BY <2>1 DEF Heaps
    <2> HIDE DEF i
    <2>3. <<g, i>> \in Building /\ <<g, i>>[1] = g
      BY <2>1, <2>2, BuildingParts
    <2>4. Kept(g, Rebuilt[<<g, i>>])
      BY <2>3, BuildKeeps
    <2>5. QED
      BY <2>4 DEF i
  <1>3. WithoutTask(h, t) = Rebuilt[<<g, Len(g) \div 2>>]
    BY DEF WithoutTask, g
  <1>4. QED
    BY <1>1, <1>2, <1>3 DEF Cancelled, Kept

-----------------------------------------------------------------------------
(* The blocked queue *)

Queued(s, t) == \E k \in 1..Len(s) : s[k] = t
Distinct(s) == \A k, l \in 1..Len(s) : s[k] = s[l] => k = l

LEMMA AppendQueues ==
  ASSUME NEW s \in Seq(Tasks), NEW t \in Tasks
  PROVE  /\ Append(s, t) \in Seq(Tasks)
         /\ \A u : Queued(Append(s, t), u) <=> Queued(s, u) \/ u = t
         /\ Distinct(s) /\ ~Queued(s, t) => Distinct(Append(s, t))
  <1> DEFINE r == Append(s, t)
  <1>1. /\ r \in Seq(Tasks) /\ Len(r) = Len(s) + 1 /\ Len(s) \in Nat
        /\ \A k \in 1..Len(s) : r[k] = s[k]
        /\ r[Len(s) + 1] = t
    OBVIOUS
  <1> HIDE DEF r
  <1>2. ASSUME NEW u
        PROVE  Queued(r, u) <=> Queued(s, u) \/ u = t
    BY <1>1 DEF Queued
  <1>3. Distinct(s) /\ ~Queued(s, t) => Distinct(r)
    BY <1>1 DEF Distinct, Queued
  <1>4. QED
    BY <1>1, <1>2, <1>3 DEF r

\* unblock takes one task out.
LEMMA RemovedUnqueues ==
  ASSUME NEW s \in Seq(Tasks), NEW pos \in 1..Len(s)
  PROVE  /\ Removed(s, pos) \in Seq(Tasks)
         /\ Distinct(s) => /\ Distinct(Removed(s, pos))
                           /\ \A u : Queued(Removed(s, pos), u) <=> Queued(s, u) /\ u # s[pos]
  <1> DEFINE r == Removed(s, pos)
             a == SubSeq(s, 1, pos - 1)
             b == SubSeq(s, pos + 1, Len(s))
  <1>1. Len(s) \in Nat /\ pos \in Nat /\ pos >= 1 /\ pos <= Len(s)
    OBVIOUS
  <1>2. /\ a \in Seq(Tasks) /\ Len(a) = pos - 1
        /\ \A k \in 1..(pos - 1) : a[k] = s[k]
    <2> DEFINE n == pos - 1
    <2>1. n \in Int /\ 1 \in Int /\ \A k \in 1..n : s[k] \in Tasks
      BY <1>1
    <2> HIDE DEF n
    <2>2. /\ SubSeq(s, 1, n) \in Seq(Tasks)
          /\ Len(SubSeq(s, 1, n)) = IF 1 <= n THEN n - 1 + 1 ELSE 0
          /\ \A k \in 1..(n - 1 + 1) : SubSeq(s, 1, n)[k] = s[1 + k - 1]
      BY <2>1, SubSeqProperties
    <2>3. n = pos - 1 /\ n - 1 + 1 = n
      BY <1>1 DEF n
    <2>4. QED
      BY <1>1, <2>2, <2>3 DEF n
  <1>3. /\ b \in Seq(Tasks) /\ Len(b) = Len(s) - pos
        /\ \A k \in 1..(Len(s) - pos) : b[k] = s[k + pos]
    <2> DEFINE m == pos + 1
               n == Len(s)
    <2>1. n \in Int /\ m \in Int /\ \A k \in m..n : s[k] \in Tasks
      BY <1>1
    <2> HIDE DEF m, n
    <2>2. /\ SubSeq(s, m, n) \in Seq(Tasks)
          /\ Len(SubSeq(s, m, n)) = IF m <= n THEN n - m + 1 ELSE 0
          /\ \A k \in 1..(n - m + 1) : SubSeq(s, m, n)[k] = s[m + k - 1]
      BY <2>1, SubSeqProperties
    <2>3. m = pos + 1 /\ n = Len(s)
      BY DEF m, n
    <2>4. (IF m <= n THEN n - m + 1 ELSE 0) = Len(s) - pos /\ n - m + 1 = Len(s) - pos
      BY <1>1, <2>3
    <2>5. ASSUME NEW k \in 1..(Len(s) - pos)
          PROVE  SubSeq(s, m, n)[k] = s[k + pos]
      <3>1. SubSeq(s, m, n)[k] = s[m + k - 1]
        BY <2>2, <2>4
      <3>2. m + k - 1 = k + pos
        BY <1>1, <2>3
      <3>3. QED
        BY <3>1, <3>2
    <2>6. QED
      BY <2>2, <2>4, <2>5 DEF m, n
  <1>4. r = a \o b
    BY DEF Removed
  <1> HIDE DEF r, a, b
  <1>5. /\ r \in Seq(Tasks) /\ Len(r) = Len(s) - 1
        /\ \A k \in 1..(Len(s) - 1) : r[k] = IF k < pos THEN s[k] ELSE s[k + 1]
    <2>1. /\ a \o b \in Seq(Tasks)
          /\ Len(a \o b) = Len(a) + Len(b)
          /\ \A k \in 1..(Len(a) + Len(b)) : (a \o b)[k] = IF k <= Len(a) THEN a[k] ELSE b[k - Len(a)]
      BY <1>2, <1>3, ConcatProperties
    <2>2. Len(a) + Len(b) = Len(s) - 1
      BY <1>1, <1>2, <1>3
    <2>3. ASSUME NEW k \in 1..(Len(s) - 1)
          PROVE  r[k] = IF k < pos THEN s[k] ELSE s[k + 1]
      <3>1. CASE k < pos
        BY <1>1, <1>2, <1>4, <2>1, <2>2, <3>1
      <3>2. CASE ~(k < pos)
        <4>1. k - Len(a) \in 1..(Len(s) - pos) /\ k - Len(a) + pos = k + 1
          BY <1>1, <1>2, <3>2
        <4>2. r[k] = b[k - Len(a)]
          BY <1>1, <1>2, <1>4, <2>1, <2>2, <3>2
        <4>3. b[k - Len(a)] = s[k - Len(a) + pos]
          BY <1>3, <4>1
        <4>4. QED
          BY <3>2, <4>1, <4>2, <4>3
      <3>3. QED
        BY <3>1, <3>2
    <2>4. QED
      BY <1>4, <2>1, <2>2, <2>3
  <1>6. ASSUME Distinct(s)
        PROVE  Distinct(r)
    <2> DEFINE from(k) == IF k < pos THEN k ELSE k + 1
    <2> SUFFICES ASSUME NEW k \in 1..Len(r), NEW l \in 1..Len(r), r[k] = r[l]
                 PROVE  k = l
      BY DEF Distinct
    <2>1. s[from(k)] = s[from(l)] /\ from(k) \in 1..Len(s) /\ from(l) \in 1..Len(s)
      BY <1>1, <1>5
    <2>2. from(k) = from(l)
      BY <1>6, <2>1 DEF Distinct
    <2>3. QED
      BY <1>1, <2>2
  <1>7. ASSUME Distinct(s), NEW u
        PROVE  Queued(r, u) <=> Queued(s, u) /\ u # s[pos]
    <2>1. ASSUME Queued(r, u)
          PROVE  Queued(s, u) /\ u # s[pos]
      <3>1. PICK k \in 1..Len(r) : r[k] = u
        BY <2>1 DEF Queued
      <3>2. PICK l \in 1..Len(s) : s[l] = u /\ l # pos
        BY <1>1, <1>5, <3>1
      <3>3. QED
        BY <1>7, <3>2 DEF Queued, Distinct
    <2>2. ASSUME Queued(s, u), u # s[pos]
          PROVE  Queued(r, u)
      <3>1. PICK l \in 1..Len(s) : s[l] = u
        BY <2>2 DEF Queued
      <3>2. CASE l < pos
        <4>1. l \in 1..Len(r) /\ r[l] = u
          BY <1>1, <1>5, <3>1, <3>2
        <4>2. QED
          BY <4>1 DEF Queued
      <3>3. CASE l > pos
        <4>1. l - 1 \in 1..Len(r) /\ r[l - 1] = u
          BY <1>1, <1>5, <3>1, <3>3
        <4>2. QED
          BY <4>1 DEF Queued
      <3>4. l # pos
        BY <2>2, <3>1
      <3>5. QED
        BY <1>1, <3>2, <3>3, <3>4
    <2>3. QED
      BY <2>1, <2>2
  <1>8. QED
    BY <1>5, <1>6, <1>7 DEF r

\* r is s without the tasks of the id.
Dropped(s, id, r) ==
  /\ r \in Seq(Tasks)
  /\ \A u : Queued(r, u) <=> Queued(s, u) /\ task_id[u] # id
  /\ Distinct(s) => Distinct(r)

LEMMA TaskInFront ==
  ASSUME NEW e \in Tasks, NEW r \in Seq(Tasks)
  PROVE  /\ <<e>> \o r \in Seq(Tasks) /\ <<>> \o r = r
         /\ \A u : Queued(<<e>> \o r, u) <=> u = e \/ Queued(r, u)
         /\ Distinct(r) /\ ~Queued(r, e) => Distinct(<<e>> \o r)
  <1> DEFINE g == <<e>> \o r
  <1>1. <<>> \o r = r
    BY ConcatEmptySeq
  <1>2. /\ g \in Seq(Tasks) /\ Len(g) = Len(r) + 1 /\ Len(r) \in Nat
        /\ \A k \in 1..Len(g) : g[k] = IF k = 1 THEN e ELSE r[k - 1]
    <2> DEFINE one == <<e>>
    <2>1. one \in Seq(Tasks) /\ Len(one) = 1 /\ one[1] = e
      OBVIOUS
    <2> HIDE DEF one
    <2>2. /\ one \o r \in Seq(Tasks)
          /\ Len(one \o r) = Len(one) + Len(r)
          /\ \A k \in 1..(Len(one) + Len(r)) :
               (one \o r)[k] = IF k <= Len(one) THEN one[k] ELSE r[k - Len(one)]
      BY <2>1, ConcatProperties
    <2>3. QED
      BY <2>1, <2>2 DEF one
  <1> HIDE DEF g
  <1>3. ASSUME NEW u
        PROVE  Queued(g, u) <=> u = e \/ Queued(r, u)
    <2>1. ASSUME Queued(g, u), u # e
          PROVE  Queued(r, u)
      BY <1>2, <2>1 DEF Queued
    <2>2. ASSUME Queued(r, u)
          PROVE  Queued(g, u)
      <3>1. PICK k \in 1..Len(r) : r[k] = u
        BY <2>2 DEF Queued
      <3>2. k + 1 \in 1..Len(g) /\ g[k + 1] = u
        BY <1>2, <3>1
      <3>3. QED
        BY <3>2 DEF Queued
    <2>3. u = e => Queued(g, u)
      BY <1>2 DEF Queued
    <2>4. QED
      BY <2>1, <2>2, <2>3
  <1>4. ASSUME Distinct(r), ~Queued(r, e)
        PROVE  Distinct(g)
    <2>1. \A k \in 1..Len(r) : r[k] # e
      BY <1>4 DEF Queued
    <2>2. ASSUME NEW k \in 1..Len(g), NEW l \in 1..Len(g), g[k] = g[l]
          PROVE  k = l
      <3>1. k = 1 /\ l # 1 => FALSE
        <4>1. k = 1 /\ l # 1 => r[l - 1] = e /\ l - 1 \in 1..Len(r)
          BY <1>2, <2>2
        <4>2. QED
          BY <2>1, <4>1
      <3>2. k # 1 /\ l = 1 => FALSE
        <4>1. k # 1 /\ l = 1 => r[k - 1] = e /\ k - 1 \in 1..Len(r)
          BY <1>2, <2>2
        <4>2. QED
          BY <2>1, <4>1
      <3>3. CASE k # 1 /\ l # 1
        <4>1. r[k - 1] = r[l - 1] /\ k - 1 \in 1..Len(r) /\ l - 1 \in 1..Len(r)
          BY <1>2, <2>2, <3>3
        <4>2. k - 1 = l - 1
          BY <1>4, <4>1 DEF Distinct
        <4>3. QED
          BY <4>2
      <3>4. QED
        BY <3>1, <3>2, <3>3
    <2>3. QED
      BY <2>2 DEF Distinct
  <1>5. QED
    BY <1>1, <1>2, <1>3, <1>4 DEF g

LEMMA HeadAndTail ==
  ASSUME NEW s \in Seq(Tasks), s # <<>>
  PROVE  /\ Head(s) \in Tasks /\ Tail(s) \in Seq(Tasks) /\ Len(Tail(s)) = Len(s) - 1
         /\ \A u : Queued(s, u) <=> u = Head(s) \/ Queued(Tail(s), u)
         /\ Distinct(s) => Distinct(Tail(s)) /\ ~Queued(Tail(s), Head(s))
  <1>1. /\ Len(s) \in Nat /\ Len(s) >= 1 /\ Head(s) \in Tasks /\ Head(s) = s[1]
        /\ Tail(s) \in Seq(Tasks) /\ Len(Tail(s)) = Len(s) - 1
        /\ \A k \in 1..(Len(s) - 1) : Tail(s)[k] = s[k + 1]
    OBVIOUS
  <1>2. ASSUME NEW u
        PROVE  Queued(s, u) <=> u = Head(s) \/ Queued(Tail(s), u)
    <2>1. ASSUME Queued(s, u), u # Head(s)
          PROVE  Queued(Tail(s), u)
      <3>1. PICK k \in 1..Len(s) : s[k] = u
        BY <2>1 DEF Queued
      <3>2. k - 1 \in 1..Len(Tail(s)) /\ Tail(s)[k - 1] = u
        BY <1>1, <2>1, <3>1
      <3>3. QED
        BY <3>2 DEF Queued
    <2>2. ASSUME Queued(Tail(s), u)
          PROVE  Queued(s, u)
      <3>1. PICK k \in 1..(Len(s) - 1) : Tail(s)[k] = u
        BY <1>1, <2>2 DEF Queued
      <3>2. k + 1 \in 1..Len(s) /\ s[k + 1] = u
        BY <1>1, <3>1
      <3>3. QED
        BY <3>2 DEF Queued
    <2>3. u = Head(s) => Queued(s, u)
      BY <1>1 DEF Queued
    <2>4. QED
      BY <2>1, <2>2, <2>3
  <1>3. ASSUME Distinct(s)
        PROVE  Distinct(Tail(s)) /\ ~Queued(Tail(s), Head(s))
    <2>1. ASSUME NEW k \in 1..(Len(s) - 1), NEW l \in 1..(Len(s) - 1), Tail(s)[k] = Tail(s)[l]
          PROVE  k = l
      <3>1. s[k + 1] = s[l + 1] /\ k + 1 \in 1..Len(s) /\ l + 1 \in 1..Len(s)
        BY <1>1, <2>1
      <3>2. k + 1 = l + 1
        BY <1>3, <3>1 DEF Distinct
      <3>3. QED
        BY <3>2
    <2>2. ASSUME NEW k \in 1..(Len(s) - 1), Tail(s)[k] = Head(s)
          PROVE  FALSE
      <3>1. s[k + 1] = s[1] /\ k + 1 \in 1..Len(s) /\ 1 \in 1..Len(s)
        BY <1>1, <2>2
      <3>2. k + 1 = 1
        BY <1>3, <3>1 DEF Distinct
      <3>3. QED
        BY <3>2
    <2>3. QED
      BY <1>1, <2>1, <2>2 DEF Distinct, Queued
  <1>4. QED
    BY <1>1, <1>2, <1>3

Retaining == Seq(Tasks) \X Ids
RetainFrom(f, c) ==
  IF c[1] = <<>> THEN <<>>
  ELSE (IF task_id[Head(c[1])] = c[2] THEN <<>> ELSE <<Head(c[1])>>) \o f[<<Tail(c[1]), c[2]>>]
Extent == [c \in Retaining |-> Len(c[1])]

LEMMA RetainingParts ==
  /\ \A c \in Retaining : c[1] \in Seq(Tasks) /\ c[2] \in Ids
  /\ \A s \in Seq(Tasks) : \A t \in Ids :
       <<s, t>> \in Retaining /\ <<s, t>>[1] = s /\ <<s, t>>[2] = t
  BY DEF Retaining

LEMMA ExtentIsNat == Extent \in [Retaining -> Nat]
  <1>1. \A c \in Retaining : Len(c[1]) \in Nat
    BY RetainingParts
  <1>2. QED
    BY <1>1 DEF Extent

LEMMA RetainGoesOn ==
  ASSUME NEW c \in Retaining, c[1] # <<>>
  PROVE  LET d == <<Tail(c[1]), c[2]>>
         IN  d \in Retaining /\ Extent[d] < Extent[c] /\ d[1] = Tail(c[1]) /\ d[2] = c[2]
  <1> DEFINE d == <<Tail(c[1]), c[2]>>
  <1>1. Tail(c[1]) \in Seq(Tasks) /\ Len(Tail(c[1])) = Len(c[1]) - 1
    BY RetainingParts, HeadAndTail
  <1>2. d \in Retaining /\ d[1] = Tail(c[1]) /\ d[2] = c[2]
    BY <1>1, RetainingParts
  <1> HIDE DEF d
  <1>3. Extent[d] = Len(Tail(c[1])) /\ Extent[c] = Len(c[1]) /\ Len(c[1]) \in Nat
    <2>1. Extent[d] = Len(d[1]) /\ Extent[c] = Len(c[1])
      BY <1>2 DEF Extent
    <2>2. c[1] \in Seq(Tasks)
      BY RetainingParts
    <2>3. QED
      BY <1>2, <2>1, <2>2
  <1>4. Extent[d] < Extent[c]
    BY <1>1, <1>3
  <1>5. QED
    BY <1>2, <1>4 DEF d

LEMMA RetainSolves == Retained = [c \in Retaining |-> RetainFrom(Retained, c)]
  <1> DEFINE Q == Seq(Tasks)
             D == [c \in Retaining |-> [f \in [Retaining -> Q] |-> RetainFrom(f, c)]]
  <1>1. ASSUME NEW c \in Retaining, NEW f \in [Retaining -> Q]
        PROVE  RetainFrom(f, c) \in Q
    <2>1. CASE c[1] = <<>>
      BY <2>1, EmptySeq DEF RetainFrom
    <2>2. CASE c[1] # <<>>
      <3> DEFINE r == f[<<Tail(c[1]), c[2]>>]
                 e == Head(c[1])
      <3>1. e \in Tasks
        BY <2>2, RetainingParts, HeadAndTail
      <3>2. RetainFrom(f, c) = (IF task_id[e] = c[2] THEN <<>> ELSE <<e>>) \o r
        BY <2>2 DEF RetainFrom
      <3>3. r \in Q
        BY <2>2, RetainGoesOn
      <3> HIDE DEF r, e
      <3>4. RetainFrom(f, c) = <<>> \o r \/ RetainFrom(f, c) = <<e>> \o r
        BY <3>2
      <3>5. QED
        BY <3>1, <3>3, <3>4, TaskInFront
    <2>3. QED
      BY <2>1, <2>2
  <1>2. ASSUME NEW c \in Retaining, NEW f \in [Retaining -> Q], NEW g \in [Retaining -> Q],
               \A d \in Retaining : Extent[d] < Extent[c] => f[d] = g[d]
        PROVE  RetainFrom(f, c) = RetainFrom(g, c)
    <2>1. c[1] # <<>> => f[<<Tail(c[1]), c[2]>>] = g[<<Tail(c[1]), c[2]>>]
      BY <1>2, RetainGoesOn
    <2>2. QED
      BY <2>1, Zenon DEF RetainFrom
  <1> HIDE DEF Q
  <1>3. D \in [Retaining -> [[Retaining -> Q] -> Q]]
    BY <1>1
  <1>4. \A c \in Retaining : \A f \in [Retaining -> Q] : D[c][f] = RetainFrom(f, c)
    OBVIOUS
  <1> HIDE DEF D
  <1>5. Determined(D, Retaining, Q, Extent)
    <2>1. \A c \in Retaining : \A f, g \in [Retaining -> Q] :
            (\A d \in Retaining : Extent[d] < Extent[c] => f[d] = g[d]) => D[c][f] = D[c][g]
      BY <1>2, <1>4
    <2>2. QED
      BY <1>3, <2>1, ExtentIsNat, Zenon DEF Determined
  <1>6. Q # {}
    BY <<>> \in Q DEF Q
  <1>7. PICK f \in [Retaining -> Q] : \A c \in Retaining : f[c] = D[c][f]
    BY <1>5, <1>6, SolutionExists
  <1>8. f = [c \in Retaining |-> RetainFrom(f, c)]
    <2>1. \A c \in Retaining : f[c] = RetainFrom(f, c)
      BY <1>4, <1>7
    <2>2. QED
      BY <2>1, Zenon
  <1>9. Retained = CHOOSE g : g = [c \in Retaining |-> RetainFrom(g, c)]
    BY DEF Retained, RetainFrom, Retaining
  <1>10. QED
    BY <1>8, <1>9, Zenon

LEMMA RetainDrops == \A c \in Retaining : Dropped(c[1], c[2], Retained[c])
  <1> DEFINE P == {c \in Retaining : Dropped(c[1], c[2], Retained[c])}
  <1>1. ASSUME NEW c \in Retaining, \A d \in Retaining : Extent[d] < Extent[c] => d \in P
        PROVE  Dropped(c[1], c[2], Retained[c])
    <2> DEFINE s == c[1]
               t == c[2]
               d == <<Tail(s), t>>
               r == Retained[d]
               e == Head(s)
    <2>1. Retained[c] = RetainFrom(Retained, c) /\ s \in Seq(Tasks) /\ t \in Ids
      BY RetainSolves, RetainingParts
    <2>2. CASE s = <<>>
      <3>1. Retained[c] = <<>> /\ \A u : ~Queued(<<>>, u)
        BY <2>1, <2>2 DEF RetainFrom, Queued
      <3>2. QED
        BY <2>1, <2>2, <3>1 DEF Dropped
    <2>3. CASE s # <<>>
      <3>1. Retained[c] = (IF task_id[e] = t THEN <<>> ELSE <<e>>) \o r
        BY <2>1, <2>3 DEF RetainFrom
      <3>2. Dropped(Tail(s), t, r)
        <4>1. d \in Retaining /\ Extent[d] < Extent[c] /\ d[1] = Tail(s) /\ d[2] = t
          BY <2>3, RetainGoesOn
        <4> HIDE DEF d, s, t
        <4>2. Dropped(d[1], d[2], Retained[d])
          BY <1>1, <4>1
        <4>3. QED
          BY <4>1, <4>2
      <3>3. /\ e \in Tasks /\ \A u : Queued(s, u) <=> u = e \/ Queued(Tail(s), u)
            /\ Distinct(s) => Distinct(Tail(s)) /\ ~Queued(Tail(s), e)
        BY <2>1, <2>3, HeadAndTail
      <3> HIDE DEF s, t, e, r, d
      <3>4. CASE task_id[e] = t
        <4>1. Retained[c] = r
          BY <3>1, <3>2, <3>3, <3>4, TaskInFront DEF Dropped
        <4>2. QED
          BY <3>2, <3>3, <3>4, <4>1 DEF Dropped, s, t
      <3>5. CASE task_id[e] # t
        <4>1. Retained[c] = <<e>> \o r
          BY <3>1, <3>5
        <4>2. /\ Retained[c] \in Seq(Tasks)
              /\ \A u : Queued(Retained[c], u) <=> u = e \/ Queued(r, u)
              /\ Distinct(r) /\ ~Queued(r, e) => Distinct(Retained[c])
          BY <3>2, <3>3, <4>1, TaskInFront DEF Dropped
        <4>3. \A u : Queued(Retained[c], u) <=> Queued(s, u) /\ task_id[u] # t
          BY <3>2, <3>3, <3>5, <4>2 DEF Dropped
        <4>4. Distinct(s) => Distinct(Retained[c])
          BY <3>2, <3>3, <4>2 DEF Dropped
        <4>5. QED
          BY <4>2, <4>3, <4>4 DEF Dropped, s, t
      <3>6. QED
        BY <3>4, <3>5
    <2>4. QED
      BY <2>2, <2>3
  <1>2. P = Retaining
    <2>1. P \in SUBSET Retaining
      OBVIOUS
    <2>2. \A c \in Retaining : (\A d \in Retaining : Extent[d] < Extent[c] => d \in P) => c \in P
      BY <1>1
    <2> HIDE DEF P
    <2>3. QED
      BY <2>1, <2>2, ExtentIsNat, ByMeasure
  <1>3. QED
    BY <1>2

\* cancel drops the blocked tasks of the id.
LEMMA RetainedDrops ==
  ASSUME NEW s \in Seq(Tasks), NEW t \in Ids
  PROVE  Dropped(s, t, Retained[<<s, t>>])
  <1> DEFINE c == <<s, t>>
  <1>1. c \in Retaining /\ c[1] = s /\ c[2] = t
    BY RetainingParts
  <1> HIDE DEF c
  <1>2. Dropped(s, t, Retained[c])
    BY <1>1, RetainDrops
  <1>3. QED
    BY <1>2 DEF c

-----------------------------------------------------------------------------
(* The tasks in the heap *)

Filed(h, t) == \E k \in 1..Len(h) : h[k].task = t

LEMMA FiledByEntry == \A h, t : Filed(h, t) <=> \E e : Holds(h, e) /\ e.task = t
  BY DEF Filed, Holds

LEMMA PushFiles ==
  ASSUME NEW h \in Heaps, NEW t \in Tasks
  PROVE  /\ Push(h, t) \in Heaps
         /\ \A u : Filed(Push(h, t), u) <=> Filed(h, u) \/ u = t
         /\ Once(h) /\ ~Filed(h, t) => Once(Push(h, t))
  <1> DEFINE e == [task |-> t, waited |-> 0]
             g == Append(h, e)
  <1>1. e \in Entries /\ e.task = t
    BY MaxWaitIsNat DEF Entries
  <1>2. Kept(g, Push(h, t))
    BY PushKeeps
  <1> HIDE DEF e
  <1>3. /\ g \in Heaps /\ Len(g) = Len(h) + 1 /\ Len(h) \in Nat
        /\ \A k \in 1..Len(h) : g[k] = h[k]
        /\ g[Len(h) + 1] = e
    BY <1>1 DEF Heaps
  <1> HIDE DEF g
  <1>4. \A u : Filed(g, u) <=> Filed(h, u) \/ u = t
    BY <1>1, <1>3 DEF Filed
  <1>5. Once(h) /\ ~Filed(h, t) => Once(g)
    BY <1>1, <1>3 DEF Filed, Once
  <1>6. \A u : Filed(Push(h, t), u) <=> Filed(g, u)
    BY <1>2, FiledByEntry DEF Kept
  <1>7. QED
    BY <1>2, <1>4, <1>5, <1>6 DEF Kept

LEMMA PopFiles ==
  ASSUME NEW h \in Heaps, h # <<>>
  PROVE  /\ PopRest(h) \in Heaps /\ Head(h).task \in Tasks /\ Filed(h, Head(h).task)
         /\ Once(h) => /\ Once(PopRest(h))
                       /\ \A u : Filed(PopRest(h), u) <=> Filed(h, u) /\ u # Head(h).task
  <1>1. Kept(Tail(h), PopRest(h))
    BY PopKeeps
  <1>2. /\ Head(h) \in Entries
        /\ \A e : Holds(h, e) <=> e = Head(h) \/ Holds(Tail(h), e)
        /\ Once(h) => Once(Tail(h)) /\ \A e : Holds(Tail(h), e) => e.task # Head(h).task
    BY TopAndTail
  <1>3. Head(h).task \in Tasks
    BY <1>2 DEF Entries
  <1>4. Filed(h, Head(h).task)
    BY <1>2, FiledByEntry
  <1>5. Once(h) => \A u : Filed(PopRest(h), u) <=> Filed(h, u) /\ u # Head(h).task
    BY <1>1, <1>2, FiledByEntry DEF Kept
  <1>6. QED
    BY <1>1, <1>2, <1>3, <1>4, <1>5 DEF Kept

LEMMA CancelFiles ==
  ASSUME NEW h \in Heaps, NEW t \in Ids
  PROVE  /\ WithoutTask(h, t) \in Heaps
         /\ \A u : Filed(WithoutTask(h, t), u) <=> Filed(h, u) /\ task_id[u] # t
         /\ Once(h) => Once(WithoutTask(h, t))
  <1>1. Cancelled(h, t, WithoutTask(h, t))
    BY WithoutTaskCancels
  <1>2. \A u : Filed(WithoutTask(h, t), u) <=> Filed(h, u) /\ task_id[u] # t
    BY <1>1, FiledByEntry DEF Cancelled
  <1>3. QED
    BY <1>1, <1>2 DEF Cancelled

\* Aging keeps every entry's task and place.
LEMMA TickFiles ==
  ASSUME NEW h \in Heaps, NEW g,
         g = [i \in DOMAIN h |-> [h[i] EXCEPT !.waited = IF @ < MaxWait THEN @ + 1 ELSE @]]
  PROVE  g \in Heaps /\ (\A u : Filed(g, u) <=> Filed(h, u)) /\ (Once(h) => Once(g))
  <1>1. DOMAIN h = 1..Len(h) /\ Len(h) \in Nat
    BY DEF Heaps
  <1>2. ASSUME NEW i \in 1..Len(h)
        PROVE  /\ [h[i] EXCEPT !.waited = IF @ < MaxWait THEN @ + 1 ELSE @] \in Entries
               /\ [h[i] EXCEPT !.waited = IF @ < MaxWait THEN @ + 1 ELSE @].task = h[i].task
    <2> DEFINE e == h[i]
    <2>1. e \in Entries
      BY <1>1 DEF Heaps
    <2> HIDE DEF e
    <2>2. /\ [e EXCEPT !.waited = IF @ < MaxWait THEN @ + 1 ELSE @] \in Entries
          /\ [e EXCEPT !.waited = IF @ < MaxWait THEN @ + 1 ELSE @].task = e.task
      BY <2>1, MaxWaitIsNat DEF Entries
    <2>3. QED
      BY <2>2 DEF e
  <1>3. g \in [1..Len(h) -> Entries] /\ \A i \in 1..Len(h) : g[i].task = h[i].task
    BY <1>1, <1>2
  <1>4. g \in Heaps /\ Len(g) = Len(h)
    BY <1>1, <1>3 DEF Heaps
  <1>5. QED
    BY <1>3, <1>4 DEF Filed, Once

-----------------------------------------------------------------------------
(* The inductive invariant *)

\* The queues hold each task once, and a task is in one place.
Apart ==
  /\ Once(ready_queue) /\ Distinct(blocked_queue)
  /\ \A t : /\ ~(Filed(ready_queue, t) /\ Queued(blocked_queue, t))
            /\ ~(Filed(ready_queue, t) /\ t \in running)
            /\ ~(Queued(blocked_queue, t) /\ t \in running)

Slots == IsFiniteSet(running) /\ running_count = Cardinality(running)

SInv == TypeOK /\ Apart /\ Slots

LEMMA KnownParts ==
  ASSUME TypeOK
  PROVE  /\ \A t : t \in InHeap <=> Filed(ready_queue, t)
         /\ \A t : t \in InBlocked <=> Queued(blocked_queue, t)
         /\ \A t : t \in Known <=> Filed(ready_queue, t) \/ Queued(blocked_queue, t) \/ t \in running
  <1>1. DOMAIN ready_queue = 1..Len(ready_queue) /\ DOMAIN blocked_queue = 1..Len(blocked_queue)
    BY DEF TypeOK
  <1>2. \A t : t \in InHeap <=> Filed(ready_queue, t)
    BY <1>1, Zenon DEF InHeap, Filed
  <1>3. \A t : t \in InBlocked <=> Queued(blocked_queue, t)
    BY <1>1, Zenon DEF InBlocked, Queued
  <1>4. QED
    BY <1>2, <1>3 DEF Known

LEMMA SInvInit ==
  ASSUME SchedulerAssumption, Init
  PROVE  SInv
  <1>1. TypeOK
    BY DEF Init, TypeOK, SchedulerAssumption
  <1>2. Apart
    BY DEF Init, Apart, Once, Distinct, Filed, Queued
  <1>3. Slots
    BY FS_EmptySet DEF Init, Slots
  <1>4. QED
    BY <1>1, <1>2, <1>3 DEF SInv

\* Handing a running task back frees exactly its slot.
LEMMA SlotReturned ==
  ASSUME SInv, NEW t \in running, running' = running \ {t}, running_count' = SlotFreed
  PROVE  Slots' /\ running' \subseteq Tasks /\ running_count' \in 0..max_concurrent
  <1>1. IsFiniteSet(running) /\ running_count = Cardinality(running) /\ running \subseteq Tasks
    BY DEF SInv, Slots, TypeOK
  <1>2. IsFiniteSet(running \ {t}) /\ Cardinality(running \ {t}) = Cardinality(running) - 1
    BY <1>1, FS_RemoveElement
  <1>3. Cardinality(running) \in Nat /\ Cardinality(running \ {t}) \in Nat
    BY <1>1, <1>2, FS_CardinalityType
  <1>4. running_count' = running_count - 1
    BY <1>1, <1>2, <1>3 DEF SlotFreed
  <1>5. running_count' = Cardinality(running')
    BY <1>1, <1>2, <1>4
  <1>6. running_count' \in 0..max_concurrent
    BY <1>1, <1>2, <1>3, <1>4, SchedulerAssumption DEF SInv, TypeOK, SchedulerAssumption
  <1>7. QED
    BY <1>1, <1>2, <1>5, <1>6 DEF Slots

LEMMA SubmitKeepsSInv ==
  ASSUME SInv, NEW t \in Tasks, submit(t)
  PROVE  SInv'
  <1> USE DEF SInv
  <1>1. /\ ready_queue' = Push(ready_queue, t)
        /\ UNCHANGED <<blocked_queue, running, running_count>>
    BY DEF submit
  <1>2. ~Filed(ready_queue, t) /\ ~Queued(blocked_queue, t) /\ t \notin running
    BY KnownParts DEF submit
  <1>3. /\ ready_queue' \in Heaps
        /\ \A u : Filed(ready_queue', u) <=> Filed(ready_queue, u) \/ u = t
        /\ Once(ready_queue')
    BY <1>1, <1>2, PushFiles DEF TypeOK, Heaps, Apart
  <1>4. TypeOK'
    BY <1>1, <1>3 DEF TypeOK, Heaps
  <1>5. Apart'
    BY <1>1, <1>2, <1>3 DEF Apart
  <1>6. QED
    BY <1>1, <1>4, <1>5 DEF Slots

LEMMA ScheduleKeepsSInv ==
  ASSUME SInv, schedule_next
  PROVE  SInv'
  <1> DEFINE t == Head(ready_queue).task
  <1> USE DEF SInv
  <1>1. /\ running_count < max_concurrent /\ ready_queue # <<>>
        /\ ready_queue' = PopRest(ready_queue)
        /\ running' = running \cup {t}
        /\ running_count' = running_count + 1
        /\ UNCHANGED blocked_queue
    BY DEF schedule_next, HasCapacity
  <1>2. /\ ready_queue' \in Heaps /\ t \in Tasks /\ Filed(ready_queue, t) /\ Once(ready_queue')
        /\ \A u : Filed(ready_queue', u) <=> Filed(ready_queue, u) /\ u # t
    BY <1>1, PopFiles DEF TypeOK, Heaps, Apart
  <1> HIDE DEF t
  <1>3. t \notin running /\ ~Queued(blocked_queue, t)
    BY <1>2 DEF Apart
  <1>4. Slots'
    <2>1. IsFiniteSet(running) /\ running_count = Cardinality(running)
      BY DEF Slots
    <2>2. IsFiniteSet(running \cup {t}) /\ Cardinality(running \cup {t}) = Cardinality(running) + 1
      BY <1>3, <2>1, FS_AddElement
    <2>3. QED
      BY <1>1, <2>1, <2>2 DEF Slots
  <1>5. TypeOK'
    BY <1>1, <1>2, SchedulerAssumption DEF TypeOK, Heaps, SchedulerAssumption
  <1>6. Apart'
    BY <1>1, <1>2, <1>3 DEF Apart
  <1>7. QED
    BY <1>4, <1>5, <1>6

LEMMA CompleteKeepsSInv ==
  ASSUME SInv, NEW t \in Tasks, complete(t)
  PROVE  SInv'
  <1>1. /\ t \in running /\ running' = running \ {t} /\ running_count' = SlotFreed
        /\ UNCHANGED <<ready_queue, blocked_queue>>
    BY DEF complete
  <1>2. Slots' /\ running' \subseteq Tasks /\ running_count' \in 0..max_concurrent
    BY <1>1, SlotReturned
  <1>3. Apart'
    BY <1>1 DEF SInv, Apart
  <1>4. QED
    BY <1>1, <1>2, <1>3 DEF SInv, TypeOK

LEMMA BlockKeepsSInv ==
  ASSUME SInv, NEW t \in Tasks, block(t)
  PROVE  SInv'
  <1>1. /\ t \in running /\ running' = running \ {t} /\ running_count' = SlotFreed
        /\ blocked_queue' = Append(blocked_queue, t)
        /\ UNCHANGED ready_queue
    BY DEF block, SlotAfterBlock
  <1>2. Slots' /\ running' \subseteq Tasks /\ running_count' \in 0..max_concurrent
    BY <1>1, SlotReturned
  <1>3. ~Filed(ready_queue, t) /\ ~Queued(blocked_queue, t)
    BY <1>1 DEF SInv, Apart
  <1>4. /\ blocked_queue' \in Seq(Tasks) /\ Distinct(blocked_queue')
        /\ \A u : Queued(blocked_queue', u) <=> Queued(blocked_queue, u) \/ u = t
    BY <1>1, <1>3, AppendQueues DEF SInv, TypeOK, Apart
  <1>5. Apart'
    BY <1>1, <1>3, <1>4 DEF SInv, Apart
  <1>6. QED
    BY <1>1, <1>2, <1>4, <1>5 DEF SInv, TypeOK

LEMMA UnblockKeepsSInv ==
  ASSUME SInv, NEW id \in Ids, unblock(id)
  PROVE  SInv'
  <1> USE DEF SInv
  <1>1. PICK pos \in 1..Len(blocked_queue) :
          /\ blocked_queue' = Removed(blocked_queue, pos)
          /\ ready_queue' = Push(ready_queue, blocked_queue[pos])
    BY DEF unblock, TypeOK
  <1> DEFINE t == blocked_queue[pos]
  <1>2. t \in Tasks /\ UNCHANGED <<running, running_count>>
    BY DEF unblock, TypeOK
  <1>3. /\ blocked_queue' \in Seq(Tasks) /\ Distinct(blocked_queue')
        /\ \A u : Queued(blocked_queue', u) <=> Queued(blocked_queue, u) /\ u # t
    BY <1>1, RemovedUnqueues DEF TypeOK, Apart
  <1>4. Queued(blocked_queue, t)
    BY DEF Queued
  <1> HIDE DEF t
  <1>5. ~Filed(ready_queue, t) /\ t \notin running
    BY <1>4 DEF Apart
  <1>6. /\ ready_queue' \in Heaps
        /\ \A u : Filed(ready_queue', u) <=> Filed(ready_queue, u) \/ u = t
        /\ Once(ready_queue')
    BY <1>1, <1>2, <1>5, PushFiles DEF TypeOK, Heaps, Apart, t
  <1>7. TypeOK'
    BY <1>2, <1>3, <1>6 DEF TypeOK, Heaps
  <1>8. Apart'
    BY <1>2, <1>3, <1>5, <1>6 DEF Apart
  <1>9. QED
    BY <1>2, <1>7, <1>8 DEF Slots

LEMMA PreemptKeepsSInv ==
  ASSUME SInv, NEW t \in Tasks, preempt(t)
  PROVE  SInv'
  <1>1. /\ t \in running /\ running' = running \ {t} /\ running_count' = SlotFreed
        /\ ready_queue' = Push(ready_queue, t)
        /\ UNCHANGED blocked_queue
    BY DEF preempt
  <1>2. Slots' /\ running' \subseteq Tasks /\ running_count' \in 0..max_concurrent
    BY <1>1, SlotReturned
  <1>3. ~Filed(ready_queue, t) /\ ~Queued(blocked_queue, t)
    BY <1>1 DEF SInv, Apart
  <1>4. /\ ready_queue' \in Heaps
        /\ \A u : Filed(ready_queue', u) <=> Filed(ready_queue, u) \/ u = t
        /\ Once(ready_queue')
    BY <1>1, <1>3, PushFiles DEF SInv, TypeOK, Heaps, Apart
  <1>5. Apart'
    BY <1>1, <1>3, <1>4 DEF SInv, Apart
  <1>6. QED
    BY <1>1, <1>2, <1>4, <1>5 DEF SInv, TypeOK, Heaps

LEMMA CancelKeepsSInv ==
  ASSUME SInv, NEW id \in Ids, cancel(id)
  PROVE  SInv'
  <1> USE DEF SInv
  <1>1. /\ ready_queue' = WithoutTask(ready_queue, id)
        /\ blocked_queue' = Retained[<<blocked_queue, id>>]
        /\ UNCHANGED <<running, running_count>>
    BY DEF cancel
  <1>2. /\ ready_queue' \in Heaps
        /\ \A u : Filed(ready_queue', u) <=> Filed(ready_queue, u) /\ task_id[u] # id
        /\ Once(ready_queue')
    BY <1>1, CancelFiles DEF TypeOK, Heaps, Apart
  <1>3. /\ blocked_queue' \in Seq(Tasks) /\ Distinct(blocked_queue')
        /\ \A u : Queued(blocked_queue', u) <=> Queued(blocked_queue, u) /\ task_id[u] # id
    BY <1>1, RetainedDrops DEF TypeOK, Apart, Dropped
  <1>4. TypeOK'
    BY <1>1, <1>2, <1>3 DEF TypeOK, Heaps
  <1>5. Apart'
    BY <1>1, <1>2, <1>3 DEF Apart
  <1>6. QED
    BY <1>1, <1>4, <1>5 DEF Slots

LEMMA TickKeepsSInv ==
  ASSUME SInv, Tick
  PROVE  SInv'
  <1> USE DEF SInv
  <1>1. UNCHANGED <<blocked_queue, running, running_count>>
    BY DEF Tick
  <1>2. /\ ready_queue' \in Heaps /\ Once(ready_queue')
        /\ \A u : Filed(ready_queue', u) <=> Filed(ready_queue, u)
    BY TickFiles DEF Tick, TypeOK, Heaps, Apart
  <1>3. TypeOK'
    BY <1>1, <1>2 DEF TypeOK, Heaps
  <1>4. Apart'
    BY <1>1, <1>2 DEF Apart
  <1>5. QED
    BY <1>1, <1>3, <1>4 DEF Slots

LEMMA SInvNext ==
  ASSUME SInv, [Next]_vars
  PROVE  SInv'
  <1>1. CASE UNCHANGED vars
    BY <1>1 DEF vars, SInv, TypeOK, Apart, Slots
  <1>2. QED
    BY <1>1, SubmitKeepsSInv, ScheduleKeepsSInv, CompleteKeepsSInv, BlockKeepsSInv,
       UnblockKeepsSInv, PreemptKeepsSInv, CancelKeepsSInv, TickKeepsSInv
    DEF Next, KernelCall, OtherCall

\* The inductive invariant of the scheduler: its types, the tasks in one place
\* each, and a slot per running task, for any tasks, weights and number of slots.
THEOREM SchedulerInvariant == Spec => []SInv
  <1>1. Init => SInv
    BY SchedulerAssumption, SInvInit
  <1>2. SInv /\ [Next]_vars => SInv'
    BY SInvNext
  <1>3. QED
    BY <1>1, <1>2, PTL DEF Spec

\* running_count (scheduler.rs:173, 179, 185, 218) is always the number of tasks
\* handed out and not returned, and at most max_concurrent.
THEOREM SlotsStayExact == Spec => []SlotsExact
  <1>1. SInv => SlotsExact
    BY DEF SInv, Slots, SlotsExact
  <1>2. QED
    BY <1>1, SchedulerInvariant, PTL

-----------------------------------------------------------------------------
(* OnePlace *)

\* As many values as positions when no value repeats.
LEMMA ValuesCounted ==
  ASSUME NEW n \in Nat, NEW T, NEW f \in [1..n -> T],
         \A k, l \in 1..n : f[k] = f[l] => k = l,
         \A y \in T : \E k \in 1..n : f[k] = y
  PROVE  Cardinality(T) = n
  <1>1. f \in Injection(1..n, T)
    BY Zenon DEF Injection, IsInjective
  <1>2. f \in Surjection(1..n, T)
    BY Zenon DEF Surjection
  <1>3. ExistsBijection(1..n, T)
    BY <1>1, <1>2, Zenon DEF ExistsBijection, Bijection
  <1>4. QED
    BY <1>3, FS_CountingElements

LEMMA HeapCounted ==
  ASSUME TypeOK, Once(ready_queue)
  PROVE  Cardinality(InHeap) = Len(ready_queue)
  <1> DEFINE n == Len(ready_queue)
             f == [k \in 1..n |-> ready_queue[k].task]
             T == InHeap
  <1>1. n \in Nat
    BY DEF TypeOK
  <1>2. \A u : u \in T <=> \E k \in 1..n : ready_queue[k].task = u
    BY KnownParts DEF Filed
  <1> HIDE DEF n, T
  <1>3. f \in [1..n -> T]
    BY <1>2
  <1>4. \A k, l \in 1..n : f[k] = f[l] => k = l
    BY DEF Once, n
  <1>5. \A y \in T : \E k \in 1..n : f[k] = y
    BY <1>2
  <1> HIDE DEF f
  <1>6. Cardinality(T) = n
    BY <1>1, <1>3, <1>4, <1>5, ValuesCounted
  <1>7. QED
    BY <1>6 DEF T, n

LEMMA BlockedCounted ==
  ASSUME TypeOK, Distinct(blocked_queue)
  PROVE  Cardinality(InBlocked) = Len(blocked_queue)
  <1> DEFINE n == Len(blocked_queue)
             f == [k \in 1..n |-> blocked_queue[k]]
             T == InBlocked
  <1>1. n \in Nat
    BY DEF TypeOK
  <1>2. \A u : u \in T <=> \E k \in 1..n : blocked_queue[k] = u
    BY KnownParts DEF Queued
  <1> HIDE DEF n, T
  <1>3. f \in [1..n -> T]
    BY <1>2
  <1>4. \A k, l \in 1..n : f[k] = f[l] => k = l
    BY DEF Distinct, n
  <1>5. \A y \in T : \E k \in 1..n : f[k] = y
    BY <1>2
  <1> HIDE DEF f
  <1>6. Cardinality(T) = n
    BY <1>1, <1>3, <1>4, <1>5, ValuesCounted
  <1>7. QED
    BY <1>6 DEF T, n

\* No operation, the drain and rebuild of cancel (scheduler.rs:230-248)
\* included, puts a submission in two places or twice in a queue, whatever ids
\* the submissions share.
THEOREM TasksStayInOnePlace == Spec => []OnePlace
  <1>1. SInv => OnePlace
    <2> SUFFICES ASSUME SInv PROVE OnePlace
      OBVIOUS
    <2>1. TypeOK /\ Apart
      BY DEF SInv
    <2>2. Cardinality(InHeap) = Len(ready_queue) /\ Cardinality(InBlocked) = Len(blocked_queue)
      BY <2>1, HeapCounted, BlockedCounted DEF Apart
    <2>3. InHeap \cap InBlocked = {} /\ InHeap \cap running = {} /\ InBlocked \cap running = {}
      BY <2>1, KnownParts DEF Apart
    <2>4. QED
      BY <2>2, <2>3 DEF OnePlace
  <1>2. QED
    BY <1>1, SchedulerInvariant, PTL

-----------------------------------------------------------------------------
(* Conserved *)

\* The step leaves out tasks of the id alone, and at most one that ran; those
\* that wait stay if it takes or returns one.
OnlyGone(id) ==
  /\ \A u : Filed(ready_queue, u) \/ Queued(blocked_queue, u) \/ u \in running
            => \/ task_id[u] = id
               \/ Filed(ready_queue', u) \/ Queued(blocked_queue', u) \/ u \in running'
  /\ running' # running =>
       \A u : Filed(ready_queue, u) \/ Queued(blocked_queue, u)
              => Filed(ready_queue', u) \/ Queued(blocked_queue', u) \/ u \in running'
  /\ \E t : \A u \in running : u = t \/ u \in running'

LEMMA StepsLoseOne ==
  ASSUME SInv, [Next]_vars
  PROVE  \E id : OnlyGone(id)
  <1> USE DEF SInv
  <1>1. ASSUME NEW t \in Tasks, submit(t)
        PROVE  OnlyGone(task_id[t])
    BY <1>1, PushFiles DEF submit, TypeOK, Heaps, OnlyGone
  <1>2. ASSUME schedule_next
        PROVE  \E id : OnlyGone(id)
    <2> DEFINE t == Head(ready_queue).task
    <2>1. /\ ready_queue # <<>> /\ ready_queue' = PopRest(ready_queue)
          /\ running' = running \cup {t} /\ UNCHANGED blocked_queue
      BY <1>2 DEF schedule_next
    <2>2. \A u : Filed(ready_queue', u) <=> Filed(ready_queue, u) /\ u # t
      BY <2>1, PopFiles DEF TypeOK, Heaps, Apart
    <2> HIDE DEF t
    <2>3. OnlyGone(task_id[t])
      BY <2>1, <2>2 DEF OnlyGone
    <2>4. QED
      BY <2>3
  <1>3. ASSUME NEW t \in Tasks, complete(t)
        PROVE  OnlyGone(task_id[t])
    BY <1>3 DEF complete, OnlyGone
  <1>4. ASSUME NEW t \in Tasks, block(t)
        PROVE  OnlyGone(task_id[t])
    BY <1>4, AppendQueues DEF block, TypeOK, OnlyGone
  <1>5. ASSUME NEW id \in Ids, unblock(id)
        PROVE  OnlyGone(id)
    <2>1. PICK pos \in 1..Len(blocked_queue) :
            /\ blocked_queue' = Removed(blocked_queue, pos)
            /\ ready_queue' = Push(ready_queue, blocked_queue[pos])
      BY <1>5 DEF unblock, TypeOK
    <2> DEFINE t == blocked_queue[pos]
    <2>2. t \in Tasks /\ UNCHANGED running
      BY <1>5 DEF unblock, TypeOK
    <2>3. \A u : Queued(blocked_queue', u) <=> Queued(blocked_queue, u) /\ u # t
      BY <2>1, RemovedUnqueues DEF TypeOK, Apart
    <2> HIDE DEF t
    <2>4. \A u : Filed(ready_queue', u) <=> Filed(ready_queue, u) \/ u = t
      BY <2>1, <2>2, PushFiles DEF TypeOK, Heaps, t
    <2>5. QED
      BY <2>2, <2>3, <2>4 DEF OnlyGone
  <1>6. ASSUME NEW t \in Tasks, preempt(t)
        PROVE  OnlyGone(task_id[t])
    BY <1>6, PushFiles DEF preempt, TypeOK, Heaps, OnlyGone
  <1>7. ASSUME NEW id \in Ids, cancel(id)
        PROVE  OnlyGone(id)
    <2>1. \A u : Filed(ready_queue', u) <=> Filed(ready_queue, u) /\ task_id[u] # id
      BY <1>7, CancelFiles DEF cancel, TypeOK, Heaps
    <2>2. \A u : Queued(blocked_queue', u) <=> Queued(blocked_queue, u) /\ task_id[u] # id
      BY <1>7, RetainedDrops DEF cancel, TypeOK, Dropped
    <2>3. UNCHANGED running
      BY <1>7 DEF cancel
    <2>4. QED
      BY <2>1, <2>2, <2>3 DEF OnlyGone
  <1>8. ASSUME Tick
        PROVE  \A id : OnlyGone(id)
    <2>1. \A u : Filed(ready_queue', u) <=> Filed(ready_queue, u)
      BY <1>8, TickFiles DEF Tick, TypeOK, Heaps
    <2>2. UNCHANGED <<blocked_queue, running>>
      BY <1>8 DEF Tick
    <2>3. QED
      BY <2>1, <2>2 DEF OnlyGone
  <1>9. ASSUME UNCHANGED vars
        PROVE  \A id : OnlyGone(id)
    BY <1>9 DEF vars, OnlyGone
  <1>10. QED
    BY <1>1, <1>2, <1>3, <1>4, <1>5, <1>6, <1>7, <1>8, <1>9 DEF Next, KernelCall, OtherCall

LEMMA KnownPartsNext ==
  ASSUME TypeOK'
  PROVE  \A t : t \in Known' <=> Filed(ready_queue', t) \/ Queued(blocked_queue', t) \/ t \in running'
  <1>1. DOMAIN ready_queue' = 1..Len(ready_queue') /\ DOMAIN blocked_queue' = 1..Len(blocked_queue')
    BY DEF TypeOK
  <1>2. \A t : t \in InHeap' <=> Filed(ready_queue', t)
    BY <1>1, Zenon DEF InHeap, Filed
  <1>3. \A t : t \in InBlocked' <=> Queued(blocked_queue', t)
    BY <1>1, Zenon DEF InBlocked, Queued
  <1>4. QED
    BY <1>2, <1>3 DEF Known

\* No operation loses a task of another id, or more than the one it is called
\* with: a waiting task leaves only to a caller or by the cancellation of its
\* id (scheduler.rs:230-248).
THEOREM TasksAreConserved == Spec => Conserved
  <1> DEFINE Kept1 == /\ \A t, u \in Known \ Known' : task_id[t] = task_id[u]
                      /\ running' # running => InHeap \cup InBlocked \subseteq Known'
                      /\ Cardinality(running \ running') <= 1
  <1>1. SInv /\ SInv' /\ [Next]_vars => [Kept1]_vars
    <2> SUFFICES ASSUME SInv, SInv', [Next]_vars PROVE Kept1
      OBVIOUS
    <2>1. PICK id : OnlyGone(id)
      BY StepsLoseOne
    <2>2. /\ \A u : u \in Known <=> Filed(ready_queue, u) \/ Queued(blocked_queue, u) \/ u \in running
          /\ \A u : u \in InHeap <=> Filed(ready_queue, u)
          /\ \A u : u \in InBlocked <=> Queued(blocked_queue, u)
          /\ \A u : u \in Known' <=> Filed(ready_queue', u) \/ Queued(blocked_queue', u) \/ u \in running'
      BY KnownParts, KnownPartsNext DEF SInv
    <2>3. \A t, u \in Known \ Known' : task_id[t] = task_id[u]
      <3>1. \A u \in Known \ Known' : task_id[u] = id
        BY <2>1, <2>2 DEF OnlyGone
      <3>2. QED
        BY <3>1
    <2>4. running' # running => InHeap \cup InBlocked \subseteq Known'
      BY <2>1, <2>2 DEF OnlyGone
    <2>5. Cardinality(running \ running') <= 1
      <3>1. PICK t : \A u \in running : u = t \/ u \in running'
        BY <2>1 DEF OnlyGone
      <3> DEFINE one == {t}
                 gone == running \ running'
      <3>2. gone \in SUBSET one
        BY <3>1
      <3>3. IsFiniteSet(one) /\ Cardinality(one) = 1
        BY FS_Singleton
      <3> HIDE DEF one, gone
      <3>4. Cardinality(gone) <= 1
        BY <3>2, <3>3, FS_Subset
      <3>5. QED
        BY <3>4 DEF gone
    <2>6. QED
      BY <2>3, <2>4, <2>5
  <1>2. QED
    BY <1>1, SchedulerInvariant, PTL DEF Spec, Conserved

-----------------------------------------------------------------------------
(***************************************************************************)
(* The order of the heap, for tasks of one weight: a score then orders two *)
(* entries as the whole seconds they have waited do.  Entries that tie     *)
(* when they are compared may part later, by less than a second, and that  *)
(* much the heap is out of order along any of its edges.  What the sifts   *)
(* do is stated about the array of the waits; n is its length.             *)
(***************************************************************************)

Seconds(x) == x \div Second

\* An entry that has waited x may lie above one that has waited y.
Over(x, y) == y < x + Second

LEMMA SecondsOver ==
  /\ \A x, y \in Nat : Seconds(x) >= Seconds(y) => Over(x, y)
  /\ \A x, y \in Nat : Seconds(x) > Seconds(y) => x > y
  /\ \A x \in Nat : Seconds(x) \in Nat
  <1> DEFINE s == Second
  <1>1. s \in Nat \ {0}
    BY SchedulerAssumption DEF SchedulerAssumption
  <1> HIDE DEF s
  <1>2. ASSUME NEW x \in Nat
        PROVE  /\ x \div s \in Nat
               /\ s * (x \div s) <= x /\ x < s * (x \div s) + s
    BY <1>1
  <1>3. ASSUME NEW p \in Nat, NEW q \in Nat, p >= q
        PROVE  s * p >= s * q
    BY <1>1, <1>3
  <1>4. ASSUME NEW p \in Nat, NEW q \in Nat, p > q
        PROVE  s * p >= s * q + s
    <2>1. s * p >= s * (q + 1)
      BY <1>3, <1>4
    <2>2. s * (q + 1) = s * q + s
      BY <1>1
    <2>3. QED
      BY <2>1, <2>2
  <1>5. ASSUME NEW x \in Nat, NEW y \in Nat, x \div s >= y \div s
        PROVE  y < x + s
    <2> DEFINE p == x \div s
               q == y \div s
               u == s * p
               v == s * q
    <2>1. p \in Nat /\ q \in Nat /\ u <= x /\ y < v + s
      BY <1>2
    <2>2. u >= v
      <3> HIDE DEF p, q
      <3>1. p >= q
        BY <1>5 DEF p, q
      <3>2. QED
        BY <1>3, <2>1, <3>1
    <2>3. u \in Int /\ v \in Int
      <3> HIDE DEF p, q
      <3>1. QED
        BY <1>1, <2>1
    <2> HIDE DEF u, v, p, q
    <2>4. QED
      BY <1>1, <2>1, <2>2, <2>3
  <1>6. ASSUME NEW x \in Nat, NEW y \in Nat, x \div s > y \div s
        PROVE  x > y
    <2> DEFINE p == x \div s
               q == y \div s
               u == s * p
               v == s * q
    <2>1. p \in Nat /\ q \in Nat /\ u <= x /\ y < v + s
      BY <1>2
    <2>2. u >= v + s
      <3> HIDE DEF p, q
      <3>1. p > q
        BY <1>6 DEF p, q
      <3>2. QED
        BY <1>4, <2>1, <3>1
    <2>3. u \in Int /\ v \in Int
      <3> HIDE DEF p, q
      <3>1. QED
        BY <1>1, <2>1
    <2> HIDE DEF u, v, p, q
    <2>4. QED
      BY <1>1, <2>1, <2>2, <2>3
  <1>7. QED
    BY <1>2, <1>5, <1>6 DEF Seconds, Over, s

\* Every entry whose parent is at k or beyond lies where it may.
OrderedFrom(a, n, k) == \A j \in 2..n : Parent(j) >= k => Over(a[Parent(j)], a[j])

\* Positions that lead to the top, one below the other.
Path(q) ==
  /\ \A m \in q : m # 1 => Parent(m) \in q
  /\ \A l, m \in q : l # 1 /\ m # 1 /\ Parent(l) = Parent(m) => l = m

\* In order but for the entry at i, which may be older than its parent.  It came
\* down the path q, whose entries moved up by one for it and go back if it does:
\* each may lie above the entries that are beside the path below it.
UpReady(a, n, i, q) ==
  /\ i \in q /\ Path(q)
  /\ \A j \in 2..n : j # i => Over(a[Parent(j)], a[j])
  /\ \A j \in 2..n : Parent(j) \in q /\ Parent(j) # 1 /\ (Parent(j) = i \/ (Parent(j) < i /\ j \notin q))
                    => Over(a[Parent(Parent(j))], a[j])

\* In order but for the entry at i, to be exchanged with its children down to
\* a leaf; it came down the path q.
Hole(a, n, i, q) ==
  /\ i \in q /\ Path(q) /\ \A m \in q : m \in Nat /\ m <= i
  /\ \A j \in 2..n : j # i /\ Parent(j) # i => Over(a[Parent(j)], a[j])
  /\ \A j \in 2..n : Parent(j) \in q /\ Parent(j) # 1 /\ j \notin q
                    => Over(a[Parent(Parent(j))], a[j])

\* In order from k on but for the entry at i, which may be younger than its
\* children.
DownReady(a, n, k, i) ==
  \A j \in 2..n : /\ Parent(j) >= k /\ Parent(j) # i => Over(a[Parent(j)], a[j])
                  /\ Parent(j) = i /\ i # 1 /\ Parent(i) >= k => Over(a[Parent(i)], a[j])

Exchanged(a, b, n, i, j) ==
  \A k \in 1..n : b[k] = IF k = i THEN a[j] ELSE IF k = j THEN a[i] ELSE a[k]

\* c is the child of i that is as old as the other, in seconds.
Eldest(a, n, i, c) ==
  /\ c \in 1..n /\ i < c /\ Parent(c) = i
  /\ \A j \in 2..n : Parent(j) = i => Seconds(a[c]) >= Seconds(a[j])

LEMMA ParentsOf ==
  /\ \A j \in Nat : j >= 2 => Parent(j) \in Nat /\ 1 <= Parent(j) /\ Parent(j) < j
  /\ \A j, i \in Nat : Parent(j) = i <=> j = 2 * i \/ j = 2 * i + 1
  BY DEF Parent

LEMMA ParentBefore ==
  ASSUME NEW n \in Nat, NEW j \in 2..n
  PROVE  Parent(j) \in 1..n /\ Parent(j) < j
  BY DEF Parent

\* A position and the two above it.
LEMMA GrandparentBefore ==
  ASSUME NEW n \in Nat, NEW j \in 2..n, Parent(j) # 1
  PROVE  Parent(j) \in 2..n /\ Parent(Parent(j)) \in 1..n /\ Parent(Parent(j)) < Parent(j)
  <1> DEFINE p == Parent(j)
  <1>1. p \in 2..n
    <2>1. p \in 1..n /\ p # 1
      BY ParentBefore
    <2> HIDE DEF p
    <2>2. QED
      BY <2>1
  <1> HIDE DEF p
  <1>2. Parent(p) \in 1..n /\ Parent(p) < p
    BY <1>1, ParentBefore
  <1>3. QED
    BY <1>1, <1>2 DEF p

\* The order of an entry above another passes to one older.
LEMMA OverOlder ==
  ASSUME NEW x \in Nat, NEW y \in Nat, NEW z \in Nat, x >= y
  PROVE  /\ Over(y, z) => Over(x, z)
         /\ Over(x, y)
  <1>1. Second \in Nat \ {0}
    BY SchedulerAssumption DEF SchedulerAssumption
  <1>2. QED
    BY <1>1 DEF Over

LEMMA UpStep ==
  ASSUME NEW n \in Nat, NEW a \in [1..n -> Nat], NEW b \in [1..n -> Nat], NEW i \in 2..n, NEW q,
         UpReady(a, n, i, q), Seconds(a[i]) > Seconds(a[Parent(i)]),
         Exchanged(a, b, n, i, Parent(i))
  PROVE  UpReady(b, n, Parent(i), q)
  <1> DEFINE p == Parent(i)
  <1>1. p \in 1..n /\ p < i
    BY ParentBefore
  <1>2. i \in q /\ Path(q) /\ p \in q
    BY DEF UpReady, Path
  <1>3. a[i] \in Nat /\ a[p] \in Nat /\ a[i] > a[p]
    BY <1>1, SecondsOver
  <1>4. b[p] = a[i] /\ b[i] = a[p]
    BY <1>1 DEF Exchanged
  <1>5. \A j \in 1..n : j # i /\ j # p => b[j] = a[j]
    BY DEF Exchanged
  <1> HIDE DEF p
  <1>6. ASSUME NEW j \in 2..n, j # p
        PROVE  Over(b[Parent(j)], b[j])
    <2>1. Parent(j) \in 1..n /\ Parent(j) < j /\ j \in 1..n
      BY ParentBefore
    <2>2. CASE j = i
      <3>1. Over(a[i], a[p])
        BY <1>3, OverOlder
      <3>2. QED
        BY <1>4, <2>2, <3>1 DEF p
    <2>3. CASE j # i /\ Parent(j) = p
      <3>1. Over(a[p], a[j])
        BY <2>3 DEF UpReady
      <3>2. a[j] \in Nat
        BY <2>1
      <3>3. Over(a[i], a[j])
        BY <1>3, <3>1, <3>2, OverOlder
      <3>4. QED
        BY <1>4, <1>5, <1>6, <2>1, <2>3, <3>3
    <2>4. CASE Parent(j) = i
      <3>1. j # i /\ i # 1
        BY <2>1, <2>4
      <3>2. Over(a[p], a[j])
        BY <1>2, <2>4, <3>1 DEF UpReady, p
      <3>3. QED
        BY <1>4, <1>5, <1>6, <2>1, <2>4, <3>1, <3>2
    <2>5. CASE j # i /\ Parent(j) # p /\ Parent(j) # i
      <3>1. Over(a[Parent(j)], a[j])
        BY <2>5 DEF UpReady
      <3>2. QED
        BY <1>5, <1>6, <2>1, <2>5, <3>1
    <2>6. QED
      BY <2>2, <2>3, <2>4, <2>5
  <1>7. ASSUME NEW j \in 2..n, Parent(j) \in q, Parent(j) # 1,
               Parent(j) = p \/ (Parent(j) < p /\ j \notin q)
        PROVE  Over(b[Parent(Parent(j))], b[j])
    <2> DEFINE g == Parent(Parent(j))
    <2>1. Parent(j) \in 2..n /\ g \in 1..n /\ g < Parent(j)
      BY <1>7, GrandparentBefore
    <2>2. b[g] = a[g]
      <3> DEFINE k == Parent(j)
      <3>1. k = p \/ k < p
        BY <1>7
      <3>2. g < k /\ k \in 2..n /\ g \in 1..n
        BY <2>1
      <3> HIDE DEF g, k
      <3>3. g # i /\ g # p
        BY <1>1, <3>1, <3>2
      <3>4. QED
        BY <1>5, <3>2, <3>3
    <2>3. CASE j = i
      <3>1. Parent(j) = p /\ p \in 2..n /\ p # i
        BY <1>1, <2>1, <2>3 DEF p
      <3>2. Over(a[g], a[p])
        BY <3>1 DEF UpReady
      <3>3. QED
        BY <1>4, <2>2, <2>3, <3>2
    <2>4. CASE j # i
      <3>1. j \notin q
        BY <1>2, <1>7, <2>4 DEF Path, p
      <3>2. Parent(j) < i
        BY <1>1, <1>7, <2>1
      <3>3. Over(a[g], a[j])
        BY <1>7, <3>1, <3>2 DEF UpReady
      <3>4. b[j] = a[j]
        BY <1>2, <1>5, <2>4, <3>1
      <3>5. QED
        BY <2>2, <3>3, <3>4
    <2>5. QED
      BY <2>3, <2>4
  <1>8. UpReady(b, n, p, q)
    BY <1>2, <1>6, <1>7 DEF UpReady
  <1>9. QED
    BY <1>8 DEF p

LEMMA HoleStep ==
  ASSUME NEW n \in Nat, NEW a \in [1..n -> Nat], NEW b \in [1..n -> Nat], NEW q,
         NEW i \in 1..n, NEW c, Eldest(a, n, i, c), Hole(a, n, i, q), Exchanged(a, b, n, i, c)
  PROVE  Hole(b, n, c, q \cup {c})
  <1> DEFINE r == q \cup {c}
  <1>1. /\ c \in 1..n /\ i < c /\ Parent(c) = i /\ c \in 2..n
        /\ \A j \in 2..n : Parent(j) = i => Seconds(a[c]) >= Seconds(a[j])
    BY DEF Eldest
  <1>2. i \in q /\ Path(q) /\ (\A m \in q : m \in Nat /\ m <= i) /\ c \notin q
    BY <1>1 DEF Hole
  <1>3. b[i] = a[c] /\ \A j \in 1..n : j # i /\ j # c => b[j] = a[j]
    BY <1>1 DEF Exchanged
  <1>4. Path(r)
    <2>1. ASSUME NEW l \in q, l # 1, Parent(l) = Parent(c)
          PROVE  FALSE
      <3>1. (l \in Nat /\ l >= 2) \/ l = 0
        BY <1>2, <2>1
      <3>2. l <= i
        BY <1>2
      <3>3. CASE l >= 2
        <4>1. l \in Nat /\ Parent(l) \in Nat /\ Parent(l) < l
          BY <1>2, <3>3, ParentsOf
        <4>2. Parent(l) = i /\ i \in Nat
          BY <1>1, <2>1
        <4>3. QED
          BY <3>2, <4>1, <4>2
      <3>4. CASE l = 0
        BY <1>1, <2>1, <3>4 DEF Parent
      <3>5. QED
        BY <3>1, <3>3, <3>4
    <2>2. \A m \in r : m # 1 => Parent(m) \in r
      BY <1>1, <1>2 DEF Path
    <2>3. ASSUME NEW l \in r, NEW m \in r, l # 1, m # 1, Parent(l) = Parent(m)
          PROVE  l = m
      BY <1>2, <2>1, <2>3 DEF Path
    <2>4. QED
      BY <2>2, <2>3 DEF Path
  <1>5. \A m \in r : m \in Nat /\ m <= c
    BY <1>1, <1>2
  <1> HIDE DEF r
  <1>6. ASSUME NEW j \in 2..n, j # c, Parent(j) # c
        PROVE  Over(b[Parent(j)], b[j])
    <2>1. Parent(j) \in 1..n /\ Parent(j) < j /\ j \in 1..n
      BY ParentBefore
    <2>2. CASE j = i
      <3>1. i # 1 /\ Parent(c) \in q /\ Parent(c) # 1
        BY <1>1, <1>2, <2>2
      <3>2. Over(a[Parent(Parent(c))], a[c])
        BY <1>1, <1>2, <3>1 DEF Hole
      <3>3. Over(a[Parent(i)], a[c])
        BY <1>1, <3>2
      <3>4. b[Parent(j)] = a[Parent(i)]
        BY <1>3, <1>6, <2>1, <2>2
      <3>5. QED
        BY <1>3, <2>2, <3>3, <3>4
    <2>3. CASE Parent(j) = i
      <3>1. Seconds(a[c]) >= Seconds(a[j])
        BY <1>1, <2>3
      <3>2. a[c] \in Nat /\ a[j] \in Nat
        BY <1>1, <2>1
      <3>3. Over(a[c], a[j])
        BY <3>1, <3>2, SecondsOver
      <3>4. b[j] = a[j]
        BY <1>3, <1>6, <2>1, <2>3
      <3>5. QED
        BY <1>3, <2>3, <3>3, <3>4
    <2>4. CASE j # i /\ Parent(j) # i
      <3>1. b[Parent(j)] = a[Parent(j)] /\ b[j] = a[j]
        BY <1>3, <1>6, <2>1, <2>4
      <3>2. Over(a[Parent(j)], a[j])
        BY <2>4 DEF Hole
      <3>3. QED
        BY <3>1, <3>2
    <2>5. QED
      BY <2>2, <2>3, <2>4
  <1>7. ASSUME NEW j \in 2..n, Parent(j) \in r, Parent(j) # 1, j \notin r
        PROVE  Over(b[Parent(Parent(j))], b[j])
    <2> DEFINE g == Parent(Parent(j))
    <2>1. Parent(j) \in 2..n /\ g \in 1..n /\ g < Parent(j)
      BY <1>7, GrandparentBefore
    <2>2. j # i /\ j # c /\ j \notin q
      BY <1>2, <1>7 DEF r
    <2>3. b[j] = a[j]
      BY <1>3, <2>2
    <2>4. CASE Parent(j) = c
      <3>1. g = i
        BY <1>1, <2>4
      <3>2. Parent(j) # i
        BY <1>1, <2>4
      <3>3. Over(a[c], a[j])
        BY <2>2, <2>4, <3>2 DEF Hole
      <3>4. QED
        BY <1>3, <2>3, <3>1, <3>3
    <2>5. CASE Parent(j) # c
      <3>1. Parent(j) \in q
        BY <1>7, <2>5 DEF r
      <3>2. Over(a[g], a[j])
        BY <1>7, <2>2, <3>1 DEF Hole
      <3>3. Parent(j) <= i
        BY <1>2, <3>1
      <3>4. b[g] = a[g]
        <4> DEFINE k == Parent(j)
        <4>1. g < k /\ k \in 2..n /\ g \in 1..n /\ k <= i
          BY <2>1, <3>3
        <4> HIDE DEF g, k
        <4>2. g # i /\ g # c
          BY <1>1, <4>1
        <4>3. QED
          BY <1>3, <4>1, <4>2
      <3>5. QED
        BY <2>3, <3>2, <3>4
    <2>6. QED
      BY <2>4, <2>5
  <1>8. c \in r
    BY DEF r
  <1>9. Hole(b, n, c, r)
    BY <1>4, <1>5, <1>6, <1>7, <1>8 DEF Hole
  <1>10. QED
    BY <1>9 DEF r

LEMMA DownStep ==
  ASSUME NEW n \in Nat, NEW a \in [1..n -> Nat], NEW b \in [1..n -> Nat], NEW k \in Nat,
         NEW i \in 1..n, k <= i, NEW c, Eldest(a, n, i, c),
         DownReady(a, n, k, i), Seconds(a[c]) > Seconds(a[i]), Exchanged(a, b, n, i, c)
  PROVE  DownReady(b, n, k, c)
  <1>1. /\ c \in 1..n /\ i < c /\ Parent(c) = i /\ c \in 2..n
        /\ \A j \in 2..n : Parent(j) = i => Seconds(a[c]) >= Seconds(a[j])
    BY DEF Eldest
  <1>2. a[c] \in Nat /\ a[i] \in Nat /\ a[c] > a[i]
    BY <1>1, SecondsOver
  <1>3. b[i] = a[c] /\ b[c] = a[i] /\ \A j \in 1..n : j # i /\ j # c => b[j] = a[j]
    BY <1>1 DEF Exchanged
  <1>4. ASSUME NEW j \in 2..n, Parent(j) >= k, Parent(j) # c
        PROVE  Over(b[Parent(j)], b[j])
    <2>1. Parent(j) \in 1..n /\ Parent(j) < j /\ j \in 1..n
      BY ParentBefore
    <2>2. CASE j = i
      <3>1. i # 1 /\ Parent(i) >= k
        BY <1>4, <2>2
      <3>2. Over(a[Parent(i)], a[c])
        BY <1>1, <3>1 DEF DownReady
      <3>3. b[Parent(j)] = a[Parent(i)]
        BY <1>3, <1>4, <2>1, <2>2
      <3>4. QED
        BY <1>3, <2>2, <3>2, <3>3
    <2>3. CASE Parent(j) = i /\ j # c
      <3>1. Seconds(a[c]) >= Seconds(a[j]) /\ a[j] \in Nat
        BY <1>1, <2>1, <2>3
      <3>2. Over(a[c], a[j])
        BY <1>2, <3>1, SecondsOver
      <3>3. b[j] = a[j]
        BY <1>3, <2>1, <2>3
      <3>4. QED
        BY <1>3, <2>3, <3>2, <3>3
    <2>4. CASE j = c
      <3>1. Over(a[c], a[i])
        BY <1>2, OverOlder
      <3>2. QED
        BY <1>1, <1>3, <2>4, <3>1
    <2>5. CASE j # i /\ Parent(j) # i
      <3>1. j # c
        BY <1>1, <2>5
      <3>2. b[j] = a[j] /\ b[Parent(j)] = a[Parent(j)]
        BY <1>3, <1>4, <2>1, <2>5, <3>1
      <3>3. Over(a[Parent(j)], a[j])
        BY <1>4, <2>5 DEF DownReady
      <3>4. QED
        BY <3>2, <3>3
    <2>6. QED
      BY <2>2, <2>3, <2>4, <2>5
  <1>5. ASSUME NEW j \in 2..n, Parent(j) = c
        PROVE  Over(b[Parent(c)], b[j])
    <2>1. c < j
      BY <1>5, ParentBefore
    <2>2. b[Parent(c)] = a[c] /\ b[j] = a[j]
      BY <1>1, <1>3, <2>1
    <2>3. Parent(j) >= k /\ Parent(j) # i
      BY <1>1, <1>5
    <2>4. Over(a[Parent(j)], a[j])
      BY <2>3 DEF DownReady
    <2>5. QED
      BY <1>5, <2>2, <2>4
  <1>6. QED
    BY <1>4, <1>5 DEF DownReady

\* Depth is the function its definition describes.
LEMMA DepthSolves ==
  /\ Depth \in [Nat -> Nat]
  /\ \A i \in Nat : Depth[i] = IF i <= 1 THEN 0 ELSE 1 + Depth[Parent(i)]
  <1> DEFINE Rise(f, i) == IF i <= 1 THEN 0 ELSE 1 + f[Parent(i)]
             D == [i \in Nat |-> [f \in [Nat -> Nat] |-> Rise(f, i)]]
             m == [i \in Nat |-> i]
  <1>1. \A i \in Nat : ~(i <= 1) => Parent(i) \in Nat /\ Parent(i) < i
    BY DEF Parent
  <1>2. ASSUME NEW i \in Nat, NEW f \in [Nat -> Nat]
        PROVE  Rise(f, i) \in Nat
    BY <1>1
  <1>3. D \in [Nat -> [[Nat -> Nat] -> Nat]]
    BY <1>2
  <1>4. \A i \in Nat : \A f \in [Nat -> Nat] : D[i][f] = Rise(f, i)
    OBVIOUS
  <1>5. m \in [Nat -> Nat] /\ \A i \in Nat : m[i] = i
    OBVIOUS
  <1> HIDE DEF D, m
  <1>6. Determined(D, Nat, Nat, m)
    <2>1. ASSUME NEW i \in Nat, NEW f \in [Nat -> Nat], NEW g \in [Nat -> Nat],
                 \A d \in Nat : m[d] < m[i] => f[d] = g[d]
          PROVE  D[i][f] = D[i][g]
      BY <1>1, <1>4, <1>5, <2>1
    <2>2. QED
      BY <1>3, <1>5, <2>1, Zenon DEF Determined
  <1>7. PICK f \in [Nat -> Nat] : \A i \in Nat : f[i] = D[i][f]
    <2> DEFINE S == Nat
    <2>1. S # {} /\ Determined(D, S, S, m)
      BY <1>6
    <2> HIDE DEF S
    <2>2. \E g \in [S -> S] : \A i \in S : g[i] = D[i][g]
      BY <2>1, SolutionExists
    <2>3. QED
      BY <2>2 DEF S
  <1>8. f = [i \in Nat |-> Rise(f, i)]
    <2>1. \A i \in Nat : f[i] = Rise(f, i)
      BY <1>4, <1>7
    <2>2. QED
      BY <2>1, Zenon
  <1>9. Depth = CHOOSE g : g = [i \in Nat |-> Rise(g, i)]
    BY DEF Depth
  <1>10. Depth = [i \in Nat |-> Rise(Depth, i)]
    BY <1>8, <1>9, Zenon
  <1>11. \A i \in Nat : Depth[i] = Rise(Depth, i)
    BY <1>10
  <1>12. \A i \in Nat : Depth[i] \in Nat
    <2> DEFINE P == {i \in Nat : Depth[i] \in Nat}
    <2>1. ASSUME NEW i \in Nat, \A l \in Nat : m[l] < m[i] => l \in P
          PROVE  i \in P
      <3>1. CASE i <= 1
        BY <1>11, <3>1
      <3>2. CASE ~(i <= 1)
        <4>1. Parent(i) \in Nat /\ m[Parent(i)] < m[i]
          BY <1>1, <1>5, <3>2
        <4>2. Depth[Parent(i)] \in Nat
          BY <2>1, <4>1
        <4>3. Depth[i] = 1 + Depth[Parent(i)]
          BY <1>11, <3>2
        <4>4. QED
          BY <4>2, <4>3
      <3>3. QED
        BY <3>1, <3>2
    <2>2. P = Nat
      <3>1. P \in SUBSET Nat
        OBVIOUS
      <3> HIDE DEF P
      <3>2. QED
        BY <1>5, <2>1, <3>1, ByMeasure
    <2>3. QED
      BY <2>2
  <1>13. QED
    BY <1>10, <1>11, <1>12

\* What is in order below the top is in order with the top, by a second a level.
LEMMA TopIsNearlyOldest ==
  ASSUME NEW n \in Nat, NEW a \in [1..n -> Nat], OrderedFrom(a, n, 1), NEW i \in 2..n
  PROVE  a[i] < a[1] + Depth[i] * Second
  <1> DEFINE S == 1..n
             m == [j \in S |-> j]
             Near(j) == j # 1 => a[j] < a[1] + Depth[j] * Second
             P == {j \in S : Near(j)}
  <1>1. m \in [S -> Nat]
    OBVIOUS
  <1>2. Second \in Nat
    BY SchedulerAssumption DEF SchedulerAssumption
  <1>3. ASSUME NEW j \in S, \A l \in S : m[l] < m[j] => l \in P, j # 1
        PROVE  a[j] < a[1] + Depth[j] * Second
    <2> DEFINE p == Parent(j)
    <2>1. j \in 2..n /\ p \in S /\ p < j /\ p >= 1
      BY <1>3, ParentBefore
    <2>2. a[j] < a[p] + Second
      BY <2>1 DEF OrderedFrom, Over
    <2>3. Depth[j] = 1 + Depth[p]
      BY <2>1, DepthSolves
    <2>4. p # 1 => a[p] < a[1] + Depth[p] * Second
      BY <1>3, <2>1
    <2>5. Depth[p] \in Nat /\ a[p] \in Nat /\ a[1] \in Nat /\ a[j] \in Nat
      BY <2>1, DepthSolves
    <2>6. p = 1 => Depth[p] = 0
      BY DepthSolves
    <2> DEFINE x == Depth[p]
    <2>7. (1 + x) * Second = x * Second + Second /\ x * Second \in Nat /\ 0 * Second = 0
      <3> HIDE DEF x
      <3>1. x \in Nat
        BY <2>5 DEF x
      <3>2. QED
        BY <1>2, <3>1
    <2>8. CASE p = 1
      <3>1. x = 0
        BY <2>6, <2>8
      <3> HIDE DEF x, p
      <3>2. a[j] < a[1] + (1 + x) * Second
        BY <1>2, <2>2, <2>5, <2>7, <2>8, <3>1
      <3>3. QED
        BY <2>3, <3>2 DEF x
    <2>9. CASE p # 1
      <3>1. a[p] < a[1] + x * Second
        BY <2>4, <2>9
      <3> DEFINE y == x * Second
                 z == (1 + x) * Second
      <3>2. a[p] < a[1] + y /\ z = y + Second /\ y \in Nat
        BY <2>7, <3>1
      <3> HIDE DEF x, y, z, p
      <3>3. a[j] < a[1] + z
        BY <1>2, <2>2, <2>5, <3>2
      <3>4. QED
        BY <2>3, <3>3 DEF x, z
    <2>10. QED
      BY <2>8, <2>9
  <1>4. P = S
    <2>1. P \in SUBSET S
      OBVIOUS
    <2>2. \A j \in S : (\A l \in S : m[l] < m[j] => l \in P) => j \in P
      BY <1>3
    <2> HIDE DEF P, m, S
    <2>3. QED
      BY <1>1, <2>1, <2>2, ByMeasure
  <1>5. i \in P /\ i # 1
    BY <1>4
  <1>6. QED
    BY <1>5

-----------------------------------------------------------------------------
(* What the sifts do to the order *)

Level == weight \in [Tasks -> Nat \ {0}] /\ \A t, u \in Tasks : weight[t] = weight[u]

Waits(h) == [i \in 1..Len(h) |-> h[i].waited]
Ordered(h) == OrderedFrom(Waits(h), Len(h), 1)

\* For some path, an entry that is to go up from i, or down from there.
Rising(a, n, i) == \E q : UpReady(a, n, i, q)
Sinking(a, n, i) == \E q : Hole(a, n, i, q)

LEMMA RisingStep ==
  ASSUME NEW n \in Nat, NEW a \in [1..n -> Nat], NEW b \in [1..n -> Nat], NEW i \in 2..n,
         Rising(a, n, i), Seconds(a[i]) > Seconds(a[Parent(i)]), Exchanged(a, b, n, i, Parent(i))
  PROVE  Rising(b, n, Parent(i))
  <1>1. PICK q : UpReady(a, n, i, q)
    BY DEF Rising
  <1>2. UpReady(b, n, Parent(i), q)
    BY <1>1, UpStep
  <1>3. QED
    BY <1>2 DEF Rising

LEMMA SinkingStep ==
  ASSUME NEW n \in Nat, NEW a \in [1..n -> Nat], NEW b \in [1..n -> Nat],
         NEW i \in 1..n, NEW c, Eldest(a, n, i, c), Sinking(a, n, i), Exchanged(a, b, n, i, c)
  PROVE  Sinking(b, n, c)
  <1>1. PICK q : Hole(a, n, i, q)
    BY DEF Sinking
  <1>2. Hole(b, n, c, q \cup {c})
    BY <1>1, HoleStep
  <1>3. QED
    BY <1>2 DEF Sinking

\* At a leaf the entry that went down is to go up.
LEMMA SunkRises ==
  ASSUME NEW n \in Nat, NEW a \in [1..n -> Nat], NEW i \in 1..n, Sinking(a, n, i),
         \A j \in 2..n : Parent(j) # i
  PROVE  Rising(a, n, i)
  <1>1. PICK q : Hole(a, n, i, q)
    BY DEF Sinking
  <1>2. UpReady(a, n, i, q)
    BY <1>1 DEF Hole, UpReady
  <1>3. QED
    BY <1>2 DEF Rising

\* An entry that went up as far as its parent lets it is in order.
LEMMA RisenOrdered ==
  ASSUME NEW n \in Nat, NEW a \in [1..n -> Nat], NEW i \in 1..n, Rising(a, n, i),
         i # 1 => Seconds(a[i]) <= Seconds(a[Parent(i)])
  PROVE  OrderedFrom(a, n, 1)
  <1>1. PICK q : UpReady(a, n, i, q)
    BY DEF Rising
  <1>2. ASSUME i # 1
        PROVE  Over(a[Parent(i)], a[i])
    <2>1. Parent(i) \in 1..n
      BY <1>2, ParentBefore
    <2>2. a[i] \in Nat /\ a[Parent(i)] \in Nat
      BY <2>1
    <2>3. Seconds(a[i]) \in Nat /\ Seconds(a[Parent(i)]) \in Nat
      BY <2>2, SecondsOver
    <2>4. Seconds(a[Parent(i)]) >= Seconds(a[i])
      BY <1>2, <2>3
    <2>5. QED
      BY <2>2, <2>4, SecondsOver
  <1>3. \A j \in 2..n : j # i => Over(a[Parent(j)], a[j])
    BY <1>1 DEF UpReady
  <1>4. QED
    BY <1>2, <1>3 DEF OrderedFrom

LEMMA WaitsTyped ==
  ASSUME NEW h \in Heaps
  PROVE  /\ Len(h) \in Nat /\ Waits(h) \in [1..Len(h) -> Nat]
         /\ \A i \in 1..Len(h) : Waits(h)[i] = h[i].waited /\ Waits(h)[i] <= MaxWait
  <1>1. ASSUME NEW i \in 1..Len(h)
        PROVE  h[i].waited \in Nat /\ h[i].waited <= MaxWait
    <2>1. h[i] \in Entries
      BY DEF Heaps
    <2>2. \A e \in Entries : e.waited \in Nat /\ e.waited <= MaxWait
      BY MaxWaitIsNat DEF Entries
    <2>3. QED
      BY <2>1, <2>2
  <1>2. QED
    BY <1>1 DEF Waits, Heaps

LEMMA SecondsTyped ==
  ASSUME NEW h \in Heaps, NEW i \in 1..Len(h)
  PROVE  Waits(h)[i] \in Nat /\ Seconds(Waits(h)[i]) \in Nat
  <1>1. Waits(h)[i] \in Nat
    BY WaitsTyped
  <1>2. QED
    BY <1>1, SecondsOver

LEMMA ProductsCompare ==
  ASSUME NEW w \in Nat \ {0}, NEW m \in Nat, NEW x \in Nat, NEW y \in Nat
  PROVE  w * (m + x) <= w * (m + y) <=> x <= y
  OBVIOUS

LEMMA ScoresAreSeconds ==
  ASSUME Level, NEW h \in Heaps, NEW i \in 1..Len(h), NEW j \in 1..Len(h)
  PROVE  scheduling_score(h[i]) <= scheduling_score(h[j])
         <=> Seconds(Waits(h)[i]) <= Seconds(Waits(h)[j])
  <1> DEFINE e == h[i]
             f == h[j]
             w == weight[e.task]
             x == Seconds(Waits(h)[i])
             y == Seconds(Waits(h)[j])
             m == Minute
  <1>1. e \in Entries /\ f \in Entries
    BY DEF Heaps
  <1>2. w \in Nat \ {0} /\ weight[f.task] = w
    <2> HIDE DEF e, f
    <2>1. QED
      BY <1>1 DEF Level, Entries
  <1>3. x \in Nat /\ y \in Nat /\ m \in Nat
    BY SecondsTyped, SchedulerAssumption DEF SchedulerAssumption
  <1>4. x = Seconds(e.waited) /\ y = Seconds(f.waited)
    BY WaitsTyped
  <1>5. scheduling_score(e) = w * (m + x) /\ scheduling_score(f) = w * (m + y)
    <2>1. scheduling_score(e) = weight[e.task] * (Minute + e.waited \div Second)
          /\ scheduling_score(f) = weight[f.task] * (Minute + f.waited \div Second)
      BY Zenon DEF scheduling_score
    <2>2. Seconds(e.waited) = e.waited \div Second /\ Seconds(f.waited) = f.waited \div Second
      BY Zenon DEF Seconds
    <2>3. weight[f.task] = w
      BY <1>2
    <2> HIDE DEF x, y
    <2>4. QED
      BY <1>4, <2>1, <2>2, <2>3, Zenon
  <1> HIDE DEF x, y, w, e, f, m
  <1>6. w * (m + x) <= w * (m + y) <=> x <= y
    BY <1>2, <1>3, ProductsCompare
  <1>7. scheduling_score(e) <= scheduling_score(f) <=> x <= y
    BY <1>5, <1>6
  <1>8. QED
    BY <1>7 DEF e, f, x, y

LEMMA SwappedExchanges ==
  ASSUME NEW h \in Heaps, NEW i \in 1..Len(h), NEW j \in 1..Len(h)
  PROVE  /\ Swapped(h, i, j) \in Heaps /\ Len(Swapped(h, i, j)) = Len(h)
         /\ Exchanged(Waits(h), Waits(Swapped(h, i, j)), Len(h), i, j)
  <1> DEFINE g == Swapped(h, i, j)
  <1>1. g \in Heaps /\ Len(g) = Len(h)
    BY SwappedKeeps DEF Kept
  <1>2. \A k \in 1..Len(h) : g[k] = IF k = i THEN h[j] ELSE IF k = j THEN h[i] ELSE h[k]
    BY DEF Heaps, Swapped
  <1> HIDE DEF g
  <1>3. \A k \in 1..Len(h) : Waits(g)[k] = g[k].waited /\ Waits(h)[k] = h[k].waited
    BY <1>1, WaitsTyped
  <1>4. Exchanged(Waits(h), Waits(g), Len(h), i, j)
    BY <1>2, <1>3 DEF Exchanged
  <1>5. QED
    BY <1>1, <1>4 DEF g

LEMMA UpOrders ==
  ASSUME Level
  PROVE  \A c \in Cursors :
           Rising(Waits(c[1]), Len(c[1]), c[2]) => OrderedFrom(Waits(sift_up[c]), Len(c[1]), 1)
  <1> DEFINE Good(c) == Rising(Waits(c[1]), Len(c[1]), c[2])
                        => OrderedFrom(Waits(sift_up[c]), Len(c[1]), 1)
             P == {c \in Cursors : Good(c)}
  <1>1. ASSUME NEW c \in Cursors, \A d \in Cursors : Height[d] < Height[c] => d \in P,
               Rising(Waits(c[1]), Len(c[1]), c[2])
        PROVE  OrderedFrom(Waits(sift_up[c]), Len(c[1]), 1)
    <2> DEFINE h == c[1]
               i == c[2]
               n == Len(h)
               p == Parent(i)
               g == Swapped(h, i, p)
               d == Above(c)
    <2>1. sift_up[c] = UpFrom(sift_up, c) /\ h \in Heaps /\ i \in 1..n /\ n \in Nat
      BY UpSolves, CursorParts DEF Heaps
    <2>2. Waits(h) \in [1..n -> Nat]
      BY <2>1, WaitsTyped
    <2>3. CASE i = 1
      <3>1. sift_up[c] = h
        BY <2>1, <2>3 DEF UpFrom
      <3>2. Rising(Waits(h), n, i)
        BY <1>1
      <3> HIDE DEF h, i, n
      <3>3. OrderedFrom(Waits(h), n, 1)
        BY <2>1, <2>2, <2>3, <3>2, RisenOrdered
      <3>4. QED
        BY <3>1, <3>3 DEF h, n
    <2>4. CASE i # 1
      <3>1. i \in 2..n /\ p \in 1..n /\ p < i
        BY <2>1, <2>4, ParentBefore
      <3>2. scheduling_score(h[i]) <= scheduling_score(h[p])
            <=> Seconds(Waits(h)[i]) <= Seconds(Waits(h)[p])
        BY <2>1, <3>1, ScoresAreSeconds
      <3>3. Seconds(Waits(h)[i]) \in Nat /\ Seconds(Waits(h)[p]) \in Nat
        BY <2>1, <3>1, SecondsTyped
      <3>4. CASE Seconds(Waits(h)[i]) <= Seconds(Waits(h)[p])
        <4>1. sift_up[c] = h
          BY <2>1, <3>2, <3>4 DEF UpFrom
        <4>2. Rising(Waits(h), n, i)
          BY <1>1
        <4> HIDE DEF h, i, n
        <4>3. OrderedFrom(Waits(h), n, 1)
          BY <2>1, <2>2, <3>4, <4>2, RisenOrdered DEF p
        <4>4. QED
          BY <4>1, <4>3 DEF h, n
      <3>5. CASE ~(Seconds(Waits(h)[i]) <= Seconds(Waits(h)[p]))
        <4>1. sift_up[c] = sift_up[d]
          BY <2>1, <2>4, <3>2, <3>5 DEF UpFrom
        <4>2. d \in Cursors /\ Height[d] < Height[c]
          BY <2>4, AboveGoesUp
        <4>3. d[1] = g /\ d[2] = p
          BY DEF Above
        <4>4. g \in Heaps /\ Len(g) = n /\ Exchanged(Waits(h), Waits(g), n, i, p)
          BY <2>1, <3>1, SwappedExchanges
        <4> HIDE DEF d, g, h, i, n
        <4>5. Waits(g) \in [1..n -> Nat]
          BY <4>4, WaitsTyped
        <4>6. Seconds(Waits(h)[i]) > Seconds(Waits(h)[p])
          BY <3>3, <3>5
        <4>7. Rising(Waits(h), n, i)
          BY <1>1 DEF h, i, n
        <4>8. Rising(Waits(g), n, p)
          BY <2>1, <2>2, <3>1, <4>4, <4>5, <4>6, <4>7, RisingStep
        <4>9. d \in P
          BY <1>1, <4>2
        <4>10. Rising(Waits(d[1]), Len(d[1]), d[2])
               => OrderedFrom(Waits(sift_up[d]), Len(d[1]), 1)
          BY <4>9
        <4>11. OrderedFrom(Waits(sift_up[d]), n, 1)
          BY <4>3, <4>4, <4>8, <4>10
        <4>12. QED
          BY <4>1, <4>11 DEF h, n
      <3>6. QED
        BY <3>4, <3>5
    <2>5. QED
      BY <2>3, <2>4
  <1>2. P = Cursors
    <2>1. P \in SUBSET Cursors
      OBVIOUS
    <2>2. \A c \in Cursors : (\A d \in Cursors : Height[d] < Height[c] => d \in P) => c \in P
      BY <1>1
    <2> HIDE DEF P
    <2>3. QED
      BY <2>1, <2>2, HeightIsNat, ByMeasure
  <1>3. QED
    BY <1>2

LEMMA ChildIsOldest ==
  ASSUME Level, NEW h \in Heaps, NEW i \in 1..Len(h), 2 * i <= Len(h)
  PROVE  Eldest(Waits(h), Len(h), i, GreaterChild(h, i))
  <1> DEFINE n == Len(h)
             l == 2 * i
             r == 2 * i + 1
             c == GreaterChild(h, i)
             right == r <= n /\ scheduling_score(h[l]) <= scheduling_score(h[r])
  <1>1. n \in Nat /\ Waits(h) \in [1..n -> Nat] /\ l \in 1..n
    BY WaitsTyped
  <1>2. c = IF right THEN r ELSE l
    BY DEF GreaterChild
  <1>3. r <= n => (right <=> Seconds(Waits(h)[l]) <= Seconds(Waits(h)[r]))
    <2>1. ASSUME r <= n
          PROVE  scheduling_score(h[l]) <= scheduling_score(h[r]) <=> Seconds(Waits(h)[l]) <= Seconds(Waits(h)[r])
      <3>1. r \in 1..n
        BY <1>1, <2>1
      <3> HIDE DEF l, r
      <3>2. QED
        BY <1>1, <3>1, ScoresAreSeconds
    <2>2. QED
      BY <2>1
  <1>4. c \in 1..n /\ i < c
    BY ChildInRange
  <1>5. c = l \/ c = r
    BY <1>2
  <1> HIDE DEF right, c
  <1>6. Parent(c) = i
    BY <1>4, <1>5, ParentsOf
  <1>7. ASSUME NEW j \in 2..n, Parent(j) = i
        PROVE  Seconds(Waits(h)[c]) >= Seconds(Waits(h)[j])
    <2>1. j = l \/ j = r
      BY <1>7, ParentsOf
    <2>2. r > n => ~right
      BY <1>1 DEF right
    <2>3. Seconds(Waits(h)[l]) \in Nat /\ (r <= n => Seconds(Waits(h)[r]) \in Nat)
      <3>1. r <= n => r \in 1..n
        BY <1>1
      <3> HIDE DEF l, r
      <3>2. QED
        BY <1>1, <3>1, SecondsTyped
    <2> HIDE DEF l, r
    <2>4. CASE right
      <3>1. r <= n
        BY <2>4 DEF right
      <3>2. QED
        BY <1>2, <1>3, <2>1, <2>3, <2>4, <3>1
    <2>5. CASE ~right
      BY <1>2, <1>3, <2>1, <2>3, <2>5
    <2>6. QED
      BY <2>4, <2>5
  <1>8. QED
    BY <1>4, <1>6, <1>7 DEF c, Eldest

\* One level down, at the child that is as old as the other.
LEMMA BelowExchanges ==
  ASSUME Level, NEW c \in Cursors, 2 * c[2] <= Len(c[1])
  PROVE  LET h == c[1]
             i == c[2]
             d == Below(c)
             k == GreaterChild(h, i)
         IN  /\ d[2] = k /\ k \in 1..Len(h) /\ i < k /\ Eldest(Waits(h), Len(h), i, k)
             /\ d[1] \in Heaps /\ Len(d[1]) = Len(h)
             /\ Exchanged(Waits(h), Waits(d[1]), Len(h), i, k)
  <1> DEFINE h == c[1]
             i == c[2]
             k == GreaterChild(h, i)
             g == Swapped(h, i, k)
  <1>1. h \in Heaps /\ i \in 1..Len(h)
    BY CursorParts
  <1>2. Below(c)[1] = g /\ Below(c)[2] = k
    BY DEF Below
  <1>3. k \in 1..Len(h) /\ i < k /\ Eldest(Waits(h), Len(h), i, k)
    BY <1>1, ChildIsOldest, ChildInRange
  <1>4. g \in Heaps /\ Len(g) = Len(h) /\ Exchanged(Waits(h), Waits(g), Len(h), i, k)
    BY <1>1, <1>3, SwappedExchanges
  <1>5. QED
    BY <1>2, <1>3, <1>4

LEMMA BottomOrders ==
  ASSUME Level
  PROVE  \A c \in Cursors :
           Sinking(Waits(c[1]), Len(c[1]), c[2])
             => OrderedFrom(Waits(sift_down_to_bottom[c]), Len(c[1]), 1)
  <1> DEFINE Good(c) == Sinking(Waits(c[1]), Len(c[1]), c[2])
                        => OrderedFrom(Waits(sift_down_to_bottom[c]), Len(c[1]), 1)
             P == {c \in Cursors : Good(c)}
  <1>1. ASSUME NEW c \in Cursors, \A d \in Cursors : Room[d] < Room[c] => d \in P,
               Sinking(Waits(c[1]), Len(c[1]), c[2])
        PROVE  OrderedFrom(Waits(sift_down_to_bottom[c]), Len(c[1]), 1)
    <2> DEFINE h == c[1]
               i == c[2]
               n == Len(h)
               d == Below(c)
               k == GreaterChild(h, i)
    <2>1. /\ sift_down_to_bottom[c] = BottomFrom(sift_down_to_bottom, c)
          /\ h \in Heaps /\ i \in 1..n /\ n \in Nat
      BY BottomSolves, CursorParts DEF Heaps
    <2>2. Waits(h) \in [1..n -> Nat]
      BY <2>1, WaitsTyped
    <2>3. CASE 2 * i > n
      <3>1. sift_down_to_bottom[c] = sift_up[c]
        BY <2>1, <2>3 DEF BottomFrom
      <3>2. \A j \in 2..n : Parent(j) # i
        BY <2>1, <2>3, ParentsOf
      <3>3. Sinking(Waits(h), n, i)
        BY <1>1
      <3> DEFINE a == Waits(h)
      <3>4. Rising(a, n, i)
        <4>1. a \in [1..n -> Nat] /\ Sinking(a, n, i)
          BY <2>2, <3>3
        <4> HIDE DEF a, h, i, n
        <4>2. QED
          BY <2>1, <3>2, <4>1, SunkRises
      <3>5. QED
        BY <3>1, <3>4, UpOrders
    <2>4. CASE 2 * i <= n
      <3>1. sift_down_to_bottom[c] = sift_down_to_bottom[d]
        BY <2>1, <2>4 DEF BottomFrom
      <3>2. d \in Cursors /\ Room[d] < Room[c]
        BY <2>4, BelowGoesDown
      <3>3. /\ d[2] = k /\ k \in 1..n /\ i < k
            /\ d[1] \in Heaps /\ Len(d[1]) = n /\ Eldest(Waits(h), n, i, k)
            /\ Exchanged(Waits(h), Waits(d[1]), n, i, k)
        BY <2>4, BelowExchanges
      <3>4. Sinking(Waits(h), n, i)
        BY <1>1
      <3> HIDE DEF d, h, i, n, k
      <3>5. Waits(d[1]) \in [1..n -> Nat]
        BY <3>3, WaitsTyped
      <3>6. Sinking(Waits(d[1]), n, k)
        <4> DEFINE a == Waits(h)
                   b == Waits(d[1])
        <4>1. /\ n \in Nat /\ i \in 1..n /\ a \in [1..n -> Nat] /\ b \in [1..n -> Nat]
              /\ Eldest(a, n, i, k) /\ Sinking(a, n, i) /\ Exchanged(a, b, n, i, k)
          BY <2>1, <2>2, <3>3, <3>4, <3>5
        <4> HIDE DEF a, b
        <4>2. Sinking(b, n, k)
          BY <4>1, SinkingStep
        <4>3. QED
          BY <4>2 DEF b
      <3>7. d \in P
        BY <1>1, <3>2
      <3>8. Sinking(Waits(d[1]), Len(d[1]), d[2])
            => OrderedFrom(Waits(sift_down_to_bottom[d]), Len(d[1]), 1)
        BY <3>7
      <3>9. OrderedFrom(Waits(sift_down_to_bottom[d]), n, 1)
        BY <3>3, <3>6, <3>8
      <3>10. QED
        BY <3>1, <3>9 DEF h, n
    <2>5. QED
      BY <2>1, <2>3, <2>4
  <1>2. P = Cursors
    <2>1. P \in SUBSET Cursors
      OBVIOUS
    <2>2. \A c \in Cursors : (\A d \in Cursors : Room[d] < Room[c] => d \in P) => c \in P
      BY <1>1
    <2> HIDE DEF P
    <2>3. QED
      BY <2>1, <2>2, RoomIsNat, ByMeasure
  <1>3. QED
    BY <1>2

LEMMA DownOrders ==
  ASSUME Level, NEW from \in Nat
  PROVE  \A c \in Cursors :
           from <= c[2] /\ DownReady(Waits(c[1]), Len(c[1]), from, c[2])
             => OrderedFrom(Waits(sift_down[c]), Len(c[1]), from)
  <1> DEFINE Good(c) == from <= c[2] /\ DownReady(Waits(c[1]), Len(c[1]), from, c[2])
                        => OrderedFrom(Waits(sift_down[c]), Len(c[1]), from)
             P == {c \in Cursors : Good(c)}
  <1>1. ASSUME NEW c \in Cursors, \A d \in Cursors : Room[d] < Room[c] => d \in P,
               from <= c[2], DownReady(Waits(c[1]), Len(c[1]), from, c[2])
        PROVE  OrderedFrom(Waits(sift_down[c]), Len(c[1]), from)
    <2> DEFINE h == c[1]
               i == c[2]
               n == Len(h)
               d == Below(c)
               k == GreaterChild(h, i)
    <2>1. /\ sift_down[c] = DownFrom(sift_down, c)
          /\ h \in Heaps /\ i \in 1..n /\ n \in Nat
      BY DownSolves, CursorParts DEF Heaps
    <2>2. Waits(h) \in [1..n -> Nat]
      BY <2>1, WaitsTyped
    <2>3. CASE 2 * i > n
      <3>1. sift_down[c] = h
        BY <2>1, <2>3 DEF DownFrom
      <3>2. \A j \in 2..n : Parent(j) # i
        BY <2>1, <2>3, ParentsOf
      <3>3. QED
        BY <1>1, <3>1, <3>2 DEF DownReady, OrderedFrom
    <2>4. CASE 2 * i <= n
      <3>1. /\ d[2] = k /\ k \in 1..n /\ i < k
            /\ d[1] \in Heaps /\ Len(d[1]) = n /\ Eldest(Waits(h), n, i, k)
            /\ Exchanged(Waits(h), Waits(d[1]), n, i, k)
        BY <2>4, BelowExchanges
      <3>2. d \in Cursors /\ Room[d] < Room[c]
        BY <2>4, BelowGoesDown
      <3>3. DownReady(Waits(h), n, from, i)
        BY <1>1
      <3>4. /\ Seconds(Waits(h)[i]) \in Nat /\ Seconds(Waits(h)[k]) \in Nat
            /\ \A j \in 1..n : Waits(h)[j] \in Nat /\ Seconds(Waits(h)[j]) \in Nat
        BY <2>1, <3>1, SecondsTyped
      <3>5. CASE Seconds(Waits(h)[i]) >= Seconds(Waits(h)[k])
        <4>0. scheduling_score(h[k]) <= scheduling_score(h[i])
              <=> Seconds(Waits(h)[k]) <= Seconds(Waits(h)[i])
          BY <2>1, <3>1, ScoresAreSeconds
        <4>1. scheduling_score(h[k]) <= scheduling_score(h[i])
          BY <3>4, <3>5, <4>0
        <4>2. scheduling_score(h[i]) >= scheduling_score(h[k])
          BY <4>1
        <4>3. sift_down[c] = h
          BY <2>1, <4>2 DEF DownFrom
        <4>4. ASSUME NEW j \in 2..n, Parent(j) = i
              PROVE  Over(Waits(h)[i], Waits(h)[j])
          <5>1. Seconds(Waits(h)[k]) >= Seconds(Waits(h)[j])
            BY <3>1, <4>4 DEF Eldest
          <5>2. j \in 1..n
            BY <2>1
          <5> HIDE DEF h, i, n, k
          <5>3. Seconds(Waits(h)[i]) >= Seconds(Waits(h)[j])
            BY <3>4, <3>5, <5>1, <5>2
          <5>4. QED
            BY <2>1, <3>4, <5>2, <5>3, SecondsOver
        <4>5. OrderedFrom(Waits(h), n, from)
          BY <3>3, <4>4 DEF DownReady, OrderedFrom
        <4>6. QED
          BY <4>3, <4>5
      <3>6. CASE Seconds(Waits(h)[i]) < Seconds(Waits(h)[k])
        <4>0. scheduling_score(h[k]) <= scheduling_score(h[i])
              <=> Seconds(Waits(h)[k]) <= Seconds(Waits(h)[i])
          BY <2>1, <3>1, ScoresAreSeconds
        <4>1. ~(scheduling_score(h[k]) <= scheduling_score(h[i]))
          BY <3>4, <3>6, <4>0
        <4>2. ~(scheduling_score(h[i]) >= scheduling_score(h[k]))
          BY <4>1
        <4>3. sift_down[c] = sift_down[d]
          BY <2>1, <2>4, <4>2 DEF DownFrom
        <4>4. d \in P
          BY <1>1, <3>2
        <4>5. from <= d[2] /\ DownReady(Waits(d[1]), Len(d[1]), from, d[2])
              => OrderedFrom(Waits(sift_down[d]), Len(d[1]), from)
          BY <4>4
        <4>6. from <= i
          BY <1>1
        <4> HIDE DEF d, h, i, n, k
        <4>7. Waits(d[1]) \in [1..n -> Nat]
          BY <3>1, WaitsTyped
        <4>8. Seconds(Waits(h)[k]) > Seconds(Waits(h)[i])
          BY <3>4, <3>6
        <4>9. DownReady(Waits(d[1]), n, from, k)
          <5> DEFINE a == Waits(h)
                     b == Waits(d[1])
          <5>1. /\ n \in Nat /\ i \in 1..n /\ from <= i /\ Seconds(a[k]) > Seconds(a[i])
                /\ a \in [1..n -> Nat] /\ b \in [1..n -> Nat]
                /\ Eldest(a, n, i, k) /\ DownReady(a, n, from, i) /\ Exchanged(a, b, n, i, k)
            BY <2>1, <2>2, <3>1, <3>3, <4>6, <4>7, <4>8
          <5> HIDE DEF a, b
          <5>2. DownReady(b, n, from, k)
            BY <5>1, DownStep
          <5>3. QED
            BY <5>2 DEF b
        <4>10. from <= k
          BY <2>1, <3>1, <4>6
        <4>11. OrderedFrom(Waits(sift_down[d]), n, from)
          BY <3>1, <4>5, <4>9, <4>10
        <4>12. QED
          BY <4>3, <4>11 DEF h, n
      <3>7. QED
        BY <3>4, <3>5, <3>6
    <2>5. QED
      BY <2>1, <2>3, <2>4
  <1>2. P = Cursors
    <2>1. P \in SUBSET Cursors
      OBVIOUS
    <2>2. \A c \in Cursors : (\A d \in Cursors : Room[d] < Room[c] => d \in P) => c \in P
      BY <1>1
    <2> HIDE DEF P
    <2>3. QED
      BY <2>1, <2>2, RoomIsNat, ByMeasure
  <1>3. QED
    BY <1>2

\* One sift of the rebuild puts one more subtree in order.
LEMMA SiftExtendsOrder ==
  ASSUME Level, NEW c \in Cursors, OrderedFrom(Waits(c[1]), Len(c[1]), c[2] + 1)
  PROVE  OrderedFrom(Waits(sift_down[c]), Len(c[1]), c[2])
  <1> DEFINE i == c[2]
             n == Len(c[1])
             a == Waits(c[1])
  <1>1. i \in 1..n /\ n \in Nat /\ i \in Nat
    BY CursorParts DEF Heaps
  <1>2. DownReady(a, n, i, i)
    <2> SUFFICES ASSUME NEW j \in 2..n
                 PROVE  /\ Parent(j) >= i /\ Parent(j) # i => Over(a[Parent(j)], a[j])
                        /\ Parent(j) = i /\ i # 1 /\ Parent(i) >= i => Over(a[Parent(i)], a[j])
      BY Zenon DEF DownReady
    <2>1. Parent(j) \in Nat
      BY <1>1, ParentBefore
    <2>2. Parent(j) >= i /\ Parent(j) # i => Parent(j) >= i + 1
      BY <1>1, <2>1
    <2>3. i # 1 => ~(Parent(i) >= i)
      BY <1>1, ParentsOf
    <2>4. OrderedFrom(a, n, i + 1)
      OBVIOUS
    <2> HIDE DEF a, n, i
    <2>5. QED
      BY <2>2, <2>3, <2>4 DEF OrderedFrom
  <1>3. i <= i /\ i \in Nat
    BY <1>1
  <1>4. QED
    BY <1>2, <1>3, DownOrders

LEMMA BuildOrders ==
  ASSUME Level
  PROVE  \A c \in Building :
           OrderedFrom(Waits(c[1]), Len(c[1]), c[2] + 1)
             => OrderedFrom(Waits(Rebuilt[c]), Len(c[1]), 1)
  <1> DEFINE Good(c) == OrderedFrom(Waits(c[1]), Len(c[1]), c[2] + 1)
                        => OrderedFrom(Waits(Rebuilt[c]), Len(c[1]), 1)
             P == {c \in Building : Good(c)}
  <1>1. ASSUME NEW c \in Building, \A d \in Building : Left[d] < Left[c] => d \in P,
               OrderedFrom(Waits(c[1]), Len(c[1]), c[2] + 1)
        PROVE  OrderedFrom(Waits(Rebuilt[c]), Len(c[1]), 1)
    <2> DEFINE h == c[1]
               i == c[2]
               g == sift_down[c]
               d == <<g, i - 1>>
    <2>1. Rebuilt[c] = BuildFrom(Rebuilt, c) /\ h \in Heaps /\ i \in Nat
      BY BuildSolves, BuildingParts
    <2>2. CASE i = 0
      <3>1. Rebuilt[c] = h /\ i + 1 = 1
        BY <2>1, <2>2 DEF BuildFrom
      <3>2. QED
        BY <1>1, <3>1
    <2>3. CASE i # 0
      <3>1. Rebuilt[c] = Rebuilt[d]
        BY <2>1, <2>3 DEF BuildFrom
      <3>2. d \in Building /\ Left[d] < Left[c]
        BY <2>3, BuildGoesOn
      <3>3. c \in Cursors
        BY <2>3, BuildingParts
      <3>4. OrderedFrom(Waits(g), Len(h), i) /\ Len(g) = Len(h)
        BY <1>1, <3>3, SiftExtendsOrder, DownKeeps DEF Kept
      <3>5. d[1] = g /\ d[2] + 1 = i
        BY <2>1
      <3> HIDE DEF d, g, h, i
      <3>6. d \in P
        BY <1>1, <3>2
      <3>7. OrderedFrom(Waits(d[1]), Len(d[1]), d[2] + 1)
            => OrderedFrom(Waits(Rebuilt[d]), Len(d[1]), 1)
        BY <3>6
      <3>8. OrderedFrom(Waits(Rebuilt[d]), Len(h), 1)
        BY <3>4, <3>5, <3>7
      <3>9. QED
        BY <3>1, <3>8 DEF h
    <2>4. QED
      BY <2>2, <2>3
  <1>2. P = Building
    <2>1. P \in SUBSET Building
      OBVIOUS
    <2>2. \A c \in Building : (\A d \in Building : Left[d] < Left[c] => d \in P) => c \in P
      BY <1>1
    <2> HIDE DEF P
    <2>3. QED
      BY <2>1, <2>2, LeftIsNat, ByMeasure
  <1>3. QED
    BY <1>2

\* Whatever the drain leaves, the rebuild orders it.
LEMMA CancelOrders ==
  ASSUME Level, NEW h \in Heaps, NEW id \in Ids
  PROVE  Ordered(WithoutTask(h, id))
  <1> DEFINE g == Drained[<<h, id>>]
             n == Len(g)
             i == n \div 2
             f == Rebuilt[<<g, i>>]
  <1>1. g \in Heaps
    <2> DEFINE c == <<h, id>>
    <2>1. c \in Draining
      BY DrainingParts
    <2> HIDE DEF c
    <2>2. Drained[c] \in Heaps
      BY <2>1, DrainCancels DEF Cancelled
    <2>3. QED
      BY <2>2 DEF c
  <1> HIDE DEF g
  <1>2. n \in Nat
    BY <1>1 DEF Heaps
  <1> HIDE DEF n
  <1>3. i \in Nat /\ i <= n
    BY <1>2
  <1>4. OrderedFrom(Waits(g), n, i + 1)
    <2>1. \A j \in 2..n : ~(Parent(j) >= i + 1)
      BY <1>2 DEF Parent
    <2>2. QED
      BY <2>1 DEF OrderedFrom
  <1> HIDE DEF i
  <1> DEFINE c == <<g, i>>
  <1>5. c \in Building /\ c[1] = g /\ c[2] = i
    BY <1>1, <1>3, BuildingParts DEF n
  <1> HIDE DEF c
  <1>6. OrderedFrom(Waits(Rebuilt[c]), n, 1) /\ Len(Rebuilt[c]) = n
    BY <1>4, <1>5, BuildOrders, BuildKeeps DEF n, Kept
  <1>7. WithoutTask(h, id) = Rebuilt[c]
    BY DEF WithoutTask, g, n, i, c
  <1>8. QED
    BY <1>6, <1>7 DEF Ordered

LEMMA PushOrders ==
  ASSUME Level, NEW h \in Heaps, Ordered(h), NEW t \in Tasks
  PROVE  Ordered(Push(h, t))
  <1> DEFINE e == [task |-> t, waited |-> 0]
             g == Append(h, e)
             n == Len(h)
             c == <<g, n + 1>>
  <1>1. e \in Entries
    BY MaxWaitIsNat DEF Entries
  <1> HIDE DEF e
  <1>2. /\ n \in Nat /\ g \in Heaps /\ Len(g) = n + 1
        /\ \A k \in 1..n : g[k] = h[k]
    BY <1>1 DEF Heaps
  <1>3. c \in Cursors /\ c[1] = g /\ c[2] = n + 1
    <2> HIDE DEF g, n
    <2>1. n + 1 \in 1..Len(g)
      BY <1>2
    <2>2. QED
      BY <1>2, <2>1, CursorParts
  <1>4. sift_up[c] = g
    <2>1. sift_up[c] = UpFrom(sift_up, c)
      BY <1>3, UpSolves
    <2>2. CASE n = 0
      BY <1>3, <2>1, <2>2 DEF UpFrom
    <2>3. CASE n # 0
      <3> HIDE DEF g, n, c
      <3>1. n + 1 \in 2..(n + 1) /\ n + 1 \in Nat
        BY <1>2, <2>3
      <3>2. Parent(n + 1) \in 1..(n + 1)
        BY <3>1, ParentBefore
      <3>3. Waits(g)[n + 1] = 0
        <4>1. Waits(g)[n + 1] = g[n + 1].waited
          BY <1>2, <3>1, WaitsTyped
        <4>2. g[n + 1] = e
          BY <1>2 DEF g, n, Heaps
        <4>3. QED
          BY <4>1, <4>2 DEF e
      <3>4. Seconds(0) = 0
        <4>1. Second \in Nat \ {0}
          BY SchedulerAssumption DEF SchedulerAssumption
        <4>2. QED
          BY <4>1 DEF Seconds
      <3>5. Seconds(Waits(g)[Parent(n + 1)]) \in Nat
        BY <1>2, <3>2, SecondsTyped
      <3>6. Seconds(Waits(g)[n + 1]) <= Seconds(Waits(g)[Parent(n + 1)])
        BY <3>3, <3>4, <3>5
      <3>7. scheduling_score(g[n + 1]) <= scheduling_score(g[Parent(n + 1)])
        BY <1>2, <3>1, <3>2, <3>6, ScoresAreSeconds
      <3>8. QED
        BY <1>3, <2>1, <3>7 DEF UpFrom
    <2>4. QED
      BY <2>2, <2>3
  <1>5. OrderedFrom(Waits(g), n + 1, 1)
    <2>1. \A k \in 1..n : Waits(g)[k] = Waits(h)[k]
      <3>1. Len(h) = n
        OBVIOUS
      <3> HIDE DEF g, n
      <3>2. \A k \in 1..(n + 1) : Waits(g)[k] = g[k].waited
        BY <1>2, WaitsTyped
      <3>3. \A k \in 1..n : Waits(h)[k] = h[k].waited
        BY <3>1, WaitsTyped
      <3>4. QED
        BY <1>2, <3>2, <3>3
    <2>2. Waits(g)[n + 1] = 0
      <3>1. g[n + 1] = e
        BY <1>2 DEF Heaps
      <3> HIDE DEF g, n
      <3>2. Waits(g)[n + 1] = g[n + 1].waited
        BY <1>2, WaitsTyped
      <3>3. QED
        BY <3>1, <3>2 DEF e
    <2> SUFFICES ASSUME NEW j \in 2..(n + 1)
                 PROVE  Over(Waits(g)[Parent(j)], Waits(g)[j])
      BY DEF OrderedFrom
    <2> HIDE DEF g, n
    <2>3. Parent(j) \in Nat /\ 1 <= Parent(j) /\ Parent(j) < j
      BY <1>2, ParentsOf
    <2>4. CASE j # n + 1
      <3>1. j \in 2..n /\ Parent(j) \in 1..n /\ j \in 1..n
        BY <1>2, <2>3, <2>4
      <3>2. Over(Waits(h)[Parent(j)], Waits(h)[j])
        BY <2>3, <3>1 DEF Ordered, OrderedFrom, n
      <3>3. QED
        BY <2>1, <3>1, <3>2
    <2>5. CASE j = n + 1
      <3>1. Parent(j) \in 1..(n + 1)
        BY <1>2, <2>3
      <3>2. Waits(g)[Parent(j)] \in Nat
        BY <1>2, <3>1, SecondsTyped
      <3>3. Over(Waits(g)[Parent(j)], 0)
        BY <3>2, OverOlder
      <3>4. QED
        BY <2>2, <2>5, <3>3
    <2>6. QED
      BY <2>4, <2>5
  <1>6. Push(h, t) = sift_up[c]
    BY DEF Push, c, g, e, n
  <1> HIDE DEF c, g, n
  <1>7. QED
    BY <1>2, <1>4, <1>5, <1>6 DEF Ordered

LEMMA PopOrders ==
  ASSUME Level, NEW h \in Heaps, h # <<>>, Ordered(h)
  PROVE  Ordered(PopRest(h))
  <1> DEFINE n == Len(h) - 1
             last == h[Len(h)]
             rest == SubSeq(h, 1, n)
             g == [rest EXCEPT ![1] = last]
  <1>1. Len(h) \in Nat /\ Len(h) >= 1 /\ n \in Nat /\ n + 1 = Len(h)
    BY DEF Heaps
  <1>2. rest \in Heaps /\ Len(rest) = n /\ \A k \in 1..n : rest[k] = h[k]
    <2>1. \A k \in 1..n : h[k] \in Entries
      BY <1>1 DEF Heaps
    <2> HIDE DEF n
    <2>2. /\ SubSeq(h, 1, n) \in Seq(Entries)
          /\ Len(SubSeq(h, 1, n)) = IF 1 <= n THEN n - 1 + 1 ELSE 0
          /\ \A k \in 1..(n - 1 + 1) : SubSeq(h, 1, n)[k] = h[1 + k - 1]
      BY <1>1, <2>1, SubSeqProperties
    <2>3. QED
      BY <1>1, <2>2 DEF Heaps
  <1>3. CASE n = 0
    <2>1. rest = <<>>
      <3> HIDE DEF rest, n
      <3>1. QED
        BY <1>2, <1>3, EmptySeq DEF Heaps
    <2>2. PopRest(h) = rest
      BY <2>1 DEF PopRest
    <2>3. \A j \in 2..n : FALSE
      <3> HIDE DEF n
      <3>1. QED
        BY <1>3
    <2>4. OrderedFrom(Waits(rest), n, 1)
      BY <2>3 DEF OrderedFrom
    <2>5. QED
      BY <1>2, <2>2, <2>4 DEF Ordered
  <1>4. CASE n # 0
    <2>1. rest # <<>>
      BY <1>2, <1>4 DEF Heaps
    <2>2. /\ g \in Heaps /\ Len(g) = n
          /\ \A k \in 1..n : k # 1 => g[k] = h[k]
      <3>1. last \in Entries
        BY <1>1 DEF Heaps
      <3> HIDE DEF rest, n, last
      <3>2. 1 \in 1..Len(rest)
        BY <1>1, <1>2, <1>4
      <3>3. /\ g \in Seq(Entries) /\ Len(g) = Len(rest)
            /\ \A k \in 1..Len(rest) : g[k] = IF k = 1 THEN last ELSE rest[k]
        BY <1>2, <3>1, <3>2, ExceptSeq DEF Heaps
      <3> HIDE DEF g
      <3>4. QED
        BY <1>2, <3>3 DEF Heaps
    <2>3. PopRest(h) = sift_down_to_bottom[<<g, 1>>]
      BY <2>1 DEF PopRest
    <2> HIDE DEF g, rest, last, n
    <2>4. /\ \A k \in 1..n : Waits(g)[k] = g[k].waited
          /\ \A k \in 1..(n + 1) : Waits(h)[k] = h[k].waited
      BY <1>1, <2>2, WaitsTyped
    <2>5. \A k \in 1..n : k # 1 => Waits(g)[k] = Waits(h)[k]
      BY <1>1, <2>2, <2>4
    <2>6. Sinking(Waits(g), n, 1)
      <3>1. ASSUME NEW j \in 2..n, Parent(j) # 1
            PROVE  Over(Waits(g)[Parent(j)], Waits(g)[j])
        <4>1. Parent(j) \in 1..n /\ j \in 1..n /\ j \in 2..(n + 1) /\ Parent(j) >= 1 /\ j # 1
          BY <1>1, ParentBefore
        <4>2. Over(Waits(h)[Parent(j)], Waits(h)[j])
          BY <1>1, <4>1 DEF Ordered, OrderedFrom
        <4>3. QED
          BY <2>5, <3>1, <4>1, <4>2
      <3>2. Path({1})
        BY DEF Path
      <3>3. Hole(Waits(g), n, 1, {1})
        BY <3>1, <3>2 DEF Hole
      <3>4. QED
        BY <3>3 DEF Sinking
    <2> DEFINE c == <<g, 1>>
    <2>7. c \in Cursors /\ c[1] = g /\ c[2] = 1
      <3>1. 1 \in 1..Len(g)
        BY <1>1, <1>4, <2>2
      <3>2. QED
        BY <2>2, <3>1, CursorParts
    <2> HIDE DEF c
    <2>8. /\ OrderedFrom(Waits(sift_down_to_bottom[c]), n, 1)
          /\ Len(sift_down_to_bottom[c]) = n
      BY <2>2, <2>6, <2>7, BottomOrders, BottomKeeps DEF Kept
    <2>9. PopRest(h) = sift_down_to_bottom[c]
      BY <2>3 DEF c
    <2>10. QED
      BY <2>8, <2>9 DEF Ordered
  <1>5. QED
    BY <1>3, <1>4

\* A tick keeps the order: the cap does not let a younger entry pass.
LEMMA TickOrders ==
  ASSUME NEW h \in Heaps, Ordered(h), NEW g,
         g = [i \in DOMAIN h |-> [h[i] EXCEPT !.waited = IF @ < MaxWait THEN @ + 1 ELSE @]]
  PROVE  Ordered(g)
  <1> DEFINE Longer(x) == IF x < MaxWait THEN x + 1 ELSE x
  <1>1. DOMAIN h = 1..Len(h) /\ Len(h) \in Nat
    BY DEF Heaps
  <1>2. g \in Heaps
    BY TickFiles
  <1>3. DOMAIN g = 1..Len(h)
    BY <1>1
  <1>4. Len(g) = Len(h)
    BY <1>1, <1>2, <1>3 DEF Heaps
  <1>5. ASSUME NEW i \in 1..Len(h)
        PROVE  Waits(g)[i] = Longer(Waits(h)[i])
    <2> DEFINE e == h[i]
    <2>1. e \in Entries
      BY DEF Heaps
    <2>2. g[i] = [e EXCEPT !.waited = IF @ < MaxWait THEN @ + 1 ELSE @]
      BY <1>1
    <2>3. Waits(g)[i] = g[i].waited /\ Waits(h)[i] = e.waited
      BY <1>2, <1>4, WaitsTyped
    <2> HIDE DEF e
    <2>4. [e EXCEPT !.waited = IF @ < MaxWait THEN @ + 1 ELSE @].waited = Longer(e.waited)
      BY <2>1, MaxWaitIsNat DEF Entries
    <2>5. QED
      BY <2>2, <2>3, <2>4
  <1>6. ASSUME NEW x \in Nat, NEW y \in Nat, y <= MaxWait, Over(x, y)
        PROVE  Over(Longer(x), Longer(y))
    <2>1. Second \in Nat \ {0}
      BY SchedulerAssumption DEF SchedulerAssumption
    <2>2. QED
      BY <1>6, <2>1, MaxWaitIsNat DEF Over
  <1> HIDE DEF Longer
  <1>7. ASSUME NEW j \in 2..Len(h)
        PROVE  Over(Waits(g)[Parent(j)], Waits(g)[j])
    <2>1. Parent(j) \in 1..Len(h) /\ j \in 1..Len(h) /\ Parent(j) >= 1
      BY <1>1, ParentBefore
    <2>2. Over(Waits(h)[Parent(j)], Waits(h)[j])
      BY <2>1 DEF Ordered, OrderedFrom
    <2>3. Waits(h)[Parent(j)] \in Nat /\ Waits(h)[j] \in Nat /\ Waits(h)[j] <= MaxWait
      BY <2>1, SecondsTyped, WaitsTyped
    <2>4. Over(Longer(Waits(h)[Parent(j)]), Longer(Waits(h)[j]))
      BY <1>6, <2>2, <2>3
    <2>5. QED
      BY <1>5, <2>1, <2>4
  <1>8. QED
    BY <1>4, <1>7 DEF Ordered, OrderedFrom

-----------------------------------------------------------------------------
(* The heap order is invariant *)

\* The inductive invariant: every edge of the array is in order but for less
\* than a second, not its top alone, wherever the weights are equal; unequal
\* ones break it (the scores then grow at different rates where they lie).
OInv == SInv /\ weight \in [Tasks -> Nat \ {0}] /\ (Level => Ordered(ready_queue))

LEMMA EmptyOrdered ==
  Ordered(<<>>)
  <1>1. Len(<<>>) = 0
    OBVIOUS
  <1>2. \A j \in 2..0 : FALSE
    OBVIOUS
  <1>3. QED
    BY <1>1, <1>2 DEF Ordered, OrderedFrom

LEMMA CallsKeepOrder ==
  ASSUME OInv, Level, Next
  PROVE  Ordered(ready_queue')
  <1>1. ready_queue \in Heaps /\ Ordered(ready_queue)
    BY DEF OInv, SInv, TypeOK, Heaps
  <1>2. ASSUME NEW t \in Tasks, submit(t) \/ preempt(t)
        PROVE  Ordered(ready_queue')
    <2>1. ready_queue' = Push(ready_queue, t)
      BY <1>2 DEF submit, preempt
    <2>2. QED
      BY <1>1, <2>1, PushOrders
  <1>3. ASSUME NEW id \in Ids, unblock(id)
        PROVE  Ordered(ready_queue')
    <2>1. PICK pos \in DOMAIN blocked_queue : ready_queue' = Push(ready_queue, blocked_queue[pos])
      BY <1>3, Zenon DEF unblock
    <2>2. blocked_queue[pos] \in Tasks
      BY DEF OInv, SInv, TypeOK
    <2>3. QED
      BY <1>1, <2>1, <2>2, PushOrders
  <1>4. ASSUME schedule_next
        PROVE  Ordered(ready_queue')
    <2>1. ready_queue # <<>> /\ ready_queue' = PopRest(ready_queue)
      BY <1>4 DEF schedule_next
    <2>2. QED
      BY <1>1, <2>1, PopOrders
  <1>5. ASSUME NEW t \in Tasks, complete(t) \/ block(t)
        PROVE  Ordered(ready_queue')
    <2>1. ready_queue' = ready_queue
      BY <1>5 DEF complete, block
    <2>2. QED
      BY <1>1, <2>1
  <1>6. ASSUME NEW id \in Ids, cancel(id)
        PROVE  Ordered(ready_queue')
    <2>1. ready_queue' = WithoutTask(ready_queue, id)
      BY <1>6 DEF cancel
    <2>2. QED
      BY <1>1, <2>1, CancelOrders
  <1>7. ASSUME Tick
        PROVE  Ordered(ready_queue')
    BY <1>1, <1>7, TickOrders DEF Tick
  <1>8. QED
    BY <1>2, <1>3, <1>4, <1>5, <1>6, <1>7 DEF Next, KernelCall, OtherCall

LEMMA OInvNext ==
  ASSUME OInv, [Next]_vars
  PROVE  OInv'
  <1>1. SInv'
    BY SInvNext DEF OInv
  <1>2. weight' = weight
    BY DEF Next, vars
  <1>3. Level' <=> Level
    BY <1>2 DEF Level
  <1>4. ASSUME Level
        PROVE  Ordered(ready_queue)'
    <2>1. CASE Next
      BY <1>4, <2>1, CallsKeepOrder DEF Ordered, OrderedFrom, Waits
    <2>2. CASE UNCHANGED vars
      <3>1. ready_queue' = ready_queue
        BY <2>2 DEF vars
      <3>2. QED
        BY <1>4, <3>1 DEF OInv, Ordered, OrderedFrom, Waits
    <2>3. QED
      BY <2>1, <2>2
  <1>5. QED
    BY <1>1, <1>2, <1>3, <1>4 DEF OInv

\* schedule_next (scheduler.rs:164-175) hands out a task that has waited as long
\* as any, but for less than a second a level of the heap, where all weigh the
\* same: pushes, pops, the rebuild of cancel and the aging of the entries in
\* place keep the heap that much in order, for any number of tasks and any
\* moments between their arrivals.
THEOREM EqualsGoNearlyOldestFirst == Spec => []NearlyOldestFirst
  <1>1. Init => OInv
    <2> SUFFICES ASSUME Init
                 PROVE  OInv
      OBVIOUS
    <2>1. ready_queue = <<>> /\ weight \in [Tasks -> Nat \ {0}]
      BY SchedulerAssumption DEF Init, SchedulerAssumption
    <2>2. SInv
      BY SchedulerAssumption, SInvInit
    <2>3. QED
      BY <2>1, <2>2, EmptyOrdered DEF OInv
  <1>2. OInv /\ [Next]_vars => OInv'
    BY OInvNext
  <1>3. OInv => NearlyOldestFirst
    <2> SUFFICES ASSUME OInv, \A t, u \in Tasks : weight[t] = weight[u],
                        NEW i \in 2..Len(ready_queue)
                 PROVE  ready_queue[i].waited < ready_queue[1].waited + Depth[i] * Second
      BY Zenon DEF NearlyOldestFirst
    <2> DEFINE a == Waits(ready_queue)
               n == Len(ready_queue)
    <2>1. ready_queue \in Heaps /\ OrderedFrom(a, n, 1)
      BY DEF OInv, Level, SInv, TypeOK, Heaps, Ordered
    <2>2. n \in Nat /\ a \in [1..n -> Nat] /\ \A k \in 1..n : a[k] = ready_queue[k].waited
      BY <2>1, WaitsTyped
    <2>3. i \in 2..n
      OBVIOUS
    <2> HIDE DEF a, n
    <2>4. i \in 1..n /\ 1 \in 1..n
      BY <2>2, <2>3
    <2>5. a[i] < a[1] + Depth[i] * Second
      BY <2>1, <2>2, <2>3, TopIsNearlyOldest
    <2>6. QED
      BY <2>2, <2>4, <2>5
  <1>4. QED
    BY <1>1, <1>2, <1>3, PTL DEF Spec
=============================================================================
