------------------------------ MODULE HexMap_proofs ------------------------------
(***************************************************************************)
(* Distances, neighbours, ranges and reachability on a map of any size.    *)
(***************************************************************************)
EXTENDS HexMap, WellFoundedInduction, TLAPS

LEMMA HexCoordinates ==
  /\ N \in Nat
  /\ \A h \in Hexes : h[1] \in Int /\ h[2] \in Int /\ h = <<h[1], h[2]>>
  /\ \A g, h \in Hexes : g = h <=> g[1] = h[1] /\ g[2] = h[2]
BY FieldSizeAssumption DEF N, Hexes

(* Length is the least bound of the three absolute values. *)
LEMMA LengthBounds ==
  ASSUME NEW x \in Int, NEW y \in Int, NEW z \in Int, NEW m, m = Length(x, y, z)
  PROVE  m \in Nat /\ -m <= x /\ x <= m /\ -m <= y /\ y <= m /\ -m <= z /\ z <= m
BY DEF Length, Larger, Abs

LEMMA LengthLeast ==
  ASSUME NEW x \in Int, NEW y \in Int, NEW z \in Int, NEW m \in Int,
         -m <= x, x <= m, -m <= y, y <= m, -m <= z, z <= m
  PROVE  Length(x, y, z) <= m
BY DEF Length, Larger, Abs

(* Cube.distanceTo is a metric on the map. *)
THEOREM DistanceIsMetric ==
  ASSUME NEW a \in Hexes, NEW b \in Hexes, NEW c \in Hexes
  PROVE  /\ Distance(a, b) \in Nat
         /\ Distance(a, b) = 0 <=> a = b
         /\ Distance(a, b) = Distance(b, a)
         /\ Distance(a, c) <= Distance(a, b) + Distance(b, c)
<1>1. /\ a[1] \in Int /\ a[2] \in Int /\ b[1] \in Int /\ b[2] \in Int
      /\ c[1] \in Int /\ c[2] \in Int
  BY HexCoordinates
<1>2. Distance(a, b) \in Nat
  BY <1>1 DEF Distance, Length, Larger, Abs
<1>3. Distance(a, b) = 0 <=> a[1] = b[1] /\ a[2] = b[2]
  BY <1>1 DEF Distance, Length, Larger, Abs
<1>4. Distance(a, b) = 0 <=> a = b
  BY <1>3, HexCoordinates
<1>5. Distance(a, b) = Distance(b, a)
  BY <1>1 DEF Distance, Length, Larger, Abs
<1>6. Distance(a, c) <= Distance(a, b) + Distance(b, c)
  <2> DEFINE x == a[1] - b[1]  y == a[2] - b[2]  z == b[1] + b[2] - a[1] - a[2]
             u == b[1] - c[1]  v == b[2] - c[2]  w == c[1] + c[2] - b[1] - b[2]
             m == Length(x, y, z)  k == Length(u, v, w)
  <2>1. x \in Int /\ y \in Int /\ z \in Int /\ u \in Int /\ v \in Int /\ w \in Int
    BY <1>1
  <2>2. a[1] - c[1] = x + u /\ a[2] - c[2] = y + v /\ c[1] + c[2] - a[1] - a[2] = z + w
    BY <1>1
  <2>3. Distance(a, b) = m /\ Distance(b, c) = k /\ Distance(a, c) = Length(x + u, y + v, z + w)
    BY <2>2 DEF Distance
  <2> HIDE DEF x, y, z, u, v, w
  <2>4. m \in Nat /\ -m <= x /\ x <= m /\ -m <= y /\ y <= m /\ -m <= z /\ z <= m
    BY <2>1, LengthBounds
  <2>5. k \in Nat /\ -k <= u /\ u <= k /\ -k <= v /\ v <= k /\ -k <= w /\ w <= k
    BY <2>1, LengthBounds
  <2> HIDE DEF m, k
  <2>6. /\ x + u \in Int /\ y + v \in Int /\ z + w \in Int /\ m + k \in Int
        /\ -(m + k) <= x + u /\ x + u <= m + k
        /\ -(m + k) <= y + v /\ y + v <= m + k
        /\ -(m + k) <= z + w /\ z + w <= m + k
    BY <2>1, <2>4, <2>5
  <2>7. Length(x + u, y + v, z + w) <= m + k
    BY <2>6, LengthLeast
  <2>8. QED
    BY <2>3, <2>7
<1>7. QED
  BY <1>2, <1>4, <1>5, <1>6

(* The neighbours of a hexagon are the hexagons of the map at distance 1:  *)
(* no direction is missing and none is too many.                           *)
THEOREM NeighborsAreAdjacent ==
  ASSUME NEW h \in Hexes
  PROVE  Neighbors(h) = {g \in Hexes : Distance(g, h) = 1}
<1>1. ASSUME NEW d \in Directions, <<h[1] + d[1], h[2] + d[2]>> \in Hexes
      PROVE  Distance(<<h[1] + d[1], h[2] + d[2]>>, h) = 1
  BY HexCoordinates DEF Directions, Distance, Length, Larger, Abs
<1>2. ASSUME NEW g \in Hexes, Distance(g, h) = 1
      PROVE  \E d \in Directions : g = <<h[1] + d[1], h[2] + d[2]>>
  <2> DEFINE d == <<g[1] - h[1], g[2] - h[2]>>
  <2>1. g = <<h[1] + d[1], h[2] + d[2]>>
    BY HexCoordinates
  <2>2. d \in Directions
    BY <1>2, HexCoordinates DEF Directions, Distance, Length, Larger, Abs
  <2>3. QED
    BY <2>1, <2>2
<1>3. QED
  BY <1>1, <1>2 DEF Neighbors

(* Map.range gives exactly the hexagons within the range. *)
THEOREM RangesAreBalls == RangeIsBall
<1> SUFFICES ASSUME NEW h \in Hexes, NEW n \in 0 .. 2 * N
             PROVE  RangeOf(h, n) = Ball(h, n)
  BY DEF RangeIsBall
<1> DEFINE offsets == {d \in (-n .. n) \X (-n .. n) : -(d[1] + d[2]) \in -n .. n}
<1>1. n \in Nat /\ h[1] \in Int /\ h[2] \in Int
  BY HexCoordinates
<1>2. ASSUME NEW d \in offsets, <<h[1] + d[1], h[2] + d[2]>> \in Hexes
      PROVE  Distance(<<h[1] + d[1], h[2] + d[2]>>, h) <= n
  BY <1>1 DEF Distance, Length, Larger, Abs
<1>3. ASSUME NEW g \in Hexes, Distance(g, h) <= n
      PROVE  \E d \in offsets : g = <<h[1] + d[1], h[2] + d[2]>>
  <2> DEFINE d == <<g[1] - h[1], g[2] - h[2]>>
  <2>1. g = <<h[1] + d[1], h[2] + d[2]>>
    BY HexCoordinates
  <2>2. d \in offsets
    BY <1>1, <1>3, HexCoordinates DEF Distance, Length, Larger, Abs
  <2>3. QED
    BY <2>1, <2>2
<1>4. QED
  BY <1>2, <1>3 DEF RangeOf, Ball

-----------------------------------------------------------------------------
(* Reachable. *)

(* A set of numbers has a least one. *)
LEMMA LeastNumber ==
  ASSUME NEW S \in SUBSET Nat, S # {}
  PROVE  \E x \in S : \A y \in S : x <= y
<1> DEFINE R == OpToRel(<, Nat)
<1>1. IsWellFoundedOn(R, Nat)
  BY NatLessThanWellFounded
<1>2. \A a, b \in Nat : <<a, b>> \in R <=> a < b
  BY DEF OpToRel
<1> HIDE DEF R
<1>3. PICK x \in S : \A y \in S : ~(<<y, x>> \in R)
  BY <1>1, WFMin
<1>4. \A y \in S : ~(y < x) /\ y \in Nat /\ x \in Nat
  BY <1>2, <1>3, Zenon
<1> QED
  BY <1>4

(* The recursion of Reachable: A is its function up to n fringes. *)
Fringes(A, h, n, blocked) ==
  A = [k \in 0 .. n |-> IF k = 0 THEN [visited |-> {h}, fringe |-> {h}]
                        ELSE Widened(A[k - 1], blocked)]

(* There is such a function, or a least number for which there is none; it *)
(* would be one more than a number for which there is one.                 *)
LEMMA FringesExist ==
  ASSUME NEW h, NEW n \in Nat, NEW blocked
  PROVE  \E A : Fringes(A, h, n, blocked)
<1> DEFINE Without == {k \in Nat : ~ \E A : Fringes(A, h, k, blocked)}
<1> SUFFICES ASSUME Without # {} PROVE FALSE
  OBVIOUS
<1>1. PICK m \in Without : \A k \in Without : m <= k
  BY LeastNumber
<1>2. m \in Nat /\ ~ \E A : Fringes(A, h, m, blocked)
  BY <1>1
<1>3. m # 0
  <2> DEFINE A == [k \in 0 .. 0 |-> [visited |-> {h}, fringe |-> {h}]]
  <2>1. Fringes(A, h, 0, blocked)
    BY DEF Fringes
  <2> QED
    BY <1>2, <2>1
<1>4. m - 1 \in Nat /\ m - 1 \notin Without
  BY <1>1, <1>2, <1>3
<1>5. PICK A : Fringes(A, h, m - 1, blocked)
  BY <1>4
<1> DEFINE B == [k \in 0 .. m |-> IF k = m THEN Widened(A[m - 1], blocked) ELSE A[k]]
<1>6. \A k \in 0 .. m :
        B[k] = IF k = 0 THEN [visited |-> {h}, fringe |-> {h}] ELSE Widened(B[k - 1], blocked)
  <2> SUFFICES ASSUME NEW k \in 0 .. m
               PROVE  B[k] = IF k = 0 THEN [visited |-> {h}, fringe |-> {h}]
                             ELSE Widened(B[k - 1], blocked)
    OBVIOUS
  <2>1. CASE k = m
    <3>1. m - 1 \in 0 .. m /\ m - 1 # m
      BY <1>2, <1>4
    <3>2. B[m - 1] = A[m - 1] /\ B[m] = Widened(A[m - 1], blocked)
      BY <1>2, <3>1
    <3> QED
      BY <1>3, <2>1, <3>2
  <2>2. CASE k # m
    <3>1. k \in 0 .. m - 1 /\ B[k] = A[k]
      BY <1>2, <2>2
    <3>2. A[k] = IF k = 0 THEN [visited |-> {h}, fringe |-> {h}] ELSE Widened(A[k - 1], blocked)
      BY <1>5, <3>1 DEF Fringes
    <3>3. k # 0 => B[k - 1] = A[k - 1]
      BY <1>2, <3>1
    <3> QED
      BY <3>1, <3>2, <3>3
  <2> QED
    BY <2>1, <2>2
<1>7. Fringes(B, h, m, blocked)
  <2>1. B = [k \in 0 .. m |-> B[k]]
    OBVIOUS
  <2> HIDE DEF B
  <2> QED
    BY <1>6, <2>1 DEF Fringes
<1> QED
  BY <1>2, <1>7

LEMMA ReachableUnfolds ==
  ASSUME NEW h, NEW n \in Nat, NEW blocked
  PROVE  \E A : /\ Reachable(h, n, blocked) = A[n].visited
                /\ A[0] = [visited |-> {h}, fringe |-> {h}]
                /\ \A k \in 1 .. n : A[k] = Widened(A[k - 1], blocked)
<1> DEFINE A == CHOOSE B : Fringes(B, h, n, blocked)
<1>1. Fringes(A, h, n, blocked)
  BY FringesExist
<1>2. Reachable(h, n, blocked) = A[n].visited
  BY DEF Reachable, Fringes
<1> HIDE DEF A
<1>3. \A k \in 0 .. n : A[k] = IF k = 0 THEN [visited |-> {h}, fringe |-> {h}]
                                 ELSE Widened(A[k - 1], blocked)
  BY <1>1 DEF Fringes
<1>4. A[0] = [visited |-> {h}, fringe |-> {h}]
  BY <1>3
<1>5. \A k \in 1 .. n : A[k] = Widened(A[k - 1], blocked)
  BY <1>3
<1> QED
  BY <1>2, <1>4, <1>5

(* Induction up to n, with a set for the predicate. *)
LEMMA UpTo ==
  ASSUME NEW n \in Nat, NEW S, 0 \in S, \A k \in 1 .. n : k - 1 \in S => k \in S
  PROVE  n \in S
<1> DEFINE Outside == (0 .. n) \ S
<1> SUFFICES ASSUME Outside # {} PROVE FALSE
  OBVIOUS
<1>1. Outside \in SUBSET Nat
  OBVIOUS
<1>2. PICK m \in Outside : \A k \in Outside : m <= k
  <2> HIDE DEF Outside
  <2> QED
    BY <1>1, LeastNumber
<1>3. m # 0 /\ m \in 1 .. n /\ m - 1 \in 0 .. n /\ m - 1 \notin Outside
  BY <1>2
<1> QED
  BY <1>2, <1>3

(* A set of hexagons that holds h and that no free neighbour leaves holds  *)
(* whatever can be reached from h.                                         *)
LEMMA ReachableStaysInside ==
  ASSUME NEW h, NEW n \in Nat, NEW blocked, NEW S,
         h \in S, \A g \in S : Neighbors(g) \ blocked \subseteq S
  PROVE  Reachable(h, n, blocked) \subseteq S
<1>1. PICK A : /\ Reachable(h, n, blocked) = A[n].visited
               /\ A[0] = [visited |-> {h}, fringe |-> {h}]
               /\ \A k \in 1 .. n : A[k] = Widened(A[k - 1], blocked)
  BY ReachableUnfolds
<1> DEFINE Inside == {k \in 0 .. n : A[k].visited \subseteq S /\ A[k].fringe \subseteq S}
<1>2. 0 \in Inside
  BY <1>1
<1>3. ASSUME NEW k \in 1 .. n, k - 1 \in Inside PROVE k \in Inside
  <2> DEFINE new == (UNION {Neighbors(g) : g \in A[k - 1].fringe}) \ (A[k - 1].visited \cup blocked)
  <2>0. A[k] = Widened(A[k - 1], blocked)
    BY <1>1
  <2>1. A[k].visited = A[k - 1].visited \cup new /\ A[k].fringe = new
    BY <2>0 DEF Widened
  <2>2. new \subseteq S
    BY <1>3
  <2> QED
    BY <1>3, <2>1, <2>2
<1>4. n \in Inside
  <2> HIDE DEF Inside
  <2> QED
    BY <1>2, <1>3, UpTo
<1> QED
  BY <1>1, <1>4

(* From a hexagon one neighbour at least is nearer to another one. *)
LEMMA NearerNeighbor ==
  ASSUME NEW h \in Hexes, NEW g \in Hexes, g # h
  PROVE  \E f \in Neighbors(g) : Distance(f, h) = Distance(g, h) - 1
<1> DEFINE x == g[1] - h[1]
           y == g[2] - h[2]
           Nearer(d) == /\ d \in Directions
                        /\ <<g[1] + d[1], g[2] + d[2]>> \in Hexes
                        /\ Distance(<<g[1] + d[1], g[2] + d[2]>>, h) = Distance(g, h) - 1
<1>1. x \in Int /\ y \in Int /\ (x # 0 \/ y # 0)
  BY HexCoordinates
<1>2. CASE x > 0 /\ y < 0
  <2> Nearer(<<-1, 1>>)
    BY <1>2, HexCoordinates DEF Directions, Hexes, Distance, Length, Larger, Abs
  <2> QED
    BY DEF Neighbors
<1>3. CASE x < 0 /\ y > 0
  <2> Nearer(<<1, -1>>)
    BY <1>3, HexCoordinates DEF Directions, Hexes, Distance, Length, Larger, Abs
  <2> QED
    BY DEF Neighbors
<1>4. CASE x > 0 /\ y >= 0
  <2> Nearer(<<-1, 0>>)
    BY <1>4, HexCoordinates DEF Directions, Hexes, Distance, Length, Larger, Abs
  <2> QED
    BY DEF Neighbors
<1>5. CASE x < 0 /\ y <= 0
  <2> Nearer(<<1, 0>>)
    BY <1>5, HexCoordinates DEF Directions, Hexes, Distance, Length, Larger, Abs
  <2> QED
    BY DEF Neighbors
<1>6. CASE x = 0 /\ y > 0
  <2> Nearer(<<0, -1>>)
    BY <1>6, HexCoordinates DEF Directions, Hexes, Distance, Length, Larger, Abs
  <2> QED
    BY DEF Neighbors
<1>7. CASE x = 0 /\ y < 0
  <2> Nearer(<<0, 1>>)
    BY <1>7, HexCoordinates DEF Directions, Hexes, Distance, Length, Larger, Abs
  <2> QED
    BY DEF Neighbors
<1> QED
  BY <1>1, <1>2, <1>3, <1>4, <1>5, <1>6, <1>7

(* Without collisions Map.reachable gives exactly the hexagons within the  *)
(* range: the rim of the map cuts off no walk of the length of a distance. *)
THEOREM ReachablesAreBalls == ReachableIsBall
<1> SUFFICES ASSUME NEW h \in Hexes, NEW n \in Nat
             PROVE  Reachable(h, n, {}) = Ball(h, n)
  BY HexCoordinates DEF ReachableIsBall
<1>1. PICK A : /\ Reachable(h, n, {}) = A[n].visited
               /\ A[0] = [visited |-> {h}, fringe |-> {h}]
               /\ \A k \in 1 .. n : A[k] = Widened(A[k - 1], {})
  BY ReachableUnfolds
<1> DEFINE Sphere(k) == {g \in Hexes : Distance(g, h) = k}
           Grown(k) == A[k].visited = Ball(h, k) /\ A[k].fringe = Sphere(k)
           Rounds == {k \in 0 .. n : Grown(k)}
<1>2. 0 \in Rounds
  <2>1. \A g \in Hexes : Distance(g, h) \in Nat /\ (Distance(g, h) = 0 <=> g = h)
    BY DistanceIsMetric
  <2>2. Ball(h, 0) = {h} /\ Sphere(0) = {h}
    BY <2>1 DEF Ball
  <2> QED
    BY <1>1, <2>2
<1>3. ASSUME NEW k \in 1 .. n, k - 1 \in Rounds PROVE k \in Rounds
  <2> DEFINE new == (UNION {Neighbors(g) : g \in A[k - 1].fringe}) \ (A[k - 1].visited \cup {})
  <2>0. A[k] = Widened(A[k - 1], {})
    BY <1>1
  <2>1. A[k].visited = A[k - 1].visited \cup new /\ A[k].fringe = new
    BY <2>0 DEF Widened
  <2>2. A[k - 1].visited = Ball(h, k - 1) /\ A[k - 1].fringe = Sphere(k - 1)
    BY <1>3
  <2>3. \A g \in Hexes : Distance(g, h) \in Nat /\ (Distance(g, h) = 0 <=> g = h)
    BY DistanceIsMetric
  <2>4. ASSUME NEW g \in new PROVE g \in Sphere(k)
    <3>1. PICK f \in Sphere(k - 1) : g \in Neighbors(f)
      BY <2>2
    <3>2. g \in Hexes /\ f \in Hexes /\ Distance(g, f) = 1 /\ Distance(f, h) = k - 1
      BY <3>1, NeighborsAreAdjacent
    <3>3. Distance(g, h) <= Distance(g, f) + Distance(f, h)
      BY <3>2, DistanceIsMetric
    <3>4. ~(Distance(g, h) <= k - 1)
      BY <2>2, <3>2 DEF Ball
    <3> QED
      BY <2>3, <3>2, <3>3, <3>4
  <2>5. ASSUME NEW g \in Sphere(k) PROVE g \in new
    <3>1. g \in Hexes /\ Distance(g, h) = k /\ g # h
      BY <2>3
    <3>2. PICK f \in Neighbors(g) : Distance(f, h) = k - 1
      BY <3>1, NearerNeighbor
    <3>3. f \in Hexes /\ Distance(f, g) = 1
      BY <3>1, <3>2, NeighborsAreAdjacent
    <3>4. Distance(g, f) = 1
      BY <3>1, <3>3, DistanceIsMetric
    <3>5. g \in Neighbors(f) /\ f \in Sphere(k - 1)
      BY <3>1, <3>2, <3>3, <3>4, NeighborsAreAdjacent
    <3>6. g \notin Ball(h, k - 1)
      BY <3>1 DEF Ball
    <3> QED
      BY <2>2, <3>5, <3>6
  <2>6. new = Sphere(k)
    BY <2>4, <2>5
  <2>7. Ball(h, k) = Ball(h, k - 1) \cup Sphere(k)
    BY <2>3 DEF Ball
  <2>8. Grown(k)
    BY <2>1, <2>2, <2>6, <2>7
  <2> QED
    BY <2>8
<1>4. n \in Rounds
  <2> HIDE DEF Rounds
  <2> QED
    BY <1>2, <1>3, UpTo
<1> QED
  BY <1>1, <1>4

-----------------------------------------------------------------------------
(* Round. *)

(* Math.round is off by half at most. *)
LEMMA RoundError ==
  ASSUME NEW x \in Int, NEW d \in Nat \ {0}
  PROVE  /\ JsRound(x, d) \in Int
         /\ -d < 2 * (JsRound(x, d) * d - x)
         /\ 2 * (JsRound(x, d) * d - x) <= d
<1>1. /\ JsRound(x, d) \in Int
      /\ 2 * (JsRound(x, d) * d) <= 2 * x + d
      /\ 2 * x + d < 2 * (JsRound(x, d) * d) + 2 * d
  BY DEF JsRound
<1> DEFINE e == JsRound(x, d) * d
<1>2. e \in Int
  BY <1>1
<1> HIDE DEF e
<1>3. -d < 2 * (e - x) /\ 2 * (e - x) <= d
  BY <1>1, <1>2 DEF e
<1> QED
  BY <1>1, <1>3 DEF e

(* A position is in the cell of a hexagon: no neighbour is nearer.         *)
(* u, v and w are the coordinates of the hexagon less those of the         *)
(* position.                                                               *)
InCell(u, v, w, d) ==
  /\ u - v <= d /\ v - u <= d
  /\ v - w <= d /\ w - v <= d
  /\ u - w <= d /\ w - u <= d

(* Where three rounding errors leave their hexagons. *)
LEMMA SumOfErrors ==
  ASSUME NEW s \in Int, NEW d \in Nat \ {0}, NEW a \in Int, NEW b \in Int, NEW c \in Int,
         -d < 2 * a, 2 * a <= d, -d < 2 * b, 2 * b <= d, -d < 2 * c, 2 * c <= d,
         a + b + c = s * d
  PROVE  s \in {-1, 0, 1}
<1>1. 2 * (s * d) <= 3 * d /\ -(3 * d) < 2 * (s * d)
  OBVIOUS
<1>2. CASE s >= 2
  <2>1. s * d >= 2 * d
    BY <1>2
  <2> QED
    BY <1>1, <2>1
<1>3. CASE s <= -2
  <2>1. s * d <= -(2 * d)
    BY <1>3
  <2> QED
    BY <1>1, <2>1
<1> QED
  BY <1>2, <1>3

(* The errors before (a, b, c) and after (u, v, w) the repair.             *)
Repair(a, b, c, u, v, w, s, d) ==
  IF Abs(a) > Abs(b) /\ Abs(a) > Abs(c) THEN u = a - s * d /\ v = b /\ w = c
  ELSE IF Abs(b) > Abs(c) THEN u = a /\ v = b - s * d /\ w = c
  ELSE u = a /\ v = b /\ w = c - s * d

LEMMA RepairEndsInCell ==
  ASSUME NEW s \in {-1, 0, 1}, NEW d \in Nat \ {0}, NEW a \in Int, NEW b \in Int, NEW c \in Int,
         NEW u, NEW v, NEW w,
         -d < 2 * a, 2 * a <= d, -d < 2 * b, 2 * b <= d, -d < 2 * c, 2 * c <= d,
         a + b + c = s * d, Repair(a, b, c, u, v, w, s, d)
  PROVE  u \in Int /\ v \in Int /\ w \in Int /\ u + v + w = 0 /\ InCell(u, v, w, d)
<1>1. CASE s = 0
  BY <1>1 DEF Repair, InCell, Abs
<1>2. CASE s = 1
  BY <1>2 DEF Repair, InCell, Abs
<1>3. CASE s = -1
  BY <1>3 DEF Repair, InCell, Abs
<1> QED
  BY <1>1, <1>2, <1>3

Repairs(x, y, d, p, rx, ry, rz, s) ==
  /\ rx \in Int /\ ry \in Int /\ rz \in Int /\ s \in {-1, 0, 1}
  /\ p[1] \in Int /\ p[2] \in Int /\ p = <<p[1], p[2]>>
  /\ rx * d - x + (ry * d - y) + (rz * d + x + y) = s * d
  /\ Repair(rx * d - x, ry * d - y, rz * d + x + y,
            p[1] * d - x, p[2] * d - y, x + y - p[1] * d - p[2] * d, s, d)

LEMMA RoundRepairs ==
  ASSUME NEW x \in Int, NEW y \in Int, NEW d \in Nat \ {0}
  PROVE  Repairs(x, y, d, Round(x, y, d), JsRound(x, d), JsRound(y, d), JsRound(-x - y, d),
                 JsRound(x, d) + JsRound(y, d) + JsRound(-x - y, d))
<1> DEFINE p == Round(x, y, d)
           rx == JsRound(x, d)
           ry == JsRound(y, d)
           rz == JsRound(-x - y, d)
           s == rx + ry + rz
<1>1. rx \in Int /\ ry \in Int /\ rz \in Int /\ s \in Int
  BY RoundError
<1> DEFINE a == rx * d - x
           b == ry * d - y
           c == rz * d + x + y
<1>2. a \in Int /\ b \in Int /\ c \in Int /\ a + b + c = s * d
  BY <1>1
<1>3. -d < 2 * a /\ 2 * a <= d
  BY RoundError
<1>4. -d < 2 * b /\ 2 * b <= d
  BY RoundError
<1>5. -d < 2 * c /\ 2 * c <= d
  <2>1. -x - y \in Int /\ rz * d - (-x - y) = c
    BY <1>1
  <2>2. -d < 2 * (rz * d - (-x - y)) /\ 2 * (rz * d - (-x - y)) <= d
    BY <2>1, RoundError
  <2> QED
    BY <2>1, <2>2
<1>6. s \in {-1, 0, 1}
  <2> HIDE DEF a, b, c
  <2> QED
    BY <1>1, <1>2, <1>3, <1>4, <1>5, SumOfErrors
<1>7. p = IF Abs(a) > Abs(b) /\ Abs(a) > Abs(c) THEN <<-ry - rz, ry>>
          ELSE IF Abs(b) > Abs(c) THEN <<rx, -rx - rz>>
          ELSE <<rx, ry>>
  <2>1. c = rz * d - (-x - y)
    BY <1>1
  <2> QED
    BY <2>1 DEF Round
<1>8. /\ (-ry - rz) * d - x = a - s * d
      /\ x + y - (-ry - rz) * d - ry * d = c
      /\ (-rx - rz) * d - y = b - s * d
      /\ x + y - rx * d - (-rx - rz) * d = c
      /\ x + y - rx * d - ry * d = c - s * d
  BY <1>1
<1>9. p[1] \in Int /\ p[2] \in Int /\ p = <<p[1], p[2]>>
  BY <1>1, <1>7
<1>10. Repair(a, b, c, p[1] * d - x, p[2] * d - y, x + y - p[1] * d - p[2] * d, s, d)
  <2>1. CASE Abs(a) > Abs(b) /\ Abs(a) > Abs(c)
    <3>1. p[1] = -ry - rz /\ p[2] = ry
      BY <1>7, <2>1
    <3> QED
      BY <1>8, <2>1, <3>1 DEF Repair
  <2>2. CASE ~(Abs(a) > Abs(b) /\ Abs(a) > Abs(c)) /\ Abs(b) > Abs(c)
    <3>1. p[1] = rx /\ p[2] = -rx - rz
      BY <1>7, <2>2
    <3> QED
      BY <1>8, <2>2, <3>1 DEF Repair
  <2>3. CASE ~(Abs(a) > Abs(b) /\ Abs(a) > Abs(c)) /\ ~(Abs(b) > Abs(c))
    <3>1. p[1] = rx /\ p[2] = ry
      BY <1>7, <2>3
    <3> QED
      BY <1>8, <2>3, <3>1 DEF Repair
  <2> QED
    BY <2>1, <2>2, <2>3
<1>11. rx * d - x + (ry * d - y) + (rz * d + x + y) = s * d
  BY <1>2
<1> HIDE DEF p, rx, ry, rz, s
<1>12. Repairs(x, y, d, p, rx, ry, rz, s)
  BY <1>1, <1>6, <1>9, <1>10, <1>11 DEF Repairs
<1> QED
  BY <1>12 DEF p, rx, ry, rz, s

LEMMA LessTimes ==
  ASSUME NEW r \in Int, NEW k \in Int, NEW d \in Nat \ {0}, r * d < k * d
  PROVE  r < k
<1> SUFFICES ASSUME r >= k PROVE FALSE
  OBVIOUS
<1>1. (r - k) * d >= 0
  OBVIOUS
<1>2. (r - k) * d = r * d - k * d
  OBVIOUS
<1> QED
  BY <1>1, <1>2

(* The hexagon nearest to a position is on the map if the position is not  *)
(* farther beyond the centres of the rim than a third of a hexagon.        *)
LEMMA WithinRim ==
  ASSUME NEW k \in Int, NEW x \in Int, NEW d \in Nat \ {0}, NEW e \in Nat, 3 * e < d,
         x <= N * d + e, -(N * d + e) <= x, -(2 * d) <= 3 * (k * d - x), 3 * (k * d - x) <= 2 * d
  PROVE  -N <= k /\ k <= N
<1>1. N \in Int
  BY HexCoordinates
<1>2. (N + 1) * d = N * d + d /\ (-(N + 1)) * d = -(N * d) - d
  BY <1>1
<1>3. k * d < (N + 1) * d /\ (-(N + 1)) * d < k * d
  <2> DEFINE kd == k * d
             nd == N * d
  <2>1. kd \in Int /\ nd \in Int
    BY <1>1
  <2>2. x <= nd + e /\ -(nd + e) <= x /\ -(2 * d) <= 3 * (kd - x) /\ 3 * (kd - x) <= 2 * d
    OBVIOUS
  <2> HIDE DEF kd, nd
  <2>3. kd < nd + d /\ -nd - d < kd
    BY <2>1, <2>2
  <2> QED
    BY <1>2, <2>3 DEF kd, nd
<1>4. k < N + 1
  BY <1>1, <1>3, LessTimes
<1>5. -(N + 1) < k
  BY <1>1, <1>3, LessTimes
<1> QED
  BY <1>1, <1>4, <1>5

LEMMA RoundEndsInCell ==
  ASSUME NEW x \in Int, NEW y \in Int, NEW d \in Nat \ {0}, NEW p, p = Round(x, y, d),
         NEW u, NEW v, u = p[1] * d - x, v = p[2] * d - y
  PROVE  /\ p[1] \in Int /\ p[2] \in Int /\ p = <<p[1], p[2]>>
         /\ u \in Int /\ v \in Int
         /\ InCell(u, v, -u - v, d)
<1> DEFINE rx == JsRound(x, d)
           ry == JsRound(y, d)
           rz == JsRound(-x - y, d)
           s == rx + ry + rz
           a == rx * d - x
           b == ry * d - y
           c == rz * d + x + y
           w == x + y - p[1] * d - p[2] * d
<1>1. /\ rx \in Int /\ ry \in Int /\ rz \in Int /\ s \in {-1, 0, 1}
      /\ p[1] \in Int /\ p[2] \in Int /\ p = <<p[1], p[2]>>
      /\ a + b + c = s * d
      /\ Repair(a, b, c, u, v, w, s, d)
  <2>1. p = Round(x, y, d) /\ u = p[1] * d - x /\ v = p[2] * d - y
    OBVIOUS
  <2> HIDE DEF rx, ry, rz, s
  <2>2. Repairs(x, y, d, p, rx, ry, rz, s)
    BY <2>1, RoundRepairs, Zenon DEF rx, ry, rz, s
  <2> QED
    BY <2>1, <2>2 DEF Repairs
<1>2. -d < 2 * a /\ 2 * a <= d
  BY RoundError
<1>3. -d < 2 * b /\ 2 * b <= d
  BY RoundError
<1>4. -d < 2 * c /\ 2 * c <= d
  <2>1. -x - y \in Int /\ rz * d - (-x - y) = c
    BY <1>1
  <2>2. -d < 2 * (rz * d - (-x - y)) /\ 2 * (rz * d - (-x - y)) <= d
    BY <2>1, RoundError
  <2> QED
    BY <2>1, <2>2
<1>5. a \in Int /\ b \in Int /\ c \in Int
  BY <1>1
<1>6. u \in Int /\ v \in Int /\ w = -u - v
  BY <1>1
<1> HIDE DEF a, b, c, s, w
<1>7. InCell(u, v, w, d)
  BY <1>1, <1>2, <1>3, <1>4, <1>5, RepairEndsInCell
<1> QED
  BY <1>1, <1>6, <1>7

(* Cube.round stays on the map. *)
LEMMA RoundOnMap ==
  ASSUME NEW x \in Int, NEW y \in Int, NEW d \in Nat \ {0}, NEW e \in Nat, 3 * e < d,
         x <= N * d + e, -(N * d + e) <= x,
         y <= N * d + e, -(N * d + e) <= y,
         x + y <= N * d + e, -(N * d + e) <= x + y
  PROVE  Round(x, y, d) \in Hexes
<1> DEFINE p == Round(x, y, d)
           u == p[1] * d - x
           v == p[2] * d - y
<1>1. /\ p[1] \in Int /\ p[2] \in Int /\ p = <<p[1], p[2]>>
      /\ u \in Int /\ v \in Int
      /\ InCell(u, v, -u - v, d)
  BY RoundEndsInCell
<1>2. (p[1] + p[2]) * d - (x + y) = u + v
  BY <1>1
<1> HIDE DEF p
<1>3. /\ -(2 * d) <= 3 * u /\ 3 * u <= 2 * d
      /\ -(2 * d) <= 3 * v /\ 3 * v <= 2 * d
      /\ -(2 * d) <= 3 * (u + v) /\ 3 * (u + v) <= 2 * d
  <2> HIDE DEF u, v
  <2> QED
    BY <1>1 DEF InCell
<1>4. -N <= p[1] /\ p[1] <= N
  BY <1>1, <1>3, WithinRim
<1>5. -N <= p[2] /\ p[2] <= N
  BY <1>1, <1>3, WithinRim
<1>6. -N <= p[1] + p[2] /\ p[1] + p[2] <= N
  <2>1. p[1] + p[2] \in Int /\ x + y \in Int
    BY <1>1
  <2>2. -(2 * d) <= 3 * ((p[1] + p[2]) * d - (x + y)) /\ 3 * ((p[1] + p[2]) * d - (x + y)) <= 2 * d
    BY <1>2, <1>3
  <2> QED
    BY <2>1, <2>2, WithinRim
<1> HIDE DEF u, v
<1>7. N \in Nat
  BY HexCoordinates
<1>8. p[1] \in -N .. N /\ p[2] \in -N .. N /\ Abs(p[1] + p[2]) <= N
  BY <1>1, <1>4, <1>5, <1>6, <1>7 DEF Abs
<1>9. p \in Hexes
  BY <1>1, <1>8 DEF Hexes
<1> QED
  BY <1>9 DEF p

(* The way from one centre to another, seen from a point in the cell of    *)
(* the first: q steps in one direction, r in another.                      *)
LEMMA FarOff ==
  ASSUME NEW a \in Int, NEW b \in Int, NEW c \in Int, NEW d \in Nat \ {0},
         b - a <= d, c - a <= d, NEW q \in Nat, NEW r \in Nat
  PROVE  2 * (a * (q + r) - b * q - c * r) + d * (q * q + r * r + (q + r) * (q + r)) >= 0
<1>1. (a - b + d) * q >= 0 /\ (a - c + d) * r >= 0
  OBVIOUS
<1>2. q * q >= q /\ r * r >= r /\ (q + r) * (q + r) >= q + r
  <2>1. \A k \in Nat : k * k >= k
    <3> SUFFICES ASSUME NEW k \in Nat PROVE k * k >= k
      OBVIOUS
    <3>1. CASE k = 0
      BY <3>1
    <3>2. CASE k >= 1
      <4>1. (k - 1) * k >= 0
        BY <3>2
      <4> QED
        BY <4>1
    <3> QED
      BY <3>1, <3>2
  <2>2. q + r \in Nat
    OBVIOUS
  <2> QED
    BY <2>1, <2>2
<1>3. d * (q * q + r * r + (q + r) * (q + r) - 2 * (q + r)) >= 0
  <2> DEFINE m == q * q + r * r + (q + r) * (q + r) - 2 * (q + r)
  <2>1. m \in Nat
    BY <1>2
  <2> HIDE DEF m
  <2>2. d * m >= 0
    BY <2>1
  <2> QED
    BY <2>2 DEF m
<1>4. 2 * (a * (q + r) - b * q - c * r) + d * (q * q + r * r + (q + r) * (q + r))
        = 2 * ((a - b + d) * q) + 2 * ((a - c + d) * r)
          + d * (q * q + r * r + (q + r) * (q + r) - 2 * (q + r))
  OBVIOUS
<1> QED
  BY <1>1, <1>3, <1>4

(* The dot product with the way (i, j, k) and the square of its length.    *)
Beyond(u, v, w, d, i, j, k) ==
  2 * (u * i + v * j + w * k) + d * (i * i + j * j + k * k)

LEMMA NothingNearer ==
  ASSUME NEW u \in Int, NEW v \in Int, NEW w \in Int, NEW d \in Nat \ {0}, InCell(u, v, w, d),
         NEW i \in Int, NEW j \in Int, NEW k \in Int, i + j + k = 0
  PROVE  Beyond(u, v, w, d, i, j, k) >= 0
<1>1. ASSUME NEW a \in Int, NEW b \in Int, NEW c \in Int, NEW q \in Nat, NEW r \in Nat,
             b - a <= d, c - a <= d
      PROVE  Beyond(a, b, c, d, q + r, -q, -r) >= 0
  <2>1. 2 * (a * (q + r) - b * q - c * r) + d * (q * q + r * r + (q + r) * (q + r)) >= 0
    BY <1>1, FarOff
  <2>2. Beyond(a, b, c, d, q + r, -q, -r)
          = 2 * (a * (q + r) - b * q - c * r) + d * (q * q + r * r + (q + r) * (q + r))
    BY DEF Beyond
  <2> QED
    BY <2>1, <2>2
<1>2. ASSUME NEW a \in Int, NEW b \in Int, NEW c \in Int, NEW q \in Nat, NEW r \in Nat,
             a - b <= d, a - c <= d
      PROVE  Beyond(a, b, c, d, -q - r, q, r) >= 0
  <2>1. -a \in Int /\ -b \in Int /\ -c \in Int /\ -b - (-a) <= d /\ -c - (-a) <= d
    BY <1>2
  <2>2. Beyond(-a, -b, -c, d, q + r, -q, -r) >= 0
    BY <1>1, <2>1
  <2>3. Beyond(-a, -b, -c, d, q + r, -q, -r) = Beyond(a, b, c, d, -q - r, q, r)
    BY DEF Beyond
  <2> QED
    BY <2>2, <2>3
<1>3. /\ Beyond(u, v, w, d, i, j, k) = Beyond(v, u, w, d, j, i, k)
      /\ Beyond(u, v, w, d, i, j, k) = Beyond(w, u, v, d, k, i, j)
  BY DEF Beyond
<1>4. /\ v - u <= d /\ w - u <= d /\ u - v <= d /\ w - v <= d /\ u - w <= d /\ v - w <= d
  BY DEF InCell
<1>5. CASE i >= 0 /\ j <= 0 /\ k <= 0
  <2>1. -j \in Nat /\ -k \in Nat /\ i = -j + -k /\ j = -(-j) /\ k = -(-k)
    BY <1>5
  <2>2. Beyond(u, v, w, d, -j + -k, -(-j), -(-k)) >= 0
    BY <1>1, <1>4, <2>1
  <2> QED
    BY <2>1, <2>2
<1>6. CASE i <= 0 /\ j >= 0 /\ k >= 0
  <2>1. j \in Nat /\ k \in Nat /\ i = -j - k
    BY <1>6
  <2>2. Beyond(u, v, w, d, -j - k, j, k) >= 0
    BY <1>2, <1>4, <2>1
  <2> QED
    BY <2>1, <2>2
<1>7. CASE j >= 0 /\ i <= 0 /\ k <= 0
  <2>1. -i \in Nat /\ -k \in Nat /\ j = -i + -k /\ i = -(-i) /\ k = -(-k)
    BY <1>7
  <2>2. Beyond(v, u, w, d, -i + -k, -(-i), -(-k)) >= 0
    BY <1>1, <1>4, <2>1
  <2> QED
    BY <1>3, <2>1, <2>2
<1>8. CASE j <= 0 /\ i >= 0 /\ k >= 0
  <2>1. i \in Nat /\ k \in Nat /\ j = -i - k
    BY <1>8
  <2>2. Beyond(v, u, w, d, -i - k, i, k) >= 0
    BY <1>2, <1>4, <2>1
  <2> QED
    BY <1>3, <2>1, <2>2
<1>9. CASE k >= 0 /\ i <= 0 /\ j <= 0
  <2>1. -i \in Nat /\ -j \in Nat /\ k = -i + -j /\ i = -(-i) /\ j = -(-j)
    BY <1>9
  <2>2. Beyond(w, u, v, d, -i + -j, -(-i), -(-j)) >= 0
    BY <1>1, <1>4, <2>1
  <2> QED
    BY <1>3, <2>1, <2>2
<1>10. CASE k <= 0 /\ i >= 0 /\ j >= 0
  <2>1. i \in Nat /\ j \in Nat /\ k = -i - j
    BY <1>10
  <2>2. Beyond(w, u, v, d, -i - j, i, j) >= 0
    BY <1>2, <1>4, <2>1
  <2> QED
    BY <1>3, <2>1, <2>2
<1> QED
  BY <1>5, <1>6, <1>7, <1>8, <1>9, <1>10

LEMMA CellIsNearest ==
  ASSUME NEW u \in Int, NEW v \in Int, NEW d \in Nat \ {0}, InCell(u, v, -u - v, d),
         NEW i \in Int, NEW j \in Int
  PROVE  Square(u, v) <= Square(u + i * d, v + j * d)
<1> DEFINE w == -u - v
           k == -i - j
           more == Beyond(u, v, w, d, i, j, k)
<1>1. w \in Int /\ k \in Int /\ i + j + k = 0
  OBVIOUS
<1>2. more >= 0
  BY <1>1, NothingNearer
<1>3. more \in Int
  BY <1>1 DEF Beyond
<1>4. Square(u + i * d, v + j * d) = Square(u, v) + d * more
  BY DEF Square, Beyond
<1>5. Square(u, v) \in Int
  BY DEF Square
<1> HIDE DEF more
<1>6. d * more \in Int /\ d * more >= 0
  BY <1>2, <1>3
<1> QED
  BY <1>4, <1>5, <1>6

(* Map.global finds the hexagon nearest to a position, on a map of any     *)
(* size, for positions between the centres of the rim.                     *)
THEOREM RoundingIsNearest ==
  ASSUME NEW d \in Nat \ {0}, NEW points \in SUBSET (Int \X Int),
         \A p \in points : /\ Abs(p[1]) <= N * d
                           /\ Abs(p[2]) <= N * d
                           /\ Abs(p[1] + p[2]) <= N * d
  PROVE  RoundIsNearest(points, d)
<1> SUFFICES ASSUME NEW p \in points
             PROVE  \E h \in Global(p[1], p[2], d) :
                      \A g \in Hexes : Square(h[1] * d - p[1], h[2] * d - p[2])
                                          <= Square(g[1] * d - p[1], g[2] * d - p[2])
  BY DEF RoundIsNearest
<1> DEFINE x == p[1]
           y == p[2]
           h == Round(x, y, d)
<1>1. x \in Int /\ y \in Int /\ N * d \in Int
  BY HexCoordinates
<1>2. /\ x <= N * d + 0 /\ -(N * d + 0) <= x
      /\ y <= N * d + 0 /\ -(N * d + 0) <= y
      /\ x + y <= N * d + 0 /\ -(N * d + 0) <= x + y
  <2> DEFINE nd == N * d
  <2>1. Abs(x) <= nd /\ Abs(y) <= nd /\ Abs(x + y) <= nd /\ nd \in Int
    BY <1>1
  <2> HIDE DEF nd
  <2>2. /\ x <= nd + 0 /\ -(nd + 0) <= x
        /\ y <= nd + 0 /\ -(nd + 0) <= y
        /\ x + y <= nd + 0 /\ -(nd + 0) <= x + y
    BY <1>1, <2>1 DEF Abs
  <2> QED
    BY <2>2 DEF nd
<1> HIDE DEF x, y
<1>3. h \in Hexes
  <2>1. 0 \in Nat /\ 3 * 0 < d
    OBVIOUS
  <2> QED
    BY <1>1, <1>2, <2>1, RoundOnMap
<1>4. h \in Global(x, y, d)
  BY <1>3 DEF Global
<1>5. ASSUME NEW g \in Hexes
      PROVE  Square(h[1] * d - x, h[2] * d - y) <= Square(g[1] * d - x, g[2] * d - y)
  <2> DEFINE u == h[1] * d - x
             v == h[2] * d - y
             i == g[1] - h[1]
             j == g[2] - h[2]
  <2>1. u \in Int /\ v \in Int /\ InCell(u, v, -u - v, d)
    BY <1>1, RoundEndsInCell
  <2>2. i \in Int /\ j \in Int
    BY <1>3, HexCoordinates
  <2>3. g[1] * d - x = u + i * d /\ g[2] * d - y = v + j * d
    BY <1>1, <1>3, HexCoordinates
  <2> HIDE DEF u, v, i, j
  <2>4. Square(u, v) <= Square(u + i * d, v + j * d)
    BY <2>1, <2>2, CellIsNearest
  <2> QED
    BY <2>3, <2>4 DEF u, v
<1> QED
  BY <1>4, <1>5 DEF x, y

-----------------------------------------------------------------------------
(* Line. *)

(* A number that is off by less than a half is the one Math.round returns. *)
LEMMA JsRoundIs ==
  ASSUME NEW x \in Int, NEW d \in Nat \ {0}, NEW k \in Int,
         -d < 2 * (k * d - x), 2 * (k * d - x) < d
  PROVE  JsRound(x, d) = k
<1> DEFINE r == JsRound(x, d)
<1>1. r \in Int /\ -d < 2 * (r * d - x) /\ 2 * (r * d - x) <= d
  BY RoundError
<1> HIDE DEF r
<1>2. (r + 1) * d = r * d + d /\ (k + 1) * d = k * d + d /\ r * d \in Int /\ k * d \in Int
  BY <1>1
<1>3. k * d < (r + 1) * d /\ r * d < (k + 1) * d
  BY <1>1, <1>2
<1>4. k < r + 1 /\ r < k + 1
  BY <1>1, <1>3, LessTimes
<1>5. r = k
  BY <1>1, <1>4
<1> QED
  BY <1>5 DEF r

LEMMA RoundIs ==
  ASSUME NEW x \in Int, NEW y \in Int, NEW d \in Nat \ {0}, NEW k \in Int, NEW l \in Int,
         -d < 2 * (k * d - x), 2 * (k * d - x) < d,
         -d < 2 * (l * d - y), 2 * (l * d - y) < d,
         -d < 2 * ((k + l) * d - (x + y)), 2 * ((k + l) * d - (x + y)) < d
  PROVE  Round(x, y, d) = <<k, l>>
<1> DEFINE p == Round(x, y, d)
           m == -k - l
<1>1. JsRound(x, d) = k /\ JsRound(y, d) = l
  BY JsRoundIs
<1>2. JsRound(-x - y, d) = m
  <2>1. m * d - (-x - y) = -((k + l) * d - (x + y))
    OBVIOUS
  <2>2. -x - y \in Int /\ m \in Int
    OBVIOUS
  <2> DEFINE z == -x - y
             f == (k + l) * d - (x + y)
  <2>3. f \in Int /\ -d < 2 * f /\ 2 * f < d
    OBVIOUS
  <2>4. -d < 2 * (m * d - z) /\ 2 * (m * d - z) < d
    <3>1. m * d - z = -f
      BY <2>1
    <3> HIDE DEF f, m, z
    <3> QED
      BY <2>3, <3>1
  <2> HIDE DEF m, z
  <2>5. JsRound(z, d) = m
    BY <2>2, <2>4, JsRoundIs DEF z
  <2> QED
    BY <2>5 DEF z
<1>3. Repairs(x, y, d, p, k, l, m, k + l + m)
  BY <1>1, <1>2, RoundRepairs
<1>4. k + l + m = 0
  OBVIOUS
<1> HIDE DEF p, m
<1>5. /\ p[1] \in Int /\ p[2] \in Int /\ p = <<p[1], p[2]>>
      /\ p[1] * d - x = k * d - x - 0 * d \/ p[1] * d - x = k * d - x
      /\ p[2] * d - y = l * d - y - 0 * d \/ p[2] * d - y = l * d - y
  BY <1>3, <1>4 DEF Repairs, Repair
<1>6. p[1] * d = k * d /\ p[2] * d = l * d
  BY <1>5
<1>7. \A i, j \in Int : i * d = j * d => i = j
  <2> SUFFICES ASSUME NEW i \in Int, NEW j \in Int, i * d = j * d PROVE i = j
    OBVIOUS
  <2>1. i * d < (j + 1) * d /\ j * d < (i + 1) * d
    OBVIOUS
  <2>2. i < j + 1 /\ j < i + 1
    BY <2>1, LessTimes
  <2> QED
    BY <2>2
<1>8. p[1] = k /\ p[2] = l
  BY <1>5, <1>6, <1>7
<1> QED
  BY <1>5, <1>8 DEF p

LEMMA Between ==
  ASSUME NEW n \in Nat, NEW k \in Int, NEW l \in Int, NEW u \in Nat, NEW v \in Nat,
         -n <= k, k <= n, -n <= l, l <= n
  PROVE  k * u + l * v <= n * (u + v) /\ -(n * (u + v)) <= k * u + l * v
<1>1. (n - k) * u >= 0 /\ (n - l) * v >= 0 /\ (n + k) * u >= 0 /\ (n + l) * v >= 0
  OBVIOUS
<1>2. /\ (n - k) * u + (n - l) * v = n * (u + v) - (k * u + l * v)
      /\ (n + k) * u + (n + l) * v = n * (u + v) + (k * u + l * v)
  OBVIOUS
<1> QED
  BY <1>1, <1>2

(* The number of samples is one more than the distance: the nudge does not *)
(* matter, the half does.                                                  *)
LEMMA StepsOfLine ==
  ASSUME NEW a \in Hexes, NEW b \in Hexes, NEW s, s = LineSteps(a, b),
         NEW dist, dist = Distance(a, b)
  PROVE  /\ s \in Nat \ {0} /\ dist \in Nat /\ dist <= 2 * N
         /\ 499998 <= s - dist * Nudge /\ s - dist * Nudge <= 500002
         /\ (s - 1) \div Nudge = dist
<1> DEFINE p == a[1] - b[1]
           q == a[2] - b[2]
           r == b[1] + b[2] - a[1] - a[2]
           len == Length(p * 1000000 + 1, q * 1000000 + 1, r * 1000000 - 2)
<1>1. /\ a[1] \in Int /\ a[2] \in Int /\ b[1] \in Int /\ b[2] \in Int
      /\ p \in Int /\ q \in Int /\ r \in Int
  BY HexCoordinates
<1>2. /\ Nudged(a[1]) - b[1] * Nudge = p * 1000000 + 1
      /\ Nudged(a[2]) - b[2] * Nudge = q * 1000000 + 1
      /\ (b[1] + b[2]) * Nudge - Nudged(a[1]) - Nudged(a[2]) = r * 1000000 - 2
  BY <1>1 DEF Nudged, Nudge
<1>3. s = len + 500000
  <2>1. s = Steps(len)
    BY <1>2 DEF LineSteps
  <2>2. Nudge \div 2 = 500000
    BY DEF Nudge
  <2> QED
    BY <2>1, <2>2 DEF Steps
<1>4. dist = Length(p, q, r)
  BY DEF Distance
<1>5. dist \in Nat /\ dist <= 2 * N
  <2>1. /\ -N <= a[1] /\ a[1] <= N /\ -N <= a[2] /\ a[2] <= N
        /\ -N <= a[1] + a[2] /\ a[1] + a[2] <= N
    BY <1>1, HexCoordinates DEF Hexes, Abs
  <2>2. /\ -N <= b[1] /\ b[1] <= N /\ -N <= b[2] /\ b[2] <= N
        /\ -N <= b[1] + b[2] /\ b[1] + b[2] <= N
    BY <1>1, HexCoordinates DEF Hexes, Abs
  <2>3. N \in Nat
    BY HexCoordinates
  <2> QED
    BY <1>1, <1>4, <2>1, <2>2, <2>3 DEF Length, Larger, Abs
<1>6. len \in Nat /\ -2 <= len - dist * 1000000 /\ len - dist * 1000000 <= 2
  <2> HIDE DEF p, q, r
  <2> QED
    BY <1>1, <1>4 DEF Length, Larger, Abs
<1>7. s \in Nat \ {0} /\ 499998 <= s - dist * 1000000 /\ s - dist * 1000000 <= 500002
  <2> HIDE DEF len
  <2> QED
    BY <1>3, <1>5, <1>6
<1>8. (s - 1) \div 1000000 = dist
  BY <1>5, <1>7
<1> QED
  BY <1>5, <1>7, <1>8 DEF Nudge

(* The samples of a line are on the map. *)
LEMMA SamplesOnMap ==
  ASSUME NEW a \in Hexes, NEW b \in Hexes, NEW i \in 0 .. Distance(a, b)
  PROVE  SampleAt(a, b, i) \in Hexes
<1> DEFINE s == LineSteps(a, b)
           dist == Distance(a, b)
           u == s - i * Nudge
           v == i * Nudge
           x == Nudged(a[1]) * i + b[1] * u
           y == Nudged(a[2]) * i + b[2] * u
<1>1. /\ s \in Nat \ {0} /\ dist \in Nat
      /\ 499998 <= s - dist * Nudge
  BY StepsOfLine
<1>2. i \in Nat /\ i <= dist /\ v = i * 1000000 /\ u = s - i * 1000000
  BY <1>1 DEF Nudge
<1>3. u \in Nat /\ v \in Nat /\ u + v = s /\ 3 * (2 * i) < s
  <2> HIDE DEF s, dist, u, v
  <2> QED
    BY <1>1, <1>2 DEF Nudge
<1>4. /\ a[1] \in Int /\ a[2] \in Int /\ b[1] \in Int /\ b[2] \in Int /\ N \in Nat
      /\ -N <= a[1] /\ a[1] <= N /\ -N <= a[2] /\ a[2] <= N
      /\ -N <= a[1] + a[2] /\ a[1] + a[2] <= N
  BY HexCoordinates DEF Hexes, Abs
<1>5. /\ -N <= b[1] /\ b[1] <= N /\ -N <= b[2] /\ b[2] <= N
      /\ -N <= b[1] + b[2] /\ b[1] + b[2] <= N
  BY HexCoordinates DEF Hexes, Abs
<1> HIDE DEF s, dist, u
<1>6. /\ x = a[1] * v + b[1] * u + i
      /\ y = a[2] * v + b[2] * u + i
      /\ x + y = (a[1] + a[2]) * v + (b[1] + b[2]) * u + 2 * i
      /\ x \in Int /\ y \in Int
  BY <1>2, <1>3, <1>4 DEF Nudged, Nudge
<1> HIDE DEF x, y, v
<1> DEFINE rim == N * (v + u)
<1>7. rim = N * s /\ rim \in Int
  BY <1>3, <1>4
<1>8. a[1] * v + b[1] * u <= rim /\ -rim <= a[1] * v + b[1] * u
  BY <1>3, <1>4, <1>5, Between
<1>9. a[2] * v + b[2] * u <= rim /\ -rim <= a[2] * v + b[2] * u
  BY <1>3, <1>4, <1>5, Between
<1>10. /\ (a[1] + a[2]) * v + (b[1] + b[2]) * u <= rim
       /\ -rim <= (a[1] + a[2]) * v + (b[1] + b[2]) * u
  <2>1. a[1] + a[2] \in Int /\ b[1] + b[2] \in Int
    BY <1>4
  <2> QED
    BY <1>3, <1>4, <1>5, <2>1, Between
<1> HIDE DEF rim
<1>11. /\ x <= rim + 2 * i /\ -(rim + 2 * i) <= x
       /\ y <= rim + 2 * i /\ -(rim + 2 * i) <= y
       /\ x + y <= rim + 2 * i /\ -(rim + 2 * i) <= x + y
  <2> DEFINE k == a[1] * v + b[1] * u
             l == a[2] * v + b[2] * u
             m == (a[1] + a[2]) * v + (b[1] + b[2]) * u
  <2>1. k \in Int /\ l \in Int /\ m \in Int
    BY <1>3, <1>4
  <2>2. /\ x = k + i /\ y = l + i /\ x + y = m + 2 * i
        /\ k <= rim /\ -rim <= k /\ l <= rim /\ -rim <= l /\ m <= rim /\ -rim <= m
    BY <1>6, <1>8, <1>9, <1>10
  <2> HIDE DEF k, l, m
  <2> QED
    BY <1>2, <1>6, <1>7, <2>1, <2>2
<1>12. Round(x, y, s) \in Hexes
  <2>1. 2 * i \in Nat
    BY <1>2
  <2> QED
    BY <1>1, <1>3, <1>6, <1>7, <1>11, <2>1, RoundOnMap
<1> QED
  BY <1>12 DEF SampleAt, x, y, u, s

LEMMA FirstSample ==
  ASSUME NEW a \in Hexes, NEW b \in Hexes
  PROVE  SampleAt(a, b, 0) = b
<1> DEFINE s == LineSteps(a, b)
<1>1. s \in Nat \ {0}
  BY StepsOfLine
<1>2. a[1] \in Int /\ a[2] \in Int /\ b[1] \in Int /\ b[2] \in Int /\ b = <<b[1], b[2]>>
  BY HexCoordinates
<1> HIDE DEF s
<1>3. /\ Nudged(a[1]) * 0 + b[1] * (s - 0 * Nudge) = b[1] * s
      /\ Nudged(a[2]) * 0 + b[2] * (s - 0 * Nudge) = b[2] * s
  BY <1>1, <1>2 DEF Nudged, Nudge
<1>4. SampleAt(a, b, 0) = Round(b[1] * s, b[2] * s, s)
  BY <1>3 DEF SampleAt, s
<1> DEFINE x == b[1] * s
           y == b[2] * s
<1>5. /\ x \in Int /\ y \in Int
      /\ b[1] * s - x = 0 /\ b[2] * s - y = 0 /\ (b[1] + b[2]) * s - (x + y) = 0
  BY <1>1, <1>2
<1> HIDE DEF x, y
<1>6. Round(x, y, s) = <<b[1], b[2]>>
  BY <1>1, <1>2, <1>5, RoundIs
<1> QED
  BY <1>2, <1>4, <1>6 DEF x, y

(* The last sample has passed the middle of the last hexagon's cell by an  *)
(* amount that grows with the distance: far beyond any map.                *)
LEMMA LastSample ==
  ASSUME NEW a \in Hexes, NEW b \in Hexes, FieldSize <= 30000
  PROVE  SampleAt(a, b, Distance(a, b)) = a
<1> DEFINE s == LineSteps(a, b)
           dist == Distance(a, b)
           u == s - dist * Nudge
           x == Nudged(a[1]) * dist + b[1] * u
           y == Nudged(a[2]) * dist + b[2] * u
           p == b[1] - a[1]
           q == b[2] - a[2]
<1>1. /\ s \in Nat \ {0} /\ dist \in Nat /\ dist <= 2 * N
      /\ 499998 <= u /\ u <= 500002
  BY StepsOfLine
<1>2. /\ a[1] \in Int /\ a[2] \in Int /\ b[1] \in Int /\ b[2] \in Int /\ a = <<a[1], a[2]>>
      /\ dist <= 60000
  BY <1>1, HexCoordinates, FieldSizeAssumption DEF N
<1>3. /\ -dist <= p /\ p <= dist /\ -dist <= q /\ q <= dist
      /\ -dist <= p + q /\ p + q <= dist
  BY <1>2 DEF Distance, Length, Larger, Abs
<1>4. s = dist * 1000000 + u /\ u \in Nat /\ p \in Int /\ q \in Int
  <2>1. u = s - dist * 1000000
    BY DEF Nudge
  <2> HIDE DEF s, dist, u
  <2> QED
    BY <1>1, <1>2, <2>1
<1>5. /\ Nudged(a[1]) = a[1] * 1000000 + 1 /\ Nudged(a[2]) = a[2] * 1000000 + 1
      /\ Nudged(a[1]) \in Int /\ Nudged(a[2]) \in Int
  BY <1>2 DEF Nudged, Nudge
<1> HIDE DEF s, dist, u
<1>6. /\ x \in Int /\ y \in Int
      /\ a[1] * s - x = -(p * u + dist)
      /\ a[2] * s - y = -(q * u + dist)
      /\ (a[1] + a[2]) * s - (x + y) = -((p + q) * u + 2 * dist)
  <2>1. x \in Int /\ y \in Int
    BY <1>1, <1>2, <1>4, <1>5
  <2>2. a[1] * s - x = -(p * u + dist)
    <3> DEFINE k == a[1]
               l == b[1]
    <3>1. k \in Int /\ l \in Int
      BY <1>2
    <3>2. x = Nudged(k) * dist + l * u /\ p = l - k
      OBVIOUS
    <3> HIDE DEF x, p, k, l
    <3>3. k * (dist * 1000000 + u) - ((k * 1000000 + 1) * dist + l * u) = -((l - k) * u + dist)
      BY <1>1, <1>4, <3>1
    <3>4. k * s - x = -(p * u + dist)
      BY <1>4, <3>2, <3>3 DEF Nudged, Nudge
    <3> QED
      BY <3>4 DEF k
  <2>3. a[2] * s - y = -(q * u + dist)
    <3> DEFINE k == a[2]
               l == b[2]
    <3>1. k \in Int /\ l \in Int
      BY <1>2
    <3>2. y = Nudged(k) * dist + l * u /\ q = l - k
      OBVIOUS
    <3> HIDE DEF y, q, k, l
    <3>3. k * (dist * 1000000 + u) - ((k * 1000000 + 1) * dist + l * u) = -((l - k) * u + dist)
      BY <1>1, <1>4, <3>1
    <3>4. k * s - y = -(q * u + dist)
      BY <1>4, <3>2, <3>3 DEF Nudged, Nudge
    <3> QED
      BY <3>4 DEF k
  <2>4. /\ (a[1] + a[2]) * s - (x + y) = (a[1] * s - x) + (a[2] * s - y)
        /\ -((p + q) * u + 2 * dist) = -(p * u + dist) + (-(q * u + dist))
    <3> HIDE DEF p, q, x, y
    <3> QED
      BY <1>1, <1>2, <1>4, <2>1
  <2> QED
    BY <2>1, <2>2, <2>3, <2>4
<1>7. \A k \in Int : -dist <= k /\ k <= dist =>
        /\ 2 * (k * u + dist) < s /\ -s < 2 * (k * u + dist)
        /\ 2 * (k * u + 2 * dist) < s /\ -s < 2 * (k * u + 2 * dist)
  <2> SUFFICES ASSUME NEW k \in Int, -dist <= k, k <= dist
               PROVE  /\ 2 * (k * u + dist) < s /\ -s < 2 * (k * u + dist)
                      /\ 2 * (k * u + 2 * dist) < s /\ -s < 2 * (k * u + 2 * dist)
    OBVIOUS
  <2>1. k * u <= dist * u /\ -(dist * u) <= k * u
    <3>1. (dist - k) * u >= 0 /\ (dist + k) * u >= 0
      BY <1>1, <1>4
    <3> QED
      BY <1>1, <1>4, <3>1
  <2>2. dist * u <= dist * 500002
    <3>1. dist * (500002 - u) >= 0
      BY <1>1, <1>4
    <3> QED
      BY <1>1, <1>4, <3>1
  <2> DEFINE ku == k * u
             du == dist * u
  <2>3. ku \in Int /\ du \in Int /\ ku <= du /\ -du <= ku /\ du <= dist * 500002
    BY <1>1, <1>4, <2>1, <2>2
  <2> HIDE DEF ku, du
  <2>4. /\ 2 * (ku + dist) < s /\ -s < 2 * (ku + dist)
        /\ 2 * (ku + 2 * dist) < s /\ -s < 2 * (ku + 2 * dist)
    BY <1>1, <1>2, <1>4, <2>3
  <2> QED
    BY <2>4 DEF ku
<1> DEFINE e == p * u + dist
           f == q * u + dist
           g == (p + q) * u + 2 * dist
<1>8. /\ 2 * e < s /\ -s < 2 * e /\ e \in Int
  BY <1>1, <1>3, <1>4, <1>7
<1>9. /\ 2 * f < s /\ -s < 2 * f /\ f \in Int
  BY <1>1, <1>3, <1>4, <1>7
<1>10. /\ 2 * g < s /\ -s < 2 * g /\ g \in Int
  <2>1. p + q \in Int
    BY <1>4
  <2> QED
    BY <1>1, <1>3, <1>4, <1>7, <2>1
<1>11. /\ a[1] * s - x = -e
       /\ a[2] * s - y = -f
       /\ (a[1] + a[2]) * s - (x + y) = -g
  BY <1>6
<1> HIDE DEF e, f, g, x, y
<1>12. /\ -s < 2 * (a[1] * s - x) /\ 2 * (a[1] * s - x) < s
       /\ -s < 2 * (a[2] * s - y) /\ 2 * (a[2] * s - y) < s
       /\ -s < 2 * ((a[1] + a[2]) * s - (x + y)) /\ 2 * ((a[1] + a[2]) * s - (x + y)) < s
  BY <1>1, <1>8, <1>9, <1>10, <1>11
<1>13. Round(x, y, s) = <<a[1], a[2]>>
  BY <1>1, <1>2, <1>6, <1>12, RoundIs
<1> QED
  BY <1>2, <1>13 DEF SampleAt, x, y, u, s, dist

(* The recursion of Condensed. *)
Lists(A, sample, n) ==
  A = [i \in 0 .. n |->
         IF i = 0 THEN <<sample[0]>>
         ELSE LET before == A[i - 1]
              IN  IF sample[i] = before[Len(before)] THEN before ELSE Append(before, sample[i])]

(* The sample i added to the list before. *)
Longer(before, s) == IF s = before[Len(before)] THEN before ELSE Append(before, s)

LEMMA ListsExist ==
  ASSUME NEW sample, NEW n \in Nat
  PROVE  \E A : Lists(A, sample, n)
<1> DEFINE Without == {k \in Nat : ~ \E A : Lists(A, sample, k)}
<1> SUFFICES ASSUME Without # {} PROVE FALSE
  OBVIOUS
<1>1. PICK m \in Without : \A k \in Without : m <= k
  BY LeastNumber
<1>2. m \in Nat /\ ~ \E A : Lists(A, sample, m)
  BY <1>1
<1>3. m # 0
  <2> DEFINE A == [k \in 0 .. 0 |-> <<sample[0]>>]
  <2>1. Lists(A, sample, 0)
    BY DEF Lists
  <2> QED
    BY <1>2, <2>1
<1>4. m - 1 \in Nat /\ m - 1 \notin Without
  BY <1>1, <1>2, <1>3
<1>5. PICK A : Lists(A, sample, m - 1)
  BY <1>4
<1>6. \A k \in 0 .. m - 1 :
        A[k] = IF k = 0 THEN <<sample[0]>> ELSE Longer(A[k - 1], sample[k])
  BY <1>5 DEF Lists, Longer
<1> DEFINE B == [k \in 0 .. m |-> IF k = m THEN Longer(A[m - 1], sample[m]) ELSE A[k]]
<1>7. \A k \in 0 .. m :
        B[k] = IF k = 0 THEN <<sample[0]>> ELSE Longer(B[k - 1], sample[k])
  <2> SUFFICES ASSUME NEW k \in 0 .. m
               PROVE  B[k] = IF k = 0 THEN <<sample[0]>>
                             ELSE Longer(B[k - 1], sample[k])
    OBVIOUS
  <2>1. CASE k = m
    <3>1. m - 1 \in 0 .. m /\ m - 1 # m
      BY <1>2, <1>4
    <3>2. B[m - 1] = A[m - 1] /\ B[m] = Longer(A[m - 1], sample[m])
      BY <1>2, <3>1
    <3> QED
      BY <1>3, <2>1, <3>2
  <2>2. CASE k # m
    <3>1. k \in 0 .. m - 1 /\ B[k] = A[k]
      BY <1>2, <2>2
    <3>2. A[k] = IF k = 0 THEN <<sample[0]>> ELSE Longer(A[k - 1], sample[k])
      BY <1>6, <3>1
    <3>3. k # 0 => B[k - 1] = A[k - 1]
      BY <1>2, <3>1
    <3> QED
      BY <3>1, <3>2, <3>3
  <2> QED
    BY <2>1, <2>2
<1>8. Lists(B, sample, m)
  <2>1. B = [k \in 0 .. m |-> B[k]]
    OBVIOUS
  <2> HIDE DEF B
  <2>2. B = [k \in 0 .. m |-> IF k = 0 THEN <<sample[0]>>
                              ELSE Longer(B[k - 1], sample[k])]
    BY <1>7, <2>1
  <2> QED
    BY <2>2 DEF Lists, Longer
<1> QED
  BY <1>2, <1>8

LEMMA LineUnfolds ==
  ASSUME NEW a \in Hexes, NEW b \in Hexes
  PROVE  \E A : /\ Line(a, b) = A[Distance(a, b)]
                /\ A[0] = <<SampleAt(a, b, 0)>>
                /\ \A k \in 1 .. Distance(a, b) : A[k] = Longer(A[k - 1], SampleAt(a, b, k))
<1> DEFINE last == (LineSteps(a, b) - 1) \div Nudge
           sample == [i \in 0 .. last |-> SampleAt(a, b, i)]
           A == CHOOSE B : Lists(B, sample, last)
<1>1. last = Distance(a, b) /\ Distance(a, b) \in Nat
  BY StepsOfLine
<1>2. Lists(A, sample, last)
  BY <1>1, ListsExist
<1>3. Line(a, b) = A[last]
  BY DEF Line, Condensed, Lists
<1> HIDE DEF A, last
<1>4. \A k \in 0 .. last :
        A[k] = IF k = 0 THEN <<SampleAt(a, b, 0)>> ELSE Longer(A[k - 1], SampleAt(a, b, k))
  <2>1. \A k \in 0 .. last : sample[k] = SampleAt(a, b, k)
    OBVIOUS
  <2>2. 0 \in 0 .. last
    BY <1>1
  <2> HIDE DEF sample
  <2>3. \A k \in 0 .. last : A[k] = IF k = 0 THEN <<sample[0]>> ELSE Longer(A[k - 1], sample[k])
    BY <1>2 DEF Lists, Longer
  <2> QED
    BY <2>1, <2>2, <2>3
<1>5. A[0] = <<SampleAt(a, b, 0)>> /\ \A k \in 1 .. last : A[k] = Longer(A[k - 1], SampleAt(a, b, k))
  BY <1>1, <1>4
<1> QED
  BY <1>1, <1>3, <1>5

(* Map.line leads from one end to the other and stays on the map, on every *)
(* map of at most 30000 hexagons from the centre to the rim.               *)
THEOREM LinesHaveBothEnds == FieldSize <= 30000 => LineHasBothEnds
<1> SUFFICES ASSUME FieldSize <= 30000, NEW a \in Hexes, NEW b \in Hexes
             PROVE  /\ Line(a, b)[1] = b
                    /\ Line(a, b)[Len(Line(a, b))] = a
                    /\ \A i \in 1 .. Len(Line(a, b)) : Line(a, b)[i] \in Hexes
  BY DEF LineHasBothEnds
<1> DEFINE dist == Distance(a, b)
<1>1. dist \in Nat
  BY StepsOfLine
<1>2. PICK A : /\ Line(a, b) = A[dist]
               /\ A[0] = <<SampleAt(a, b, 0)>>
               /\ \A k \in 1 .. dist : A[k] = Longer(A[k - 1], SampleAt(a, b, k))
  BY LineUnfolds
<1>3. \A i \in 0 .. dist : SampleAt(a, b, i) \in Hexes
  BY SamplesOnMap
<1> HIDE DEF dist
<1> DEFINE Good(k) == /\ A[k] \in Seq(Hexes) /\ Len(A[k]) > 0
                      /\ A[k][1] = b
                      /\ A[k][Len(A[k])] = SampleAt(a, b, k)
           Lengths == {k \in 0 .. dist : Good(k)}
<1>4. 0 \in Lengths
  <2>1. SampleAt(a, b, 0) = b
    BY FirstSample
  <2>2. Good(0)
    BY <1>2, <2>1
  <2> QED
    BY <1>1, <2>2
<1>5. ASSUME NEW k \in 1 .. dist, k - 1 \in Lengths PROVE k \in Lengths
  <2> DEFINE before == A[k - 1]
             s == SampleAt(a, b, k)
  <2>1. before \in Seq(Hexes) /\ Len(before) > 0 /\ before[1] = b
    BY <1>5
  <2>2. s \in Hexes
    BY <1>1, <1>3
  <2>3. A[k] = Longer(before, s)
    BY <1>2
  <2> HIDE DEF before, s
  <2>4. CASE s = before[Len(before)]
    <3>1. A[k] = before
      BY <2>3, <2>4 DEF Longer
    <3> QED
      BY <1>1, <2>1, <2>4, <3>1 DEF s
  <2>5. CASE s # before[Len(before)]
    <3>1. A[k] = Append(before, s)
      BY <2>3, <2>5 DEF Longer
    <3>2. /\ Append(before, s) \in Seq(Hexes) /\ Len(Append(before, s)) = Len(before) + 1
          /\ Append(before, s)[1] = b
          /\ Append(before, s)[Len(before) + 1] = s
      BY <2>1, <2>2
    <3>3. Len(before) + 1 > 0
      BY <2>1
    <3> QED
      BY <1>1, <3>1, <3>2, <3>3 DEF s
  <2> QED
    BY <2>4, <2>5
<1>6. dist \in Lengths
  <2> HIDE DEF Lengths
  <2> QED
    BY <1>1, <1>4, <1>5, UpTo
<1>7. SampleAt(a, b, dist) = a
  BY LastSample DEF dist
<1>8. Good(dist)
  BY <1>6
<1> DEFINE line == Line(a, b)
<1>9. line \in Seq(Hexes) /\ line[1] = b /\ line[Len(line)] = a
  BY <1>2, <1>7, <1>8
<1> HIDE DEF line
<1>10. \A i \in 1 .. Len(line) : line[i] \in Hexes
  BY <1>9
<1> QED
  BY <1>9, <1>10 DEF line
=============================================================================
