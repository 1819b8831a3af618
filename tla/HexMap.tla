-------------------------------- MODULE HexMap --------------------------------
(***************************************************************************)
(* The hexagonal map (map.js, hexagon.js).  A hexagon is the pair <<q, r>> *)
(* of its axial coordinates; its cube coordinates are q, r and -q-r.  A    *)
(* set of hexagons stands for the hexagons whose unit is not null.         *)
(*                                                                         *)
(* Fractional positions are integers over a common denominator.            *)
(***************************************************************************)
EXTENDS Integers, Sequences, FiniteSets

CONSTANT FieldSize  \* FIELD_SIZE of config.js

ASSUME FieldSizeAssumption == FieldSize \in Nat \ {0}

N == FieldSize - 1

Abs(x) == IF x < 0 THEN -x ELSE x

Larger(x, y) == IF x > y THEN x ELSE y

Hexes == {h \in (-N .. N) \X (-N .. N) : Abs(h[1] + h[2]) <= N}

(* Cube.distanceTo for cube coordinates that differ by x, y and z. *)
Length(x, y, z) == Larger(Larger(Abs(x), Abs(y)), Abs(z))

Distance(a, b) == Length(a[1] - b[1], a[2] - b[2], b[1] + b[2] - a[1] - a[2])

-----------------------------------------------------------------------------
(* Mutant of Directions: the loop ends one direction too early. *)
DirectionsButLast == {<<1, 0>>, <<1, -1>>, <<0, -1>>, <<-1, 0>>, <<-1, 1>>}

Directions == {<<1, 0>>, <<1, -1>>, <<0, -1>>, <<-1, 0>>, <<-1, 1>>, <<0, 1>>}

(* Mutant of Neighbors: hexagons off the map are not left out. *)
NeighborsAnywhere(h) == {<<h[1] + d[1], h[2] + d[2]>> : d \in Directions}

Neighbors(h) == {<<h[1] + d[1], h[2] + d[2]>> : d \in Directions} \cap Hexes

(* Mutant of RangeOf: the test of the sum is gone. *)
RangeSquare(h, n) == {<<h[1] + d[1], h[2] + d[2]>> : d \in (-n .. n) \X (-n .. n)} \cap Hexes

(* Map.range: the offsets dx, dy, dz of at most n each whose sum is zero. *)
RangeOf(h, n) ==
  LET offsets == {d \in (-n .. n) \X (-n .. n) : -(d[1] + d[2]) \in -n .. n}
  IN  {<<h[1] + d[1], h[2] + d[2]>> : d \in offsets} \cap Hexes

(* Map.reachable: fringe after fringe.  "blocked" holds the hexagons that  *)
(* may not be entered: those with a unit, or none if checkCollision is     *)
(* false.                                                                  *)
Widened(before, blocked) ==
  LET new == (UNION {Neighbors(g) : g \in before.fringe}) \ (before.visited \cup blocked)
  IN  [visited |-> before.visited \cup new, fringe |-> new]

Reachable(h, n, blocked) ==
  LET After[k \in 0 .. n] ==
        IF k = 0 THEN [visited |-> {h}, fringe |-> {h}] ELSE Widened(After[k - 1], blocked)
  IN  After[n].visited

-----------------------------------------------------------------------------
(* Math.round(x / d): halves go up. *)
JsRound(x, d) == (2 * x + d) \div (2 * d)

(* Mutant of Round: each coordinate is rounded, none is repaired. *)
RoundUnrepaired(x, y, d) == <<JsRound(x, d), JsRound(y, d)>>

(* Cube.round at <<x/d, y/d, -(x+y)/d>>: the coordinate that was rounded   *)
(* with the largest error is computed from the other two.                  *)
Round(x, y, d) ==
  LET z == -x - y
      rx == JsRound(x, d)
      ry == JsRound(y, d)
      rz == JsRound(z, d)
      ex == Abs(rx * d - x)
      ey == Abs(ry * d - y)
      ez == Abs(rz * d - z)
  IN  IF ex > ey /\ ex > ez THEN <<-ry - rz, ry>>
      ELSE IF ey > ez THEN <<rx, -rx - rz>>
      ELSE <<rx, ry>>

(* Map.global at the axial position <<x/d, y/d>> of a point on the screen:  *)
(* the hexagon there, or none (null) off the map.                          *)
Global(x, y, d) == {Round(x, y, d)} \cap Hexes

(* Map.line from b to a: a is nudged by 1/Nudge off the edges between      *)
(* hexagons; samples are taken at i/steps of the way, i = 0, 1, ..., where *)
(* steps (here times Nudge) is half more than the distance, so that the    *)
(* last sample falls into a.  Equal samples in a row count once.           *)
Nudge == 1000000

(* Mutant of Steps: without the half. *)
StepsShort(d) == d

Steps(d) == d + Nudge \div 2

Nudged(k) == k * Nudge + 1

LineSteps(a, b) ==
  Steps(Length(Nudged(a[1]) - b[1] * Nudge, Nudged(a[2]) - b[2] * Nudge,
               (b[1] + b[2]) * Nudge - Nudged(a[1]) - Nudged(a[2])))

SampleAt(a, b, i) ==
  LET steps == LineSteps(a, b)
  IN  Round(Nudged(a[1]) * i + b[1] * (steps - i * Nudge),
            Nudged(a[2]) * i + b[2] * (steps - i * Nudge), steps)

Condensed(sample, last) ==
  LET List[i \in 0 .. last] ==
        IF i = 0 THEN <<sample[0]>>
        ELSE LET before == List[i - 1]
             IN  IF sample[i] = before[Len(before)] THEN before ELSE Append(before, sample[i])
  IN  List[last]

Line(a, b) ==
  LET last == (LineSteps(a, b) - 1) \div Nudge
  IN  Condensed([i \in 0 .. last |-> SampleAt(a, b, i)], last)

-----------------------------------------------------------------------------
(* Properties. *)

Ball(h, n) == {g \in Hexes : Distance(g, h) <= n}

(* Map.range and, without collisions, Map.reachable both give the          *)
(* hexagons at the distance asked for: offsets, walks and distanceTo agree, *)
(* the rim of the map included.                                            *)
RangeIsBall == \A h \in Hexes, n \in 0 .. 2 * N : RangeOf(h, n) = Ball(h, n)

ReachableIsBall == \A h \in Hexes, n \in 0 .. 2 * N : Reachable(h, n, {}) = Ball(h, n)

(* The sum of the squares of the cube coordinates: twice the square of the *)
(* Euclidean distance.                                                     *)
Square(x, y) == x * x + y * y + (x + y) * (x + y)

(* Map.global finds a hexagon for every point among the centres, and none  *)
(* whose centre is farther away than another's; so Cube.round also does at *)
(* points halfway between centres, whichever coordinates it rounds up.     *)
RoundIsNearest(points, d) ==
  \A p \in points :
    \E h \in Global(p[1], p[2], d) :
      \A g \in Hexes :
        Square(h[1] * d - p[1], h[2] * d - p[2]) <= Square(g[1] * d - p[1], g[2] * d - p[2])

(* Map.line leads from one end to the other ("we always want to include A   *)
(* to the list", map.js) and stays on the map.  It may leave gaps: between  *)
(* <<-2, 2>> and <<-4, 0>>, along the edges of hexagons, it misses one.     *)
LineHasBothEnds ==
  \A a, b \in Hexes :
    LET line == Line(a, b)
    IN  /\ line[1] = b
        /\ line[Len(line)] = a
        /\ \A i \in 1 .. Len(line) : line[i] \in Hexes
=============================================================================
