------------------------------ MODULE Astar_proofs ------------------------------
(***************************************************************************)
(* What astar.js returns, for a map of any size and units anywhere.        *)
(***************************************************************************)
EXTENDS MCAstar, HexMap_proofs, FiniteSetTheorems

(* A neighbour is on the map and is another hexagon. *)
LEMMA NeighborIsOther ==
  ASSUME NEW h \in Hexes, NEW g \in Neighbors(h)
  PROVE  g \in Hexes /\ g # h
<1>1. h[1] \in Int /\ h[2] \in Int /\ h = <<h[1], h[2]>>
  BY FieldSizeAssumption DEF Hexes, N
<1>2. PICK d \in Directions : g = <<h[1] + d[1], h[2] + d[2]>>
  BY DEF Neighbors
<1>3. d[1] \in Int /\ d[2] \in Int /\ (d[1] # 0 \/ d[2] # 0)
  BY DEF Directions
<1>4. g # h
  BY <1>1, <1>2, <1>3
<1> QED
  BY <1>4 DEF Neighbors

LEMMA OriginOnMap == Origin \in Hexes
  BY FieldSizeAssumption DEF Origin, Hexes, N, Abs

(* A node in front of a path. *)
LEMMA Prepend ==
  ASSUME NEW h \in Hexes, NEW n \in Node
  PROVE  /\ <<h>> \o n \in Node
         /\ Len(n) \in Nat \ {0}
         /\ Len(<<h>> \o n) = Len(n) + 1
         /\ (<<h>> \o n)[1] = h
         /\ \A i \in 2 .. Len(n) + 1 : (<<h>> \o n)[i] = n[i - 1]
  BY DEF Node

LEMMA FirstOnMap ==
  ASSUME NEW n \in Node
  PROVE  n[1] \in Hexes
  BY DEF Node

-----------------------------------------------------------------------------
(* A search, from its call through the turns of its loop to what it returns. *)

LEMMA InitTyped == Init => TypeOK
  BY OriginOnMap DEF Init, TypeOK

LEMMA CallTyped ==
  ASSUME TypeOK, NEW s \in Hexes, NEW g \in Hexes, NEW taken \in SUBSET Hexes,
         Call(s, g, taken)
  PROVE  TypeOK'
<1>1. <<s>> \in Node /\ << >> \in Seq(Hexes)
  BY DEF Node
<1>2. openset' \subseteq Node
  BY <1>1 DEF Call
<1> QED
  BY <1>1, <1>2 DEF Call, TypeOK

LEMMA ExpandTyped ==
  ASSUME TypeOK, NEW n \in openset, Expand(n)
  PROVE  TypeOK'
<1> USE DEF TypeOK
<1>1. \A h \in Fresh(n[1]) : <<h>> \o n \in Node
  BY Prepend DEF Fresh, Free, Neighbors
<1>2. openset' \subseteq Node
  BY <1>1 DEF Expand, Others
<1>3. closed' \subseteq Hexes
  <2>1. n[1] \in Hexes
    BY FirstOnMap
  <2> QED
    BY <2>1 DEF Expand
<1> QED
  BY <1>2, <1>3 DEF Expand

LEMMA TurnTyped == TypeOK /\ Turn => TypeOK'
<1> SUFFICES ASSUME TypeOK, Turn PROVE TypeOK'
  OBVIOUS
<1>1. CASE Fail
  BY <1>1 DEF Fail, TypeOK
<1>2. ASSUME NEW n \in Best, Found(n) PROVE TypeOK'
  BY <1>2 DEF Best, Found, Node, TypeOK
<1> QED
  BY <1>1, <1>2, ExpandTyped DEF Turn, Best

(* TypeOK holds of every search. *)
THEOREM TypeCorrect == Spec => []TypeOK
<1>1. TypeOK /\ UNCHANGED vars => TypeOK'
  BY DEF TypeOK, vars
<1>2. TypeOK /\ [Next]_vars => TypeOK'
  BY <1>1, CallTyped, TurnTyped DEF Next
<1> QED
  BY <1>2, InitTyped, PTL DEF Spec

-----------------------------------------------------------------------------
(* The inductive invariant.  Every open node is a walk back to the start   *)
(* over closed hexagons, and the only one with its first hexagon.          *)
Trees ==
  /\ \A n \in openset :
       /\ FreeWalk(n)
       /\ n[1] \notin closed
       /\ \A i \in 2 .. Len(n) : n[i] \in closed
  /\ \A m, n \in openset : m[1] = n[1] => m = n

(* The closed hexagons are left for open ones only; the goal is not among  *)
(* them.                                                                   *)
Frontier ==
  pc # "idle" /\ start # goal =>
    /\ start \in closed \cup Heads
    /\ goal \notin closed
    /\ \A h \in closed : Free(h) \subseteq closed \cup Heads

Outcome ==
  /\ pc = "search" => path = << >> /\ start # goal
  /\ pc = "done" /\ path = << >> /\ start # goal => openset = {}

(* The goal is cut off: there is a set of hexagons with the start in it    *)
(* and the goal outside that no free neighbour leaves.                     *)
CutOff ==
  \E S \in SUBSET Hexes :
    /\ start \in S
    /\ goal \notin S
    /\ \A h \in S : Free(h) \subseteq S

(* A node grown by a fresh hexagon is again a walk. *)
LEMMA GrownNode ==
  ASSUME TypeOK, Trees, NEW n \in openset, NEW h \in Fresh(n[1]), NEW m, m = <<h>> \o n
  PROVE  /\ m \in Node
         /\ Len(m) \in Nat
         /\ FreeWalk(m)
         /\ m[1] = h
         /\ h \notin closed \cup Heads
         /\ h # n[1]
         /\ \A i \in 2 .. Len(m) : m[i] \in closed \cup {n[1]}
<1>1. n \in Node /\ n[1] \in Hexes
  BY FirstOnMap DEF TypeOK
<1>2. h \in Free(n[1]) /\ h \notin closed \cup Heads /\ h \in Hexes /\ h # n[1]
  BY <1>1, NeighborIsOther DEF Fresh, Free
<1>3. /\ m \in Node
      /\ Len(n) \in Nat \ {0}
      /\ Len(m) = Len(n) + 1
      /\ m[1] = h
      /\ \A i \in 2 .. Len(n) + 1 : m[i] = n[i - 1]
  BY <1>1, <1>2, Prepend
<1>4. /\ n[Len(n)] = start
      /\ \A i \in 1 .. Len(n) - 1 : n[i] \in Free(n[i + 1])
      /\ \A i, j \in 1 .. Len(n) : n[i] = n[j] => i = j
      /\ \A i \in 2 .. Len(n) : n[i] \in closed
  BY DEF Trees, FreeWalk, Free
<1>5. \A i \in 2 .. Len(m) : m[i] \in closed \cup {n[1]}
  BY <1>3, <1>4
<1>6. m[Len(m)] = start
  BY <1>3, <1>4
<1>7. \A i \in 1 .. Len(m) - 1 : m[i] \in Free(m[i + 1])
  <2> SUFFICES ASSUME NEW i \in 1 .. Len(m) - 1 PROVE m[i] \in Free(m[i + 1])
    OBVIOUS
  <2>1. CASE i = 1
    BY <2>1, <1>2, <1>3
  <2>2. CASE i # 1
    <3>1. m[i] = n[i - 1] /\ m[i + 1] = n[i] /\ i - 1 \in 1 .. Len(n) - 1 /\ (i - 1) + 1 = i
      BY <2>2, <1>3
    <3> QED
      BY <3>1, <1>4
  <2> QED
    BY <2>1, <2>2
<1>8. \A i, j \in 1 .. Len(m) : m[i] = m[j] => i = j
  <2>1. \A i \in 2 .. Len(m) : m[i] # h
    BY <1>2, <1>5
  <2>2. \A i, j \in 2 .. Len(m) : m[i] = m[j] => i = j
    <3> SUFFICES ASSUME NEW i \in 2 .. Len(m), NEW j \in 2 .. Len(m), m[i] = m[j] PROVE i = j
      OBVIOUS
    <3>1. n[i - 1] = n[j - 1] /\ i - 1 \in 1 .. Len(n) /\ j - 1 \in 1 .. Len(n)
      BY <1>3
    <3>2. i - 1 = j - 1
      BY <3>1, <1>4
    <3> QED
      BY <3>2
  <2> QED
    BY <2>1, <2>2, <1>3
<1> QED
  BY <1>2, <1>3, <1>5, <1>6, <1>7, <1>8 DEF FreeWalk, Free

SearchInv == TypeOK /\ Trees /\ Frontier /\ Outcome /\ PathIsFreeWalk

(* One turn that expands a node keeps the trees and the frontier. *)
LEMMA ExpandKeeps ==
  ASSUME SearchInv, TypeOK', NEW n \in openset, Expand(n)
  PROVE  SearchInv'
<1> DEFINE Grown == {<<h>> \o n : h \in Fresh(n[1])}
<1>1. /\ openset' = Others(n) \cup Grown
      /\ closed' = closed \cup {n[1]}
      /\ n[1] # goal /\ pc = "search"
      /\ UNCHANGED <<pc, units, start, goal, path>>
  BY DEF Expand
<1>2. \A h : Free(h)' = Free(h)
  BY <1>1 DEF Free
<1>3. \A p : FreeWalk(p)' <=> FreeWalk(p)
  BY <1>1, <1>2 DEF FreeWalk
<1>4. TypeOK /\ Trees /\ Frontier /\ Outcome /\ PathIsFreeWalk
  BY DEF SearchInv
<1>5. \A m \in Grown :
        /\ FreeWalk(m)
        /\ m[1] \in Fresh(n[1])
        /\ m = <<m[1]>> \o n
        /\ m[1] \notin closed \cup Heads
        /\ m[1] # n[1]
        /\ \A i \in 2 .. Len(m) : m[i] \in closed \cup {n[1]}
  <2> TAKE m \in Grown
  <2>1. PICK h \in Fresh(n[1]) : m = <<h>> \o n
    OBVIOUS
  <2> HIDE DEF Grown
  <2>2. FreeWalk(m)
    BY <1>4, <2>1, GrownNode
  <2>3. m[1] = h
    BY <1>4, <2>1, GrownNode
  <2>4. h \notin closed \cup Heads /\ h # n[1]
    BY <1>4, <2>1, GrownNode
  <2>5. \A i \in 2 .. Len(m) : m[i] \in closed \cup {n[1]}
    BY <1>4, <2>1, GrownNode
  <2>6. m = <<m[1]>> \o n /\ m[1] \in Fresh(n[1])
    BY <2>1, <2>3
  <2> QED
    BY <2>2, <2>3, <2>4, <2>5, <2>6
<1>6. \A m \in Others(n) :
        /\ m \in openset
        /\ m[1] \in Heads
        /\ m[1] # n[1]
        /\ m[1] \notin closed
  BY <1>4 DEF Others, Heads, Trees
<1>7. Trees'
  <2>1. ASSUME NEW m \in openset'
        PROVE  /\ FreeWalk(m)
               /\ m[1] \notin closed'
               /\ \A i \in 2 .. Len(m) : m[i] \in closed'
    <3>1. CASE m \in Others(n)
      BY <3>1, <1>1, <1>4, <1>6 DEF Trees
    <3>2. CASE m \in Grown
      BY <3>2, <1>1, <1>5
    <3> QED
      BY <3>1, <3>2, <1>1
  <2>2. ASSUME NEW m \in openset', NEW k \in openset', m[1] = k[1]
        PROVE  m = k
    <3>1. CASE m \in Others(n) /\ k \in Others(n)
      BY <3>1, <2>2, <1>4, <1>6 DEF Trees
    <3>2. CASE m \in Grown /\ k \in Grown
      BY <3>2, <2>2, <1>5
    <3>3. CASE (m \in Others(n) /\ k \in Grown) \/ (m \in Grown /\ k \in Others(n))
      BY <3>3, <2>2, <1>5, <1>6
    <3> QED
      BY <3>1, <3>2, <3>3, <1>1
  <2> QED
    BY <2>1, <2>2, <1>3 DEF Trees
<1>8. Heads \cup Fresh(n[1]) \subseteq Heads' \cup {n[1]}
  <2>1. \A h \in Fresh(n[1]) : <<h>> \o n \in openset' /\ (<<h>> \o n)[1] = h
    BY <1>1, <1>4, GrownNode
  <2>2. \A m \in openset : m[1] = n[1] \/ m \in openset'
    BY <1>1 DEF Others
  <2> QED
    BY <2>1, <2>2 DEF Heads
<1>9. Frontier'
  <2> SUFFICES ASSUME pc' # "idle", start' # goal'
               PROVE  /\ start' \in closed' \cup Heads'
                      /\ goal' \notin closed'
                      /\ \A h \in closed' : Free(h) \subseteq closed' \cup Heads'
    BY <1>2 DEF Frontier
  <2>1. /\ start \in closed \cup Heads
        /\ goal \notin closed
        /\ \A h \in closed : Free(h) \subseteq closed \cup Heads
    BY <1>1, <1>4 DEF Frontier
  <2>2. closed \cup Heads \cup Fresh(n[1]) \subseteq closed' \cup Heads'
    BY <1>1, <1>8
  <2>3. Free(n[1]) \subseteq closed \cup Heads \cup Fresh(n[1])
    BY DEF Fresh
  <2> QED
    BY <2>1, <2>2, <2>3, <1>1
<1>10. Outcome'
  BY <1>1, <1>4 DEF Outcome
<1>11. PathIsFreeWalk'
  BY <1>1, <1>3, <1>4 DEF PathIsFreeWalk
<1> QED
  BY <1>7, <1>9, <1>10, <1>11 DEF SearchInv

(* A call starts with one node, the start. *)
LEMMA CallStarts ==
  ASSUME TypeOK', NEW s \in Hexes, NEW g \in Hexes, NEW taken, Call(s, g, taken)
  PROVE  SearchInv'
<1>1. /\ start' = s /\ goal' = g /\ closed' = {} /\ path' = << >>
      /\ openset' = IF s = g THEN {} ELSE {<<s>>}
      /\ pc' = IF s = g THEN "done" ELSE "search"
  BY DEF Call
<1>2. Len(<<s>>) = 1 /\ <<s>>[1] = s
  OBVIOUS
<1>3. Trees'
  <2>1. FreeWalk(<<s>>)'
    BY <1>1, <1>2 DEF FreeWalk
  <2>2. \A n \in openset' : n = <<s>>
    BY <1>1
  <2>3. \A n \in openset' : n[1] \notin closed' /\ \A i \in 2 .. Len(n) : n[i] \in closed'
    <3>1. \A i \in 2 .. Len(<<s>>) : FALSE
      BY <1>2
    <3> QED
      BY <2>2, <1>1, <3>1
  <2>4. \A n \in openset' : FreeWalk(n)'
    BY <2>1, <2>2
  <2> QED
    BY <2>2, <2>3, <2>4 DEF Trees
<1>4. Frontier'
  BY <1>1, <1>2 DEF Frontier, Heads
<1>5. Outcome' /\ PathIsFreeWalk'
  BY <1>1 DEF Outcome, PathIsFreeWalk
<1> QED
  BY <1>3, <1>4, <1>5 DEF SearchInv

LEMMA InitSearch == Init => SearchInv
<1> SUFFICES ASSUME Init PROVE SearchInv
  OBVIOUS
<1>1. Trees /\ Frontier /\ Outcome /\ PathIsFreeWalk
  BY DEF Init, Trees, Frontier, Outcome, PathIsFreeWalk
<1> QED
  BY <1>1, InitTyped DEF SearchInv

LEMMA FoundEnds ==
  ASSUME SearchInv, TypeOK', NEW n \in openset, Found(n)
  PROVE  SearchInv'
<1>1. /\ path' = n /\ n[1] = goal /\ pc = "search" /\ pc' = "done"
      /\ UNCHANGED <<units, start, goal, openset, closed>>
  BY DEF Found
<1>2. Trees' /\ Frontier'
  BY <1>1 DEF SearchInv, Trees, Frontier, FreeWalk, Free, Heads
<1>3. n # << >>
  BY DEF SearchInv, TypeOK, Node
<1>4. FreeWalk(n)'
  BY <1>1 DEF SearchInv, Trees, FreeWalk, Free
<1>5. Outcome' /\ PathIsFreeWalk'
  BY <1>1, <1>3, <1>4 DEF Outcome, PathIsFreeWalk
<1> QED
  BY <1>2, <1>5 DEF SearchInv

LEMMA FailEnds == SearchInv /\ TypeOK' /\ Fail => SearchInv'
<1> SUFFICES ASSUME SearchInv, TypeOK', Fail PROVE SearchInv'
  OBVIOUS
<1>1. /\ openset = {} /\ pc = "search" /\ pc' = "done"
      /\ UNCHANGED <<units, start, goal, openset, closed, path>>
  BY DEF Fail
<1> QED
  BY <1>1 DEF SearchInv, Trees, Frontier, Outcome, PathIsFreeWalk, FreeWalk, Free, Heads

LEMMA StepSearch == SearchInv /\ TypeOK' /\ [Next]_vars => SearchInv'
<1> SUFFICES ASSUME SearchInv, TypeOK', [Next]_vars PROVE SearchInv'
  OBVIOUS
<1>1. CASE vars' = vars
  BY <1>1 DEF vars, SearchInv, Trees, Frontier, Outcome, PathIsFreeWalk, FreeWalk, Free, Heads
<1>2. CASE Turn
  BY <1>2, ExpandKeeps, FoundEnds, FailEnds DEF Turn, Best
<1> QED
  BY <1>1, <1>2, CallStarts DEF Next

LEMMA SearchInvariant == Spec => []SearchInv
  BY InitSearch, StepSearch, TypeCorrect, PTL DEF Spec

(* What astar returns is a walk a unit can take. *)
THEOREM PathsAreWalks == Spec => []PathIsFreeWalk
<1>1. SearchInv => PathIsFreeWalk
  BY DEF SearchInv
<1> QED
  BY <1>1, SearchInvariant, PTL

(* astar returns nothing only if the start is the goal or the goal is cut  *)
(* off from it: greedy though the search is, it misses no path.            *)
THEOREM FailsOnlyIfCutOff ==
  Spec => [](pc = "done" /\ path = << >> => start = goal \/ CutOff)
<1>1. SearchInv => (pc = "done" /\ path = << >> => start = goal \/ CutOff)
  <2> SUFFICES ASSUME SearchInv, pc = "done", path = << >>, start # goal
               PROVE  CutOff
    OBVIOUS
  <2>1. openset = {}
    BY DEF SearchInv, Outcome
  <2>2. Heads = {}
    BY <2>1 DEF Heads
  <2>3. closed \in SUBSET Hexes
    BY DEF SearchInv, TypeOK
  <2>4. /\ start \in closed
        /\ goal \notin closed
        /\ \A h \in closed : Free(h) \subseteq closed
    BY <2>2 DEF SearchInv, Frontier
  <2> QED
    BY <2>3, <2>4 DEF CutOff
<1> QED
  BY <1>1, SearchInvariant, PTL

LEMMA HexesFinite == IsFiniteSet(Hexes)
<1>1. -N \in Int /\ N \in Int
  BY FieldSizeAssumption DEF N
<1>2. IsFiniteSet(-N .. N)
  BY <1>1, FS_Interval
<1>3. IsFiniteSet((-N .. N) \X (-N .. N))
  BY <1>2, FS_Product
<1> QED
  BY <1>3, FS_Subset DEF Hexes

(* In particular Map.reachable, whatever its range, does not get there:    *)
(* a unit that may move to a hexagon is given a path to it.                *)
THEOREM FailsOnlyIfUnreachable == Spec => []FailsOnlyIfWalled
<1>1. CutOff => goal \notin Reachable(start, Cardinality(Hexes), units)
  <2> SUFFICES ASSUME CutOff PROVE goal \notin Reachable(start, Cardinality(Hexes), units)
    OBVIOUS
  <2>1. PICK S \in SUBSET Hexes :
           start \in S /\ goal \notin S /\ \A h \in S : Free(h) \subseteq S
    BY DEF CutOff
  <2>2. \A h \in S : Neighbors(h) \ units \subseteq S
    BY <2>1 DEF Free
  <2>3. Cardinality(Hexes) \in Nat
    BY HexesFinite, FS_CardinalityType
  <2>4. Reachable(start, Cardinality(Hexes), units) \subseteq S
    BY <2>1, <2>2, <2>3, ReachableStaysInside
  <2> QED
    BY <2>1, <2>4
<1>2. (pc = "done" /\ path = << >> => start = goal \/ CutOff) => FailsOnlyIfWalled
  BY <1>1 DEF FailsOnlyIfWalled
<1> QED
  BY <1>2, FailsOnlyIfCutOff, PTL

-----------------------------------------------------------------------------
(* The map that is looked at as a map, of any size. *)

F == INSTANCE HexMap_proofs WITH FieldSize <- MapSize

(* On a map of any size Map.range gives exactly the hexagons within range. *)
THEOREM FieldRangesAreBalls == MCSpec => []FieldRange
<1>1. F!RangeIsBall
  BY F!RangesAreBalls, MapAssumption
<1>2. Field!RangeIsBall
  BY <1>1 DEF F!RangeIsBall, F!RangeOf, F!Ball, F!Hexes, F!N, F!Abs, F!Distance, F!Length,
     F!Larger, Field!RangeIsBall, Field!RangeOf, Field!Ball, Field!Hexes, Field!N, Field!Abs,
     Field!Distance, Field!Length, Field!Larger
<1>3. FieldRange
  BY <1>2 DEF FieldRange
<1> QED
  BY <1>3, PTL

(* So does Map.reachable if nothing stands in the way. *)
THEOREM FieldReachablesAreBalls == MCSpec => []FieldReachable
<1>1. F!ReachableIsBall
  BY F!ReachablesAreBalls, MapAssumption
<1>2. Field!ReachableIsBall
  BY <1>1 DEF F!ReachableIsBall, F!Reachable, F!Widened, F!Neighbors, F!Directions, F!Ball,
     F!Hexes, F!N, F!Abs, F!Distance, F!Length, F!Larger, Field!ReachableIsBall,
     Field!Reachable, Field!Widened, Field!Neighbors, Field!Directions, Field!Ball,
     Field!Hexes, Field!N, Field!Abs, Field!Distance, Field!Length, Field!Larger
<1>3. FieldReachable
  BY <1>2 DEF FieldReachable
<1> QED
  BY <1>3, PTL

(* Map.global finds the hexagon nearest to a position, however fine the    *)
(* grid of positions.                                                      *)
THEOREM FieldRoundingIsNearest == MCSpec => []FieldRounding
<1>1. F!RoundIsNearest(Points, Grain)
  <2>1. Points \in SUBSET (Int \X Int)
    BY MapAssumption DEF Points, Field!N
  <2>2. ASSUME NEW p \in Points
        PROVE  /\ F!Abs(p[1]) <= F!N * Grain
               /\ F!Abs(p[2]) <= F!N * Grain
               /\ F!Abs(p[1] + p[2]) <= F!N * Grain
    <3> DEFINE rim == Grain * Field!N
    <3>1. rim \in Nat /\ F!N * Grain = rim
      BY MapAssumption DEF Field!N, F!N
    <3>2. /\ p[1] \in -rim .. rim /\ p[2] \in -rim .. rim /\ Abs(p[1] + p[2]) <= rim
      <4>1. -Grain * Field!N = -rim
        <5>1. Field!N \in Int
          BY MapAssumption DEF Field!N
        <5> QED
          BY <5>1, MapAssumption
      <4> DEFINE low == -Grain * Field!N
      <4>2. /\ p[1] \in low .. rim /\ p[2] \in low .. rim /\ Abs(p[1] + p[2]) <= rim
        BY DEF Points
      <4> HIDE DEF low, rim
      <4> QED
        BY <4>1, <4>2 DEF low
    <3> HIDE DEF rim
    <3>3. F!Abs(p[1]) <= rim /\ F!Abs(p[2]) <= rim /\ F!Abs(p[1] + p[2]) <= rim
      BY <3>1, <3>2 DEF F!Abs, Abs
    <3> QED
      BY <3>1, <3>3
  <2> QED
    BY <2>1, <2>2, F!RoundingIsNearest, MapAssumption
<1>2. Field!RoundIsNearest(Points, Grain)
  BY <1>1 DEF F!RoundIsNearest, F!Global, F!Round, F!JsRound, F!Square, F!Hexes, F!N, F!Abs,
     Field!RoundIsNearest, Field!Global, Field!Round, Field!JsRound, Field!Square,
     Field!Hexes, Field!N, Field!Abs
<1>3. FieldRounding
  BY <1>2 DEF FieldRounding
<1> QED
  BY <1>3, PTL

(* Map.line leads from one end to the other and stays on the map, up to a  *)
(* size where the steps of a line are no longer fine enough.               *)
THEOREM FieldLinesHaveBothEnds ==
  ASSUME MapSize <= 30000
  PROVE  MCSpec => []FieldLines
<1>1. F!LineHasBothEnds
  BY F!LinesHaveBothEnds, MapAssumption
<1>2. ASSUME NEW a, NEW b PROVE F!Line(a, b) = Field!Line(a, b)
  <2>1. F!LineSteps(a, b) = Field!LineSteps(a, b) /\ F!Nudge = Field!Nudge
    BY DEF F!LineSteps, F!Steps, F!Nudge, F!Nudged, F!Length, F!Larger, F!Abs,
       Field!LineSteps, Field!Steps, Field!Nudge, Field!Nudged, Field!Length, Field!Larger,
       Field!Abs
  <2>2. \A x, y, d : F!Round(x, y, d) = Field!Round(x, y, d)
    BY DEF F!Round, F!JsRound, F!Abs, Field!Round, Field!JsRound, Field!Abs
  <2>3. \A i : F!SampleAt(a, b, i) = Field!SampleAt(a, b, i)
    BY <2>1, <2>2 DEF F!SampleAt, F!Nudged, Field!SampleAt, Field!Nudged
  <2>4. ASSUME NEW sample, NEW last PROVE F!Condensed(sample, last) = Field!Condensed(sample, last)
    BY SMT DEF F!Condensed, Field!Condensed
  <2> DEFINE last == (Field!LineSteps(a, b) - 1) \div Field!Nudge
             sample == [i \in 0 .. last |-> Field!SampleAt(a, b, i)]
  <2>5. sample = [i \in 0 .. last |-> F!SampleAt(a, b, i)]
    BY <2>3
  <2>6. last = (F!LineSteps(a, b) - 1) \div F!Nudge
    BY <2>1
  <2> HIDE DEF last
  <2>7. F!Line(a, b) = F!Condensed(sample, last)
    BY <2>5, <2>6 DEF F!Line
  <2>8. Field!Line(a, b) = Field!Condensed(sample, last)
    BY DEF Field!Line, last
  <2> QED
    BY <2>4, <2>7, <2>8
<1>3. F!Hexes = Field!Hexes
  BY DEF F!Hexes, F!N, F!Abs, Field!Hexes, Field!N, Field!Abs
<1>4. Field!LineHasBothEnds
  BY <1>1, <1>2, <1>3 DEF F!LineHasBothEnds, Field!LineHasBothEnds
<1>5. FieldLines
  BY <1>4 DEF FieldLines
<1> QED
  BY <1>5, PTL
=============================================================================
