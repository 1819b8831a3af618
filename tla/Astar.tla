--------------------------------- MODULE Astar ---------------------------------
(***************************************************************************)
(* The path search of astar.js, one action per turn of its loop.           *)
(*                                                                         *)
(* A Node points to its parent and is never changed once it is in the open *)
(* set, so a node is identified with its path(): the sequence of hexagons  *)
(* from the node back to the start.  Every neighbour is a new Node with    *)
(* f = g = 0: g decides nothing, f is the distance to the goal, and a      *)
(* hexagon that is closed or open is never opened again.                   *)
(*                                                                         *)
(* openset and closedset are keyed by the digits of q and r; hexagons have *)
(* distinct keys as long as no coordinate has two digits.                  *)
(***************************************************************************)
EXTENDS HexMap

ASSUME KeysAssumption == FieldSize <= 10

VARIABLES
  pc,       \* "idle", "search" or "done"
  units,    \* the hexagons with a unit on them
  start,
  goal,
  openset,  \* the open nodes
  closed,   \* the hexagons of closedset
  path      \* what astar returns

(* A node, as its path(). *)
Node == Seq(Hexes) \ {<< >>}

vars == <<pc, units, start, goal, openset, closed, path>>

Origin == <<0, 0>>

Init ==
  /\ pc = "idle"
  /\ units = {}
  /\ start = Origin
  /\ goal = Origin
  /\ openset = {}
  /\ closed = {}
  /\ path = << >>

(* A call for a unit that has left its hexagon (Unit.moveTo). *)
Call(s, g, taken) ==
  /\ pc = "idle"
  /\ s \notin taken
  /\ units' = taken
  /\ start' = s
  /\ goal' = g
  /\ closed' = {}
  /\ path' = << >>
  /\ openset' = IF s = g THEN {} ELSE {<<s>>}
  /\ pc' = IF s = g THEN "done" ELSE "search"

(* The nodes with the least f; which of them comes first in openset is     *)
(* left open.                                                              *)
Best == {n \in openset : \A m \in openset : Distance(n[1], goal) <= Distance(m[1], goal)}

(* The hexagons of the open nodes: the keys of openset. *)
Heads == {n[1] : n \in openset}

(* Mutant of Free: units are no obstacle. *)
FreeOrNot(h) == Neighbors(h)

Free(h) == Neighbors(h) \ units

(* Mutant of Fresh: only hexagons nearer to the goal. *)
FreshNearer(h) ==
  {g \in Free(h) \ (closed \cup Heads) : Distance(g, goal) < Distance(h, goal)}

(* The neighbours of a hexagon that are neither closed nor open. *)
Fresh(h) == Free(h) \ (closed \cup Heads)

(* Mutant of Others: the node is not deleted from the open set. *)
OthersAndSelf(n) == openset

Others(n) == openset \ {n}

Expand(n) ==
  /\ pc = "search"
  /\ n[1] # goal
  /\ openset' = Others(n) \cup {<<h>> \o n : h \in Fresh(n[1])}
  /\ closed' = closed \cup {n[1]}
  /\ UNCHANGED <<pc, units, start, goal, path>>

Found(n) ==
  /\ pc = "search"
  /\ n[1] = goal
  /\ path' = n
  /\ pc' = "done"
  /\ UNCHANGED <<units, start, goal, openset, closed>>

Fail ==
  /\ pc = "search"
  /\ openset = {}
  /\ pc' = "done"
  /\ UNCHANGED <<units, start, goal, openset, closed, path>>

Turn == Fail \/ \E n \in Best : Expand(n) \/ Found(n)

Next == Turn \/ \E s, g \in Hexes, taken \in SUBSET Hexes : Call(s, g, taken)

Spec == Init /\ [][Next]_vars

(* The loop runs to its end. *)
FairSpec == Spec /\ WF_vars(Turn)

-----------------------------------------------------------------------------
(* Properties. *)

TypeOK ==
  /\ pc \in {"idle", "search", "done"}
  /\ units \subseteq Hexes
  /\ start \in Hexes
  /\ goal \in Hexes
  /\ openset \subseteq Node
  /\ closed \subseteq Hexes
  /\ path \in Seq(Hexes)

(* A path back to the start over neighbours, none of them occupied but for *)
(* the start, none of them twice.                                          *)
FreeWalk(p) ==
  /\ Len(p) >= 1
  /\ p[Len(p)] = start
  /\ \A i \in 1 .. Len(p) - 1 : p[i] \in Neighbors(p[i + 1]) \ units
  /\ \A i, j \in 1 .. Len(p) : p[i] = p[j] => i = j

(* What astar returns is a walk a unit can take, from the goal back to the *)
(* start, or nothing.                                                      *)
PathIsFreeWalk == path # << >> => path[1] = goal /\ FreeWalk(path)

(* astar returns nothing only if there is nothing to return: the start is  *)
(* the goal, or Map.reachable does not get there either, whatever its      *)
(* range.  Unit.moveTo relies on it: the goals it admits are reachable, and *)
(* a unit with an empty path cannot be drawn.                              *)
FailsOnlyIfWalled ==
  pc = "done" /\ path = << >> =>
    start = goal \/ goal \notin Reachable(start, Cardinality(Hexes), units)

(* A search ends. *)
SearchEnds == pc = "search" ~> pc = "done"
=============================================================================
