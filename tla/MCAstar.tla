-------------------------------- MODULE MCAstar --------------------------------
(* Small searches, and points on a grid over the map, for TLC. *)
EXTENDS Astar

(* The start is one hexagon of each kind: the others follow by symmetry of *)
(* the map.                                                                *)
CONSTANTS Starts, Obstacles

(* FIELD_SIZE of the map that is looked at as a map, and the parts a       *)
(* hexagon is divided into there.                                          *)
CONSTANTS MapSize, Grain

ASSUME MapAssumption == MapSize \in Nat \ {0} /\ Grain \in Nat \ {0}

Ring(n) == Ball(Origin, n) \ Ball(Origin, n - 1)

OneOfEachKind == {<<0, 0>>, <<N, 0>>}

AroundTheCentre == SUBSET (Ball(Origin, 1))

MCNext == Turn \/ \E s \in Starts, g \in Hexes, taken \in Obstacles : Call(s, g, taken)

MCSpec == Init /\ [][MCNext]_vars /\ WF_vars(Turn)

(* The map of the game, larger than the one the searches run on. *)
Field == INSTANCE HexMap WITH FieldSize <- MapSize

(* The positions among the centres on the rim. In sixths: centres, the     *)
(* middles of edges, corners and points within a hexagon.                  *)
Points ==
  LET Axis == -Grain * Field!N .. Grain * Field!N
  IN  {p \in Axis \X Axis : Abs(p[1] + p[2]) <= Grain * Field!N}

FieldRange == pc = "idle" => Field!RangeIsBall
FieldReachable == pc = "idle" => Field!ReachableIsBall
FieldLines == pc = "idle" => Field!LineHasBothEnds
FieldRounding == pc = "idle" => Field!RoundIsNearest(Points, Grain)
=============================================================================
