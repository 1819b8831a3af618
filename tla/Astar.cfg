\* Searches on a map of 19 hexagons with units around the centre; the map at its size.
SPECIFICATION MCSpec
CONSTANTS
  FieldSize = 3
  MapSize = 5
  Grain = 6
  Starts <- OneOfEachKind
  Obstacles <- AroundTheCentre
INVARIANTS
  TypeOK
  PathIsFreeWalk
  FailsOnlyIfWalled
  FieldRange
  FieldReachable
  FieldLines
  FieldRounding
PROPERTY SearchEnds
CHECK_DEADLOCK FALSE
