\* Every operation of the protocol, in any order and from anybody: from the
\* start, and from the moment somebody has logged in.
SPECIFICATION OperationsSpec
CONSTANTS
  Conns = {c1, c2}
  Names = {n1}
  NoName = NoName
  NoConn = NoConn
  MaxClients = 2
  MaxNotifiers = 1
  MaxInbox = 2
  MaxCommands = 2
  Submittable <- AllOps
INVARIANTS
  TypeOK
  ConnectedIffServed
  RegisteredHasSocket
  NewsDelivered
  NoAnswerLost
PROPERTIES
  GoneIsForgotten
  LoginAnswered
CHECK_DEADLOCK FALSE
