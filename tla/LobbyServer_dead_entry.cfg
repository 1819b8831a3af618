\* A handler panics; its connection stays in the table, where it ends every
\* broadcast that comes to it.
SPECIFICATION NewsSpec
CONSTANTS
  Conns = {c1, c2}
  Names = {n1}
  NoName = NoName
  NoConn = NoConn
  MaxClients = 2
  MaxNotifiers = 1
  MaxInbox = 1
  MaxCommands = 2
  Submittable <- LoginsAndPanics
SYMMETRY Symmetry
INVARIANT EverybodyNotified
CHECK_DEADLOCK FALSE
