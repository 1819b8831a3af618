\* Two players log in; the notifications overtake each other.
SPECIFICATION LobbySpec
CONSTANTS
  Conns = {c1, c2}
  Names = {n1, n2}
  NoName = NoName
  NoConn = NoConn
  MaxClients = 2
  MaxNotifiers = 2
  MaxInbox = 1
  MaxCommands = 2
  Submittable <- BrowserCommand
SYMMETRY Symmetry
INVARIANT LastListIsCurrent
CHECK_DEADLOCK FALSE
