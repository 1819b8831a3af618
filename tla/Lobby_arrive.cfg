\* Two pages arrive, log in under any names, play and leave at any time.
SPECIFICATION LobbySpec
CONSTANTS
  Conns = {c1, c2}
  Names = {n1, n2}
  NoName = NoName
  NoConn = NoConn
  MaxClients = 2
  MaxNotifiers = 1
  MaxInbox = 2
  MaxCommands = 2
  Submittable <- BrowserCommand
VIEW Present
SYMMETRY Symmetry
INVARIANTS
  LobbyTypeOK
  LostToNamesake
CHECK_DEADLOCK FALSE
