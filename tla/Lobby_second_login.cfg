\* A user clicks the login button twice, under two names, and leaves.
SPECIFICATION LobbySpec
CONSTANTS
  Conns = {c1}
  Names = {n1, n2}
  NoName = NoName
  NoConn = NoConn
  MaxClients = 1
  MaxNotifiers = 2
  MaxInbox = 2
  MaxCommands = 2
  Submittable <- BrowserCommand
INVARIANT DoneIsUnlisted
CHECK_DEADLOCK FALSE
