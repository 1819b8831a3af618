\* Two players in the lobby, nobody asked yet or one of them: requests, denials,
\* panics; once a game is started, both players get to the preparation.
SPECIFICATION FairAskedSpec
CONSTANTS
  Conns = {c1, c2}
  Names = {n1, n2}
  NoName = NoName
  NoConn = NoConn
  MaxClients = 2
  MaxNotifiers = 1
  MaxInbox = 1
  MaxCommands = 3
  Submittable <- BrowserCommand
INVARIANT PanicNeedsDenial
PROPERTY BothPrepare
CHECK_DEADLOCK FALSE
