\* Two players ask a third one; the second request redirects the answer to the first.
SPECIFICATION ReadySpec
CONSTANTS
  Conns = {c1, c2, c3}
  Names = {n1, n2, n3}
  NoName = NoName
  NoConn = NoConn
  MaxClients = 3
  MaxNotifiers = 1
  MaxInbox = 1
  MaxCommands = 3
  Submittable <- BrowserCommand
VIEW Present
SYMMETRY Symmetry
INVARIANT StartsWithConfirmed
CHECK_DEADLOCK FALSE
