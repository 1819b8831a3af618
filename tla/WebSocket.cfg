\* The server's end: one Read loop, a broadcast, any three frames of a peer.
SPECIFICATION MCSpec
CONSTANTS
  IsServer = TRUE
  Writers = {w1}
  Reader = Reader
  Nobody = Nobody
  Size = 2
  MaxControl = 1
  Pieces = 2
  Window = 1
  PeerFrames <- KindsOfFrames
  MaxFrames = 3
  MaxSize = 3
  MaxWrites = 1
  Protocols = {p1, p2}
  Keys = {k1, k2}
  NoProtocol = NoProtocol
  Lengths <- SomeLengths
INVARIANTS
  TypeOK
  InOrder
  WholeFrames
  NotTakenForGone
  PongsMatchPings
  Handshakes
  LengthsSurvive
PROPERTIES
  PingAnswered
  WriteReturns
  ImplementsStream
CHECK_DEADLOCK FALSE
