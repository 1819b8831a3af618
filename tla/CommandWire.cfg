\* Any three frames in any portions, through a buffer of four parts.
SPECIFICATION FairWireSpec
CONSTANTS
  Size = 4
  Payloads <- AllPayloads
  Words <- AllWords
  Commands <- PageCommands
  OpParts <- Parts
  ArgBytes <- Args
  MaxOpLen = 3
  MaxPayloads = 3
INVARIANTS
  WireTypeOK
  PanicNeedsNoise
  ConsentWasWritten
PROPERTIES
  FramesConsumed
  ImplementsQueue
CHECK_DEADLOCK FALSE
