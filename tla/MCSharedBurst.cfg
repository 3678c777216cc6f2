\* The same requests: a shared burst is not always the burst both monitors ask for.
CONSTANTS
  DefaultProtocolVersion = 760
  Ids = {a}
  Intervals = {0, 30}
  Protocols <- SignedProtocols
  OwnProtocols <- OwnSignedProtocols
  None = None
  Requests <- MCRequests
SPECIFICATION Spec
INVARIANT SharedBurstIsBoth
