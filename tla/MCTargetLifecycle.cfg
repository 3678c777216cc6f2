\* Every combination of inherited and explicit settings over boundary values.
CONSTANTS
  DefaultProtocolVersion = 760
  Ids = {a}
  Intervals = {0, 30}
  Protocols <- SignedProtocols
  OwnProtocols <- OwnSignedProtocols
  None = None
  Requests <- MCRequests
SPECIFICATION Spec
INVARIANTS RunsWhatIsStored SettingsUsable  OneLoopPerMetric
PROPERTY StoredIsStable
