\* Three IDs, edits of the same target, failing writes, crashes, hand-written file.
CONSTANTS
  DefaultProtocolVersion = 760
  a = a  b = b  c = c  r0 = r0  r1 = r1
  Ids = {a, b, c}
  Requests <- MCRequests
  Example <- MCExample
  HandFiles <- MCHandFiles
  Remotes = {r0, r1}
  NoRemote = r0
  NoFile = NoFile
  NoTarget = NoTarget
  WriteResults = {TRUE, FALSE}
SPECIFICATION ConfigStoreSpec
INVARIANTS ConfigStoreTypeOK UniqueIds
PROPERTIES OrderKept ImplementsRegistry
