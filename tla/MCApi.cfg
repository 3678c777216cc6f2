\* Two handlers at a time, saves, imports and deletes of two targets, failing
\* writes, kills and restarts.
CONSTANTS
  DefaultProtocolVersion = 760
  a = a  b = b  r0 = r0  k1 = k1  k2 = k2
  g1 = g1  g2 = g2
  Ids = {a, b}
  Requests <- MCRequests
  Targets <- MCTargets
  Example <- MCExample
  Bodies <- MCBodies
  HandFiles = {}
  Remotes = {r0}
  NoRemote = r0
  NoFile = NoFile
  NoTarget = NoTarget
  WriteResults = {TRUE, FALSE}
  Unknown = Unknown
  Contended = Contended
  Gens = {g1, g2}
  Callers = {k1, k2}
SPECIFICATION ApiSpec
SYMMETRY HandlerSymmetry
INVARIANTS ApiTypeOK  ProberFollowsStore
