\* A write of the config file fails.
CONSTANTS
  DefaultProtocolVersion = 760
  a = a  b = b  r0 = r0  k1 = k1  k2 = k2
  g1 = g1  g2 = g2
  Ids = {a}
  Requests <- MCOneRequests
  Targets <- MCTargets
  Example <- MCExample
  Bodies <- MCOneBodies
  HandFiles = {}
  Remotes = {r0}
  NoRemote = r0
  NoFile = NoFile
  NoTarget = NoTarget
  WriteResults = {TRUE, FALSE}
  Unknown = Unknown
  Contended = Contended
  Gens = {g1, g2}
  Callers = {k1, k2}
SPECIFICATION ApiSpec
INVARIANT ShownIsOnDisk
