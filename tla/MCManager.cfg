\* Two generations of loops, two handlers, four targets of two IDs. No symmetry:
\* the run checks liveness too.
CONSTANTS
  DefaultProtocolVersion = 760
  a = a  b = b
  g1 = g1  g2 = g2
  k1 = k1  k2 = k2
  Ids = {a, b}
  Gens = {g1, g2}
  Callers = {k1, k2}
  Targets <- MCTargets
SPECIFICATION ManagerSpec
INVARIANTS ManagerTypeOK NoOrphanLoop ClosedOnce RegisteredIsOneGroup
PROPERTIES NoResurrection StoppedLoopsEnd OpenLoopsKeepProbing StopReturns
