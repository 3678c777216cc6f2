\* One process on its config file, with failures and crashes at every step.
CONSTANTS
  Procs = {desktop}
  Inodes = {i1, i2, i3}
  Values = {v1, v2, v3}
  Partial = Partial
  Missing = Missing
  None = None
SPECIFICATION Spec
INVARIANTS TypeOK NeverPartial
PROPERTY ImplementsDurableFile
