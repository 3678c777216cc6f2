\* The desktop application and the background service on one config file.
CONSTANTS
  Procs = {desktop, service}
  Inodes = {i1, i2, i3}
  Values = {v1, v2, v3}
  Partial = Partial
  Missing = Missing
  None = None
SPECIFICATION Spec
INVARIANT NeverPartial
