SPECIFICATION Spec
CONSTANTS
  Databases = {d1, d2}
  Attachments = {a1, a2}
  Engines = {e1, e2}
  Loaders = {l1, l2}
  None = None
  Orderly = TRUE
  Faults <- ConnCloseFault
  CountBound = 2
INVARIANT
  SharedStatics
