SPECIFICATION Spec
CONSTANTS
  Databases = {d1}
  Attachments = {a1, a2}
  Engines = {e1, e2}
  Loaders = {l1, l2}
  None = None
  Orderly = FALSE
  Faults <- NoFaults
  CountBound = 2
INVARIANT
  SharedStatics
