SPECIFICATION FairSpec
CONSTANTS
  Databases = {d1, d2}
  Attachments = {a1, a2}
  Engines = {e1, e2}
  Loaders = {l1, l2, l3}
  None = None
  Orderly = FALSE
  Faults <- AllFaults
  CountBound = 0
INVARIANTS
  TypeOK
  CounterExact
  PinnedExactlyInUse
PROPERTY
  CallsReturn
CHECK_DEADLOCK FALSE
