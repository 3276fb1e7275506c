SPECIFICATION FairSpec
CONSTANTS
  Databases = {d1, d2}
  Attachments = {a1, a2, a3}
  Engines = {e1, e2, e3}
  Loaders = {l1, l2, l3}
  None = None
  Orderly = TRUE
  Faults <- NoFaults
  CountBound = 3
INVARIANTS
  SharedStatics
  PolicyReady
  SecurityDbAssertion
  NothingLeftWhenIdle
PROPERTIES
  RemovesOnlyClosedData
  LoadedClassesAreUsedOrUnloaded
  ImplementsClassSharing
