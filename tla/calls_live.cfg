SPECIFICATION FairSpec
CONSTANTS
  a1 = a1  a2 = a2  db1 = db1  db2 = db2
  ann = ann  bob = bob  reader = reader  writer = writer
  Threads = {t1, t2}
  Attachments = {a1, a2}
  DatabaseOf <- OneDatabase
  UserOf <- TwoUsers
  RoleOf <- OneRole
  Contexts = {c1, c2, c3}
  Cursors = {}
  Server = Server
  None = None
  Faults <- AllFaults
  MaxDepth = 1
  RefBound = 2
INVARIANTS
  RefsCoverContexts
  SubjectIsCallers
PROPERTIES
  CallsReturn
