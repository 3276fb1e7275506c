SPECIFICATION Spec
CONSTANTS
  a1 = a1  a2 = a2  db1 = db1  db2 = db2
  ann = ann  bob = bob  reader = reader  writer = writer
  Threads = {t1, t2}
  Attachments = {a1, a2}
  DatabaseOf <- TwoDatabases
  UserOf <- OneUser
  RoleOf <- OneRole
  Contexts = {c1, c2, c3, c4, c5, c6}
  Cursors = {r1}
  Server = Server
  None = None
  Faults <- NoFaults
  MaxDepth = 2
  RefBound = 4
SYMMETRY Symmetry
INVARIANTS
  TypeOK
  ThreadFollowsCalls
  ContextsHaveOneHolder
  OnlyResultSetsKeepRefs
  ConnectionUsesOwnTransaction
