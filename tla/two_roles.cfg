SPECIFICATION Spec
CONSTANTS
  a1 = a1  a2 = a2  db1 = db1  db2 = db2
  ann = ann  bob = bob  reader = reader  writer = writer
  Threads = {t1}
  Attachments = {a1, a2}
  DatabaseOf <- OneDatabase
  UserOf <- OneUser
  RoleOf <- TwoRoles
  Contexts = {c1, c2, c3}
  Cursors = {r1}
  Server = Server
  None = None
  Faults <- NoFaults
  MaxDepth = 1
  RefBound = 2
SYMMETRY Symmetry
INVARIANTS
  RoleIsCallers
