SPECIFICATION FairSpec
CONSTANTS
  Threads = {t1, t2, t3}
  JvmArgsFiles <- SomeFiles
  MaxJars = 2
  MaxPolicies = 2
  None = None
INVARIANTS
  TypeOK
  FailuresAreReported
  LocalRefsBounded
  FirebirdIsInLibraryPath
  FactoryIsReady
  ConfigIsReleased
  EnginesAreGuarded
PROPERTIES
  PolicyIsKept
  CallsReturn
CHECK_DEADLOCK FALSE
