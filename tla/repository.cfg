SPECIFICATION FairSpec
CONSTANTS
  cli = cli  att = att  ann = ann
  old = old  new = new
  Base = Base  Util = Util
  Deployers = {cli}
  Attachments = {att}
  UserOf <- OneOfThemSYSDBA
  SYSDBA = SYSDBA
  Names = {n1, n2}
  Files = {old, new}
  EntriesOf <- Versions
  None = None
  MaxId = 3
  MaxOps = 2
INVARIANTS
  TypeOK
  JarsAreWhole
PROPERTIES
  CommitsWhatWasAsked
  UpdatesAreAtomic
  ImplementsJarStore
  OperationsEnd
