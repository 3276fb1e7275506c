SPECIFICATION Spec
CONSTANTS
  cli = cli  att = att  ann = ann
  old = old  new = new
  Base = Base  Util = Util
  Deployers = {cli}
  Attachments = {att}
  UserOf <- OneOfThemSYSDBA
  SYSDBA = SYSDBA
  Names = {n1}
  Files = {old, new}
  EntriesOf <- Versions
  None = None
  MaxId = 3
  MaxOps = 2
PROPERTY
  RemovalsAreAuthorized
