SPECIFICATION Spec
CONSTANTS
  Identifiers <- SomeIdentifiers
  OneChar <- SingleChars
  Types <- SomeTypes
  HalfRange = 8
  Day = 8
  Standard <- WestOfUtc
  SummerBegins = 44
  SummerEnds = 83
  ReadAtOnce = {0, 1}
  Declarations <- AllDeclarations
  Texts <- AllTexts
  Class <- TheClass
  Method <- TheMethod
  ReturnTypes <- SomeReturns
  Inputs <- SomeInputs
  Results <- SomeResults
INVARIANTS
  TypeOK
  AcceptedAsDocumented
  UntouchedFieldsAreKept
  ArgumentsAreInputs
  ResultsAreWritten
  TextsFit
CHECK_DEADLOCK FALSE
