SPECIFICATION TextSpec
CONSTANTS
  Names <- MCNames
  MaxInt = 19
  Wide = 3
  Documents <- MCDocuments
INVARIANTS
  WellFormedIsRead
  WrittenIsRead
  PointersAlive
  ErrorsFail
PROPERTIES
  ParseReturns
CHECK_DEADLOCK FALSE
