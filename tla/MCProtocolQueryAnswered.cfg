SPECIFICATION Spec
CONSTANTS
  MaxQueries = 2
  MaxRows = 1
  Lines <- WithErrors
PROPERTY
  QueryAnswered
CHECK_DEADLOCK FALSE
