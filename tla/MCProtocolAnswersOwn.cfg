SPECIFICATION Spec
CONSTANTS
  MaxQueries = 2
  MaxRows = 1
  Lines <- Several
INVARIANT
  AnswersOwn
CHECK_DEADLOCK FALSE
