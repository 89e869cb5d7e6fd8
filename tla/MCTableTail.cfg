SPECIFICATION TableSpec
CONSTANTS
  RowsPerPage = 2
  Me = 1
  Others = {2}
  MaxRows = 4
  MaxCrashes = 1
CHECK_DEADLOCK FALSE
INVARIANT
  TailIsTail
