SPECIFICATION MCSpec
CONSTANTS
  MaxGid = 12
  MaxRestarts = 2
  RowsPerPage = 2
  Me = 1
  Others = {2}
  MaxRows = 4
  MaxCrashes = 1
  Space = 1
  Percent = 2
  Underscore = 3
  Strings <- MCStrings
  Patterns <- MCPatterns
  Numbers <- MCNumbers
  Width = 3
  ColumnMax = 1
  BigMax = 3
  Sizes = {0, 1, 2, 3, 4, 8}
  MaxColumns = 3
CHECK_DEADLOCK FALSE
INVARIANTS
  GidsDistinct
  TablesCovered
  FilesKept
  RowsKept
  FirstRowThere
  OnceInOrder
  InStep
  StatementRight
  ValuesRight
