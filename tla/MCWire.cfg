SPECIFICATION MCSpec
CONSTANTS
  MaxQueries = 2
  MaxRows = 2
  Lines <- Single
  SENDBUFSZ = 4
  BUFSZ = 6
  SocketCap = 3
  MaxBytes = 8
  Pieces <- MCPieces
CHECK_DEADLOCK FALSE
INVARIANTS
  TypeOK
  AnswersOwn
  BytesIntact
PROPERTIES
  ReportedIsDone
  QueryAnswered
  WorkerEnds
  FlushArrives
