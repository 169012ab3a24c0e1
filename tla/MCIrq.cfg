SPECIFICATION MCSpec
CONSTANTS
  NLines = 3
  IsrOps = FALSE
  NCores = 2
  Depth = 3
  Flight = 2
  Entry = 4
  Body = 5
  Restarts = 1
INVARIANTS NestingSound TablesSound RequestsServedOnce
