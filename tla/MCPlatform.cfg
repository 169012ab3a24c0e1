SPECIFICATION MCSpec
CONSTANTS
  Alarm = {a1, a2, a3}
  Head = Head
  Nowhere = Nowhere
  Wrap = 5
  Rates = {1}
  StartWaits = {0, 3}
  Periods = {1, 4}
  StopsNext = FALSE
  Length = 3
  Raises = 2
  NLines = 3
  LineSize = 2
  DLines = 2
  ILines = 2
  Starts = {0, 1}
  Lens = {1, 2, 3, 4}
  WholeLines = TRUE
INVARIANTS ListIsSound ExceptionsHandled CacheFresh
PROPERTIES IsClock ServicesKeepTime
CHECK_DEADLOCK FALSE
