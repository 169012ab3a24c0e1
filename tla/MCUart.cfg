SPECIFICATION MCSpec
CONSTANTS
  BufLen = 3
  FifoLen = 2
  Span = 6
  IntMax = 5
  DefaultTimeout = 2
  Uses <- Exercised
  PolledCounts = {0, 1, 3}
INVARIANTS NeverStranded DriverKeepsItsWord
PROPERTIES ChannelsLossless CallsEnd
\* a write waits for ever where no alarm gives the host up
CHECK_DEADLOCK FALSE
