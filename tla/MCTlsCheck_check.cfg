SPECIFICATION FairCommandSpec
CONSTANTS
  Modes = {"tcp"}
  MaxAddr = 2
  MaxRetries = 1
  MaxChunks = 0
  Timeout = 2
  WarnDays = {0, 1}
  Wanted <- MCWanted
  Command <- MCCommand
  Offers <- MCOffers
  MaxRounds = 3
INVARIANT ChecksTold
INVARIANT LayersTrue
PROPERTY ChecksEnd
CHECK_DEADLOCK FALSE
