SPECIFICATION FairCommandSpec
CONSTANTS
  Modes = {"tcp", "udp", "proxy"}
  MaxAddr = 2
  MaxRetries = 1
  MaxChunks = 2
  MaxCount = 2
  MaxRounds = 3
  Host <- MCHost
  Command <- MCCommand
INVARIANT CommandTold
INVARIANT OutcomeTrue
INVARIANT SocketOwned
PROPERTY RunEnds
CHECK_DEADLOCK FALSE
