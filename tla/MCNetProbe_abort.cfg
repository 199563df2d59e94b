SPECIFICATION CommandSpec
CONSTANTS
  Modes = {"tcp", "udp", "proxy"}
  MaxAddr = 2
  MaxRetries = 1
  MaxChunks = 2
  MaxCount = 2
  MaxRounds = 3
  Host <- MCHost
  Command <- MCCommand
INVARIANT AttemptNeverAborts
CHECK_DEADLOCK FALSE
