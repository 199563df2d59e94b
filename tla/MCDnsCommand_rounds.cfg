SPECIFICATION MCSpec
CONSTANTS
  MaxServers = 2
  MaxTypes = 2
  MaxTries = 1
  Transports = {"auto", "tcp"}
  Records = {"r1"}
  MaxDepth = 3
  Address = {"root", "ns"}
  Glue <- MCGlue
  Contents = {"a"}
  Zone = {".", "com"}
  Root = "root"
  Top = "."
  NoZone = "none"
  MaxTargets = 2
  MaxRounds = 3
INVARIANT AnswersTrue
INVARIANT TracePath
INVARIANT ExitTells
PROPERTY ChangeShown
PROPERTY RoundsEnd
CHECK_DEADLOCK FALSE
