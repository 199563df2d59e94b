SPECIFICATION CommandSpec
CONSTANTS
  dc1 = dc1
  dc2 = dc2
  NoConn = NoConn
  Server = {dc1, dc2}
  Answers <- MCAnswers
  MaxCalls = 3
  MaxPages = 2
  Command <- MCCommand
  MaxQueries = 2
  MaxRounds = 3
INVARIANT ConnectionsOwned
INVARIANT CredentialsCovered
INVARIANT TriedInOrder
INVARIANT ReportTrue
INVARIANT NamesTold
INVARIANT StatusTrue
CHECK_DEADLOCK FALSE
