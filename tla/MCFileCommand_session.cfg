SPECIFICATION FairCommandSpec
CONSTANTS
  Torn = Torn
  Absent = Absent
  Invalid = Invalid
  NoPath = NoPath
  NoData = NoData
  Path <- MCPath
  Link <- MCLink
  Source <- MCSource
  Bak <- MCBak
  Job = {1, 2}
  Request = {}
  Data <- MCData
  Initial = {}
  Convert <- MCConvert
  Foreign = {"b"}
  MaxRuns <- MCRuns
  MaxEdits = 1
  Size <- MCSize
  Session <- MCSession
  MaxChunk = 3
INVARIANT Recoverable
INVARIANT ReportHolds
INVARIANT BatchTold
INVARIANT FirstContentKept
INVARIANT LineEndingsTrue
INVARIANT DuplicatesTrue
PROPERTY CommandEnds
CHECK_DEADLOCK FALSE
