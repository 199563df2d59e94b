SPECIFICATION CommandSpec
CONSTANTS
  Torn = Torn
  Absent = Absent
  Invalid = Invalid
  NoPath = NoPath
  NoData = NoData
  Path <- MCPath
  Link <- MCLink
  Source <- MCSource
  Bak <- MCBak
  Job = {1, 2}
  Request = {}
  Data <- MCData
  Initial = {}
  Convert <- MCConvert
  Foreign = {"b"}
  MaxRuns <- MCRuns
  MaxEdits = 1
  Size <- MCSize
  Session <- MCAborted
  MaxChunk = 3
INVARIANT NoTargetAborts
CHECK_DEADLOCK FALSE
