SPECIFICATION FairSpec
CONSTANTS
  j1 = j1
  j2 = j2
  old = old
  mine = mine
  new1 = new1
  new2 = new2
  Torn = Torn
  Absent = Absent
  Invalid = Invalid
  NoPath = NoPath
  NoData = NoData
  Path <- MCPath
  Link <- MCLink
  Source <- MCSource
  Bak <- MCBak
  Job = {j1, j2}
  Data <- MCData
  Initial = {old}
  Convert <- MCConvert
  Request <- MCMixed
  Foreign = {"o"}
  MaxRuns <- MCRuns
  MaxEdits = 1
INVARIANT TypeOK
INVARIANT FilesWhole
PROPERTY OnlyAsTold
PROPERTY Implements
PROPERTY Terminates
CHECK_DEADLOCK FALSE
