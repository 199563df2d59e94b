SPECIFICATION Spec
CONSTANTS
  j1 = j1
  j2 = j2
  old = old
  mine = mine
  new1 = new1
  new2 = new2
  Torn = Torn
  Absent = Absent
  Invalid = Invalid
  NoPath = NoPath
  NoData = NoData
  Path <- MCPath
  Link <- MCLink
  Source <- MCSource
  Bak <- MCBak
  Job = {j1, j2}
  Data <- MCData
  Initial = {old}
  Convert <- MCConvert
  Request <- MCSame
  Foreign = {}
  MaxRuns <- MCRuns
  MaxEdits = 0
PROPERTY BackupExclusive
CHECK_DEADLOCK FALSE
