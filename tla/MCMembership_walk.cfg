SPECIFICATION FairSpec
CONSTANTS
  a = a
  b = b
  c = c
  d = d
  B = B
  NoKey = NoKey
  Dn = {a, b, c, d, B}
  Key <- MCKey
  Lists <- MCLists
  Requests <- RequestType
INVARIANT EntriesTrue
INVARIANT ReportIsClosure
PROPERTY Ends
CHECK_DEADLOCK FALSE
