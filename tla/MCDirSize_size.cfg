SPECIFICATION FairSizeSpec
CONSTANTS
  Path = {"r", "a", "b", "h", "c", "d"}
  Root = "r"
  Above <- MCAbove
  Hidden = {"h"}
  Size = {1, 2}
  Depth <- MCDepth
  MaxTargets = 2
INVARIANT TotalsTrue
INVARIANT LowerBoundsMarked
PROPERTY SizeEnds
CHECK_DEADLOCK FALSE
