SPECIFICATION FairListenerSpec
CONSTANTS
  NoLimit = NoLimit
  Limits <- MCLimits
  MaxArrivals = 5
INVARIANT SummaryTrue
INVARIANT SocketsClosed
PROPERTY ReasonStands
PROPERTY Stops
CHECK_DEADLOCK FALSE
