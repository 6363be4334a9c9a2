SPECIFICATION ConnFairSpec
CONSTANTS
  Readers = {r1, r2}
  Writers = {w1}
  Room = 1
  Wanted <- MCWanted
  MaxPackets = 3
  MaxSets = 3
  MaxLate = 1
INVARIANT
  NothingLost
PROPERTIES
  DeadlinesEnd
  CloseEndsAll
\* A connection that is closed has nothing left to do.
CHECK_DEADLOCK FALSE
