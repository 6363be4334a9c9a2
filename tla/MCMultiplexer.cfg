SPECIFICATION MuxFairSpec
CONSTANTS
  Children = {c1}
  ReadBuffer = 1
  MaxPackets = 3
  MaxSent = 2
INVARIANTS
  OnlyLateClosePanics
  LateIsDropped
PROPERTIES
  NoBackpressure
  CloseEndsChildren
\* A panic ends the process, and everything may be closed.
CHECK_DEADLOCK FALSE
