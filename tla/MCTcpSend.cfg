SPECIFICATION Spec
CONSTANTS
  M = 8
  ISS = 6
  MSS = 2
  Windows <- MCWindows
  Chunks <- MCChunks
  MaxStale = 4
  MaxStream = 4
  MaxFired = 2
INVARIANTS
  SegmentsFaithful
  RetransmissionAlive
  NoLostWakeup
  CountIsAcked
  PanicsOnlyAfterTimeout
\* A panic ends the process: the panicked states have no successor.
CHECK_DEADLOCK FALSE
