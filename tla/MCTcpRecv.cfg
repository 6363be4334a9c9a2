SPECIFICATION Spec
CONSTANTS
  M = 7
  IRS = 5
  AsmSize = 3
  BufSize = 2
  Readers = {r1, r2}
  ReadSizes <- MCReadSizes
  MaxLen = 2
  MaxStale = 4
  MaxAhead = 4
  MaxStream = 3
INVARIANTS
  ReadsTheStream
  NoLostWakeup
  ReopenIsAnnounced
PROPERTIES
  WindowNeverShrinks
  ErrorsComeLast
SYMMETRY MCSymmetry
