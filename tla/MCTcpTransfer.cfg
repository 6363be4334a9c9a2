SPECIFICATION Spec
CONSTANTS
  M = 6
  ISS = 4
  MSS = 1
  Chunks <- MCChunks
  MaxFired = 1
  AsmSize = 2
  BufSize = 1
  Readers = {r1}
  ReadSizes <- MCReadSizes
  MaxStale = 3
  MaxStream = 2
  MaxPackets = 2
INVARIANT
  PeersConform
PROPERTY
  ImplementsByteStream
\* A closed and drained connection has nothing left to do.
CHECK_DEADLOCK FALSE
