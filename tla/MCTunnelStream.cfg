SPECIFICATION FairSpec
CONSTANTS
  Threads <- MCThreads
  Closers = {c1, c2}
  Users = {u1}
  ReadBuffer = 1
  WriteBuffer = 1
INVARIANTS
  ClosedOnceUnused
  CloseIsFinal
PROPERTIES
  
  DoneReleasesDescriptor
\* A stream that is done has nothing left to do.
CHECK_DEADLOCK FALSE
