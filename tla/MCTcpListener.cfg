SPECIFICATION FairSpec
CONSTANTS
  a1 = a1
  a2 = a2
  Listens = 2
  Attempts <- MCAttempts
  Source <- MCSource
  Retries = 2
  SynBuffer = 1
  MaxShakes = 2
INVARIANTS
  ConnsAgree
  StreamsAreRead
  PortIsExclusive
PROPERTIES
  AcceptReturns
  SynsAreServed
\* A panic ends the process, and everything may be closed.
CHECK_DEADLOCK FALSE
