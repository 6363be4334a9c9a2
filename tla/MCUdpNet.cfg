SPECIFICATION FairSpec
CONSTANTS
  Conns = {c1, c2}
  Ports = {1, 2}
  Remotes = {a, b}
  ReadBuffer = 1
INVARIANT
  PortsAreOwned
PROPERTY
  PortsComeBack
\* A process that panicked stops.
CHECK_DEADLOCK FALSE
