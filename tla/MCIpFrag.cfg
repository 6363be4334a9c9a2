SPECIFICATION Spec
CONSTANTS
  Sources = {s1, s2}
  Unit = 2
  Header = 1
  MTUs <- MCMTUs
  Lengths <- MCLengths
  Ids = 2
  MaxSent = 3
  MaxInNetwork = 3
  MaxFragments = 3
SYMMETRY MCSymmetry
INVARIANTS
  FragmentsFitAndCover
  OnlyWholePackets
  CompleteIsDelivered
\* The bounds on packets end a behavior.
CHECK_DEADLOCK FALSE
