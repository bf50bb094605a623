\* The search for a free number when channelMax was lowered.
CONSTANTS
  c1 = c1
  c2 = c2
  o1 = o1
  o2 = o2
  o3 = o3
  Connections = {c1, c2}
  Objects = {o1, o2, o3}
  Owner <- AllOnOne
  DefaultMax = 2
  Limits = {1, 2}
  Highest = 2
  MaxPublishes = 0
  MaxLosses = 0
  None = None
SYMMETRY Interchangeable
SPECIFICATION Spec
INVARIANT FullLoopEnds
CHECK_DEADLOCK FALSE
