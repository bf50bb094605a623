\* Two connections to servers of different channel-max, and three channels of the first.
CONSTANTS
  c1 = c1
  c2 = c2
  o1 = o1
  o2 = o2
  o3 = o3
  Connections = {c1, c2}
  Objects = {o1, o2, o3}
  Owner <- AllOnOne
  DefaultMax = 2
  Limits = {1, 2}
  Highest = 2
  MaxPublishes = 2
  MaxLosses = 1
  None = None
SYMMETRY Interchangeable
SPECIFICATION Spec
INVARIANTS TypeOK NumbersAreExclusive FindsFreeNumber 
CHECK_DEADLOCK FALSE
