SPECIFICATION Spec
CONSTANTS
  a = a
  b = b
  p = p
  Client = {a, b}
  Project = {p}
  Opp = {o1, o2}
  NoOpp = none
  NoName = nobody
  Placeholder = b
  Namesake <- NamedAfter
  Usual <- Label
  Call = {c1, c2, c3}
  MaxBirths = 2
  MaxFaults = 1
  Asks <- Requests
SYMMETRY Same
INVARIANT TypeOK
INVARIANT NoOrphans
INVARIANT ThreadTellsTheTruth
PROPERTY DeletedStaysGone
CHECK_DEADLOCK FALSE
