SPECIFICATION Spec
CONSTANTS
  p1 = p1 p2 = p2 c1 = c1 c2 = c2
  Procs = {p1}
  Ids = {c1}
  NoProc = NoProc
  Contents <- Everything
  MaxEvents = 2
  MaxCrashes = 0
INVARIANT OnlyImportsAreArchived
