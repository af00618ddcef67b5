\* One process, all writers invalidate.
CONSTANTS
  p1 = p1
  p2 = p2
  r1 = r1
  r2 = r2
  Procs = {p1}
  Refreshers = {r1, r2}
  Home <- MCHomeOne
  TTL = 2
  MaxClock = 2
  MaxVersion = 2
  Silent = FALSE
SPECIFICATION Spec
INVARIANTS NextPageFresh
CHECK_DEADLOCK FALSE
