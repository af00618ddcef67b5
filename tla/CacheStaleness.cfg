\* Two processes, writers that do not invalidate among them.
CONSTANTS
  p1 = p1
  p2 = p2
  r1 = r1
  r2 = r2
  Procs = {p1, p2}
  Refreshers = {r1}
  Home <- MCHomeFirst
  TTL = 2
  MaxClock = 3
  MaxVersion = 2
  Silent = TRUE
SPECIFICATION Spec
INVARIANTS TypeOK BoundedStaleness FreshUnlessRaced
CHECK_DEADLOCK FALSE
