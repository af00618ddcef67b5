\* PostgreSQL: two refreshes of the wallet overlap.
CONSTANTS
  t1 = t1
  t2 = t2
  f1 = f1
  f2 = f2
  None = None
  Trades = {t1, t2}
  Value <- MCValue
  MinValue = 2
  Cap = 1
  Firers = {f1, f2}
  Backend = "postgresql"
  Mishaps = {}
  MaxFires = 1
  MaxSends = 2
SPECIFICATION Spec
SYMMETRY FirerSymmetry
INVARIANTS AlertOnce
CHECK_DEADLOCK FALSE
