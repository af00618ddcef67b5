\* SQLite, everything that can go wrong.
CONSTANTS
  t1 = t1
  t2 = t2
  f1 = f1
  f2 = f2
  None = None
  Trades = {t1, t2}
  Value <- MCValue
  MinValue = 2
  Cap = 1
  Firers = {f1, f2}
  Backend = "sqlite"
  Mishaps = {"lost_answer", "crash", "delete", "seed_fails"}
  MaxFires = 2
  MaxSends = 2
SPECIFICATION Spec
SYMMETRY FirerSymmetry
INVARIANTS TypeOK OnceUnlessHit BacklogSilent
PROPERTIES NeverSilenced
CHECK_DEADLOCK FALSE
