\* SQLite: the same threads behind one write lock.
CONSTANTS
  a = a
  b = b
  t1 = t1
  t2 = t2
  t3 = t3
  w1 = w1
  w2 = w2
  None = None
  Wallets = {a, b}
  TradeIds = {t1, t2, t3}
  Feed <- MCFeed
  KeyOf <- MCKeyOf
  Workers = {w1, w2}
  Detached = {}
  Cleaners = {c1, c2}
  MaxRefreshes = 1
  Backend = "sqlite"
SPECIFICATION Spec
SYMMETRY WorkerSymmetry
INVARIANTS PendingIsMine NoOrphans
CHECK_DEADLOCK FALSE
