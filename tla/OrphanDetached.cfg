\* SQLite: w2 is the auto-refresh job, whose Wallet is detached.
CONSTANTS
  a = a
  b = b
  t1 = t1
  t2 = t2
  t3 = t3
  w1 = w1
  w2 = w2
  None = None
  Wallets = {a, b}
  TradeIds = {t1, t2, t3}
  Feed <- MCFeed
  KeyOf <- MCKeyOf
  Workers = {w1, w2}
  Detached = {w2}
  Cleaners = {}
  MaxRefreshes = 1
  Backend = "sqlite"
SPECIFICATION Spec
INVARIANTS NoOrphans
CHECK_DEADLOCK FALSE
