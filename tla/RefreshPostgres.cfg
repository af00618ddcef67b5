\* PostgreSQL: two refreshes, two cleanups, deletions; the run stops when nobody starts anything.
CONSTANTS
  a = a
  b = b
  t1 = t1
  t2 = t2
  t3 = t3
  w1 = w1
  w2 = w2
  None = None
  Wallets = {a, b}
  TradeIds = {t1, t2, t3}
  Feed <- MCFeed
  KeyOf <- MCKeyOf
  Workers = {w1, w2}
  Detached = {}
  Cleaners = {c1, c2}
  MaxRefreshes = 1
  Backend = "postgresql"
SPECIFICATION FairSpec
INVARIANTS TypeOK PendingIsMine
PROPERTIES LedgerSpec RefreshEnds
CHECK_DEADLOCK FALSE
