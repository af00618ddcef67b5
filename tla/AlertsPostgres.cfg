\* PostgreSQL: overlapping calls, with and without deletions; t2 is below the threshold.
CONSTANTS
  t1 = t1
  t2 = t2
  f1 = f1
  f2 = f2
  None = None
  Trades = {t1, t2}
  Value <- MCValue
  MinValue = 3
  Cap = 1
  Firers = {f1, f2}
  Backend = "postgresql"
  Mishaps = {"delete"}
  MaxFires = 1
  MaxSends = 2
SPECIFICATION FairSpec
INVARIANTS DeliveredIsMarked
PROPERTIES NeverSilenced FireEnds
CHECK_DEADLOCK FALSE
