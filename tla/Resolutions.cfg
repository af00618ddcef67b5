\* A wallet refresh and two runs of the script, which may be killed.
CONSTANTS
  m1 = m1
  m2 = m2
  r1 = r1
  b1 = b1
  b2 = b2
  None = None
  Markets = {m1, m2}
  Refreshes = {r1}
  Backfills = {b1, b2}
  Ending <- MCEnding
  Recency <- MCRecency
  Traffic <- MCTraffic
  MaxAsked = 1
  Limit = 2
  Batch = 2
SPECIFICATION FairSpec
INVARIANTS TypeOK NeverFabricated OneUnlessStolen
PROPERTIES LostOnlyIfSeen NeverLockedOut
CHECK_DEADLOCK FALSE
