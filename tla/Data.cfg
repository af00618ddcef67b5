\* All the parts; a part stops at its bounds.
CONSTANTS
  ann = ann
  bob = bob
  cond1 = cond1
  cond2 = cond2
  thread1 = thread1
  thread2 = thread2
  reader = reader
  key1 = key1
  nobody = nobody
  Users = {ann, bob}
  Week = 2
  MaxTime = 8
  MaxSeen = 2
  MaxRuns = 2
  Windows = {1, 4}
  Traders = {ann}
  Conditions = {cond1, cond2}
  Unit = 4
  Prices = {1, 2}
  MaxTrades = 3
  Accounts = {ann}
  Markets = {cond1, cond2}
  DayLength = 3
  SpikeCount = 3
  SpikeWindow = 1
  RecentLimit = 4
  EndOfTime = 6
  MaxFills = 5
  Places = {cond1, cond2}
  Values = {1, 2, 9}
  PaceWindow = 0
  MinPrior = 1
  LastTick = 1
  MaxLength = 5
  Bettors = {ann, bob}
  Events = {cond1, cond2}
  Schedules <- MCSchedules
  Sorts <- MCSorts
  PaceTicks = 1
  Horizon = 2
  MaxBets = 3
  Levels = {1, 2, 3}
  MaxFlagPercent = 60
  MaxSample = 5
  Readers = {reader}
  Trainers = {thread1, thread2}
  NoThread = nobody
  MaxModels = 2
  Authors = {ann, bob}
  Questions = {cond1, cond2}
  Kinds <- MCKinds
  LastHour = 2
  MaxStored = 3
  ShortGap = 0
  LongGap = 1
  DaySpan = 1
  Busy = 2
  Depth = 2
  Marks = {10, 80}
  FlagLine = 70
  Addresses = {ann, bob}
  TradeKeys = {key1}
  OwnerOf <- MCOwnerOf
  SeedWallets = {bob}
  MaxId <- MCMaxId
  MaxNo = 2
SPECIFICATION Spec
INVARIANTS TypesOK ReportsExact PnlAddsUp   
  ScoredByOneModel ExplainedAlike
  
CHECK_DEADLOCK FALSE
