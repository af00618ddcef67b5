\* Three wallets, all of which fit into one job; six trades in pages of one or two, and
\* up to three of them behind the cap; two threads that emit into a queue of
\* two; two workers that start on one database, with one mishap.
CONSTANTS
  ann = ann
  bob = bob
  cat = cat
  worker1 = worker1
  worker2 = worker2
  Wallets = {ann, bob, cat}
  MaxWallets = 3
  NoWallet = NoWallet
  MaxPage = 2
  MaxOffset = 2
  MaxTries = 2
  Limits <- MCLimits
  MaxFeed = 6
  QueueSize = 2
  BatchSize = 2
  Emitters = {ann, bob}
  MaxEvents = 5
  Workers = {worker1, worker2}
  MaxAttempts = 2
  MaxMishaps = 1
SPECIFICATION Spec
INVARIANTS TypesOK OverfullByThreads MigratedTruthfully ServedComplete NothingSkipped
PROPERTIES  KeepsOrder EventsLeave SomeWorkerStarts
