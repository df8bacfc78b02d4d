CONSTANTS
  c1 = c1  c2 = c2
  NoOne = NoOne
  Clients <- ClientSet
  Stale = 2
  MaxBatch = 2
  MaxDeaths = 2
SPECIFICATION FairLockSpec
INVARIANTS ExclusiveUntilTakeover
PROPERTY LockReturns
