\* Three addresses, of which one may be frozen, in batches of two and one transfer.
SPECIFICATION FairSpec
CONSTANTS
  a1 = a1
  a2 = a2
  Addresses = {a1, a2, a3}
  Transfers = {t1}
  Tasks = {w1}
  Rechecks = {}
  AddrOf <- AllToOne
  Id <- Ids
  BatchSize = 2
  Lookback = 1
  Delay = 1
  Lag = 1
  MaxBlacklisted = 1
  MaxTime = 2
PROPERTIES SolidifiedBooked NoneStarves
CHECK_DEADLOCK FALSE
