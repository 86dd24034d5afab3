\* One address: the task, overlapping a recheck, and two transfers.
SPECIFICATION Spec
CONSTANTS
  a1 = a1
  a2 = a2
  Addresses = {a1}
  Transfers = {t1, t2}
  Tasks = {w1}
  Rechecks = {w2}
  AddrOf <- AllToOne
  Id <- Ids
  BatchSize = 1
  Lookback = 1
  Delay = 1
  Lag = 1
  MaxBlacklisted = 1
  MaxTime = 4
SYMMETRY TransferSymmetry
INVARIANT NothingSkipped
PROPERTY KeepsInbox
CHECK_DEADLOCK FALSE
