\* Fairness: the order-timeout task and the chain scan, two orders and two
\* transfers of one transaction, one of two addresses frozen.
SPECIFICATION FairSpec
CONSTANTS
  u1 = u1
  Users = {u1}
  Owner <- OneOwner
  Opening <- NoOpening
  None = None
  BpsBase = 1
  FxBuffer = 0
  Int64Max = 100
  CentScale = 1
  Tick = 1
  Orders = {o1, o2}
  Addresses = {a1, a2}
  Transfers = {t1, t2}
  TxOf <- SharedTx
  Prices = {4}
  Amounts = {2}
  Rates = {1}
  Discount = 0
  CouponTotal = 0
  UsesPerUser = 1
  Writeoff = 1
  OverpayIgnore = 0
  Frozen = {a2}
PROPERTIES OverdueOrderSettles SolidMoneyBooked
CHECK_DEADLOCK FALSE
