\* One order and three transfers: every order of reports, promotions, late
\* and repeated reports, write-off, top-up, overpayment and D6.
SPECIFICATION Spec
CONSTANTS
  u1 = u1
  Users = {u1}
  Owner <- OneOwner
  Opening <- Opening3
  None = None
  BpsBase = 1
  FxBuffer = 0
  Int64Max = 100
  Orders = {o1}
  Addresses = {a1}
  Transfers = {t1, t2, t3}
  TxOf <- OwnTx
  Prices = {9}
  Amounts = {3, 5, 8}
  Rates = {2, 3}
  Discount = 0
  CouponTotal = 0
  UsesPerUser = 1
  Writeoff = 2
  OverpayIgnore = 1
  Frozen = {}
  CentScale = 2
  Tick = 2
SYMMETRY TransferSymmetry
INVARIANTS NoUnitSpentTwice OverpayReturned
PROPERTY KeepsInbox
CHECK_DEADLOCK FALSE
