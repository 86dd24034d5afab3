\* Three orders of one user race for the wallet, the coupon and one address;
\* one transfer.
SPECIFICATION Spec
CONSTANTS
  u1 = u1
  Users = {u1}
  Orders = {o1, o2, o3}
  Addresses = {a1}
  Transfers = {t1}
  Owner <- OneOwner
  TxOf <- OwnTx
  Opening <- Opening3
  Prices = {3}
  Amounts = {4}
  Rates = {1}
  Discount = 1
  CouponTotal = 2
  UsesPerUser = 1
  Writeoff = 1
  OverpayIgnore = 0
  Frozen = {}
  None = None
  CentScale = 1
  BpsBase = 1
  FxBuffer = 0
  Tick = 1
  Int64Max = 10
SYMMETRY OrderSymmetry
INVARIANTS HoldSettledOnce WalletReconciles CouponNotOversold AddressNamesOneOrder
PROPERTIES KeepsEscrow
CHECK_DEADLOCK FALSE
