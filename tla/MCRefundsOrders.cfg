\* A first order and one that upgrades or follows it, refunded by two admins, and
\* the commission of the first.
SPECIFICATION Spec
CONSTANTS
  Orders = {o1, o2}
  Admins = {a1, a2}
  None = None
  Prices = {2}
  Surpluses = {1}
  Opening = 2
  Commission = 1
  Adjustments <- Cuts
  MaxCommission = 1
SYMMETRY AdminSymmetry
INVARIANTS RefundsWithinPayments CommissionStopped ClawbackSuffices
CHECK_DEADLOCK FALSE
