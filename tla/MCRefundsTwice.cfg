\* Two admins and one order.
SPECIFICATION Spec
CONSTANTS
  Orders = {o1}
  Admins = {a1, a2}
  None = None
  Prices = {2}
  Surpluses = {1}
  Opening = 0
  Commission = 1
  Adjustments <- Cuts
  MaxCommission = 1
SYMMETRY AdminSymmetry
INVARIANT RefundedOnce
CHECK_DEADLOCK FALSE
