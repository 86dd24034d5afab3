\* Four requests on two keys: a payment, the same again, another order's, and
\* an order's creation.
SPECIFICATION FairSpec
CONSTANTS
  Keys = {"k1", "k2"}
  Requests = {"r1", "r2", "r3", "r4"}
  Ask <- Orders
  Users = {"u"}
  Ops = {"CreateOrder", "PayOrder"}
  Trades = {"", "A", "B"}
  Bodies = {"usdt"}
  None = None
INVARIANTS AtMostOnce ReplayFaithful
PROPERTY KeyFreed
CHECK_DEADLOCK FALSE
