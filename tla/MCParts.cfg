\* Nine parts side by side, each on an instance of its own.
SPECIFICATION MCPartsSpec
CONSTANTS
  None = None
  \* the console: two owners and one more row, two requests, two node keys
  Admins = {1, 2, 3}
  Founders = {1, 2}
  e1 = e1
  Emails = {e1, e2}
  Requests = {r1, r2}
  Keys = {k1, k2}
  Skew = 0
  Patience = 1
  Retention = 1
  MaxActive = 1
  Adjustments <- OneUpOneDown
  MaxStep = 2
  MaxSecret = 1
  MaxBalance = 1
  MaxCodes = 2
  \* the catalog: two orders and two admins on one plan and one coupon
  Plans = {plan1}
  Coupons = {coupon1}
  Sales = {o1, o2}
  Clerks = {a1, a2}
  UseLimits = {1}
  \* a ticket and two requests of its user
  Cases = {t1}
  Callers = {q1, q2}
  MaxMessages = 3
  MaxEvents = 2
  \* three mails to one person, two sends and two sweeps at a time
  Mails = {m1, m2, m3}
  People = {u1}
  Calls = {s1, s2}
  Sweeps = {w1, w2}
  LastDay = 1
  \* three subscription tokens, two revocations of all
  Tokens = {x1, x2, x3}
  Revokers = {v1, v2}
  ActiveLimit = 2
  LastTick = 3
  \* the desktop: two operations, two processes
  Operations = {c1, c2}
  Processes = {p1, p2}
  Ports = {port1, port2}
  MaxRestarts = 1
  \* the extension: two calls at once
  Jobs = {j1, j2}
  \* the signing keys: one rotation and the fetches around it
  Kids = {kid1, kid2}
  Refetch = 2
  Ttls = {3}
  FetchTimeout = 1
  LastClock = 6
  \* three orders on three tiers, in periods of two days of two units
  LastPurchase = 3
  Tiers = {1, 2, 3}
  Monthly <- ByTheMonth
  Price <- ForThePeriod
  Day = 2
  MonthDays = 1
  PeriodDays = 2
  CoolingOff = 1
  PayWindow = 1
  Quota = 1
  LightUse = 2
  Horizon = 4
  MaxRefunds = 2
SYMMETRY SameKind
INVARIANTS PartsTypeOK CodeAuthorisesOnce LockedOut OwnerRemains ActiveFound SoldAsListed TicketTruthful SentOnce RevokedStaysOut ProxyAsShown ExtensionTruthful KeysFollow SamePriceByEveryPath
CHECK_DEADLOCK FALSE
