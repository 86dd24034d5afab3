------------------------------- MODULE Billing ------------------------------
(***************************************************************************)
(* What one buyer pays for the time and traffic he is served: orders,      *)
(* upgrades that count on what is left of the order before, and refunds    *)
(* (handler/order.go, admin_orders.go, GetSubscriptionSource and           *)
(* GetRefundBasis), in cents and time.                                     *)
(*                                                                         *)
(* All orders are for one period and without a coupon.  A day has Day      *)
(* units of time, so that rounding up to days shows.  A draft is written   *)
(* by the action that computes it, one at a time; an order is paid later,  *)
(* in a way that leaves amount_paid, and its subscription begins with the  *)
(* payment.  Races between the transactions are the business of Payments   *)
(* and Refunds.  Renewals are left out: they are windows of their own.     *)
(***************************************************************************)
EXTENDS Integers, FiniteSets, FiniteSetsExt, Common

CONSTANTS
  LastPurchase,  \* bound on orders
  Tiers,         \* plans, numbered
  Monthly,       \* their price by the month, in cents
  Price,         \* their price for the period, in cents
  Day,           \* units of time in a day
  MonthDays, PeriodDays,
  CoolingOff,    \* coolingOffWindow, in units of time
  PayWindow,     \* orderPayWindow, in units of time
  Quota,         \* transfer_enable_plan while subscribed
  LightUse,      \* the part of it within which an order counts as unused, as 1/LightUse
  Horizon,       \* bound on time
  MaxRefunds     \* bound on refunds

Purchases == 1..LastPurchase
Dates == 0..Horizon
EndTimes == 0..(Horizon + Day * PeriodDays)
PurchaseRows ==
  [status : {"none", "pending", "completed", "partially_refunded", "refunded"},
   tier : Tiers \cup {None}, prev : Purchases \cup {None}, due : Nat, surplus : Nat,
   created : Dates, from : Dates, to : EndTimes]
NoPurchase ==
  [status |-> "none", tier |-> None, prev |-> None, due |-> 0, surplus |-> 0,
   created |-> 0, from |-> 0, to |-> 0]

ASSUME BillingAssumption ==
  /\ LastPurchase \in Nat /\ IsFiniteSet(Tiers) /\ None \notin Tiers \cup Purchases
  /\ Monthly \in [Tiers -> Nat] /\ Price \in [Tiers -> Nat]
  /\ {Day, MonthDays, PeriodDays, Quota, LightUse} \subseteq Nat \ {0}
  /\ {CoolingOff, PayWindow, Horizon, MaxRefunds} \subseteq Nat

VARIABLES
  date,      \* now()
  purchase,  \* orders
  sub,       \* the user's row: the order his plan is from, or none, and expired_at
  traffic,   \* user_traffic: u + d of this cycle
  allowance, \* transfer_enable_plan
  given,     \* refunds: per order, their sum, how many, and whether one was cooling_off
  held,      \* history: how long the buyer was served on an order
  drawn,     \* history: the traffic of this cycle drawn on an order
  marred,    \* history: orders with a second one, or a refund, across them
  unmetered  \* history: orders refunded when no subscription was left to meter

billingVars == <<date, purchase, sub, traffic, allowance, given, held, drawn, marred, unmetered>>

BillingTypeOK ==
  /\ date \in Dates
  /\ purchase \in [Purchases -> PurchaseRows]
  /\ sub \in [order : Purchases \cup {None}, expires : EndTimes]
  /\ traffic \in 0..Quota /\ allowance \in {0, Quota}
  /\ given \in [Purchases -> [sum : Nat, times : 0..MaxRefunds, cooled : BOOLEAN]]
  /\ held \in [Purchases -> Dates] /\ drawn \in [Purchases -> 0..Quota]
  /\ marred \subseteq Purchases /\ unmetered \subseteq Purchases

LeastOf(m, n) == IF m < n THEN m ELSE n
MostOf(m, n) == IF m < n THEN n ELSE m
\* mulDiv: a share, rounded down.
MulDiv(v, num, den) == (v * num) \div den
DaysUp(time) == (time + Day - 1) \div Day

Bought(statuses) == {o \in Purchases : purchase[o].status \in statuses}
Begun == Bought({"completed", "partially_refunded", "refunded"})
SubscriptionActive == sub.order # None /\ sub.expires > date

Refunds(win) == SumFunctionOnSet([o \in win |-> given[o].times], win)

\* Orders are numbered as they are written.
NextPurchase == 1 + Cardinality(Purchases \ Bought({"none"}))

(***************************************************************************)
(* Orders                                                                  *)
(***************************************************************************)
\* One order is open at a time (a bound).
WriteDraft(tier, prev, gross, surplus, to) ==
  /\ NextPurchase \in Purchases /\ Bought({"pending"}) = {}
  /\ purchase' = [purchase EXCEPT ![NextPurchase] =
       [status |-> "pending", tier |-> tier, prev |-> prev, due |-> gross - surplus,
        surplus |-> surplus, created |-> date, from |-> 0, to |-> to]]
  /\ UNCHANGED <<date, sub, traffic, allowance, given, held, drawn, marred, unmetered>>

\* buildOrderDraft of a buyer without a running subscription.
BuyNew(tier) ==
  /\ ~ SubscriptionActive
  /\ WriteDraft(tier, None, Price[tier], 0, 0)

\* An order and those it came from, refunded or not.
Chain[o \in Purchases] ==
  {o} \cup (IF purchase[o].prev = None THEN {} ELSE Chain[purchase[o].prev])

\* GetSubscriptionSource, which is the completed order that began last, what
\* it was worth, and its days.
SubscriptionSource ==
  {o \in Bought({"completed"}) : \A p \in Bought({"completed"}) :
     \/ purchase[p].from < purchase[o].from
     \/ purchase[p].from = purchase[o].from /\ p <= o}
VSource(o) == purchase[o].due + purchase[o].surplus
DTotal(o) ==
  IF purchase[o].to <= purchase[o].from THEN 1 ELSE DaysUp(purchase[o].to - purchase[o].from)
DLeft(o) ==
  IF purchase[o].to <= date THEN 0 ELSE LeastOf(DTotal(o), DaysUp(purchase[o].to - date))

\* What an upgrade takes over: never more than it costs.
Surplus(src, gross) == LeastOf(MulDiv(VSource(src), DLeft(src), DTotal(src)), gross)

\* buildUpgradeDraft.
Upgrade(tier) ==
  \E src \in SubscriptionSource :
    LET gross == MulDiv(Price[tier], DLeft(src), DTotal(src)) IN
    /\ SubscriptionActive /\ purchase[sub.order].tier # tier
    /\ Price[tier] > Price[purchase[sub.order].tier]
    /\ WriteDraft(tier, src, gross, Surplus(src, gross), purchase[src].to)

\* An order is paid in time, and its subscription begins, as the columns of
\* migration 0016 say.  When it was created is not needed any more.
CompleteOrder(o) ==
  LET row == purchase[o]
      to  == IF row.prev = None THEN date + Day * PeriodDays ELSE row.to
  IN
  /\ row.status = "pending" /\ row.due > 0 /\ date <= row.created + PayWindow
  /\ purchase' = [purchase EXCEPT ![o] =
       [row EXCEPT !.status = "completed", !.from = date, !.to = to, !.created = 0]]
  /\ sub' = [order |-> o, expires |-> to]
  /\ allowance' = Quota
  /\ marred' = marred \cup
       (IF row.prev = (IF SubscriptionActive THEN sub.order ELSE None) THEN {}
        ELSE {o} \cup ({sub.order} \ {None}))
  /\ UNCHANGED <<date, traffic, given, held, drawn, unmetered>>

\* order-timeout; an order that was never paid leaves nothing behind.
Lapse(o) ==
  /\ purchase[o].status = "pending" /\ date > purchase[o].created + PayWindow
  /\ purchase' = [purchase EXCEPT ![o] = NoPurchase]
  /\ UNCHANGED <<date, sub, traffic, allowance, given, held, drawn, marred, unmetered>>

(***************************************************************************)
(* Service                                                                 *)
(***************************************************************************)
DatePasses ==
  /\ date < Horizon
  /\ date' = date + 1
  /\ held' = IF SubscriptionActive THEN [held EXCEPT ![sub.order] = @ + 1] ELSE held
  /\ UNCHANGED <<purchase, sub, traffic, allowance, given, drawn, marred, unmetered>>

\* A node serves until the quota is used up.
DrawTraffic ==
  /\ SubscriptionActive /\ traffic < allowance
  /\ traffic' = traffic + 1
  /\ drawn' = [drawn EXCEPT ![sub.order] = @ + 1]
  /\ UNCHANGED <<date, purchase, sub, allowance, given, held, marred, unmetered>>

\* runTrafficReset.
ResetTraffic ==
  /\ SubscriptionActive /\ traffic > 0
  /\ traffic' = 0
  /\ drawn' = [o \in Purchases |-> 0]
  /\ UNCHANGED <<date, purchase, sub, allowance, given, held, marred, unmetered>>

(***************************************************************************)
(* Refunds: GetRefundBasis and classifyRefund                              *)
(***************************************************************************)
\* The order and, as far back as they are completed, the ones it upgraded.
BasisOf[o \in Purchases] ==
  LET p == purchase[o].prev
  IN  {o} \cup (IF p # None THEN IF purchase[p].status = "completed" THEN BasisOf[p] ELSE {}
                ELSE {})

\* lead(covers_from): the segment of an order ends where the next one begins.
SegmentEnd(o, win) ==
  LET later == {p \in win : \/ purchase[p].from > purchase[o].from
                            \/ purchase[p].from = purchase[o].from /\ p > o}
  IN  IF later = {} THEN date ELSE LeastOf(date, Min({purchase[p].from : p \in later}))

ConsumedTime(win) ==
  SumFunctionOnSet([o \in win |-> (Monthly[purchase[o].tier]
                                    * MostOf(0, SegmentEnd(o, win) - purchase[o].from))
                                   \div (Day * MonthDays)], win)

PlanUsed == LeastOf(traffic, allowance)
\* greatest(1, transfer_enable_plan).
ConsumedData(o) == (Monthly[purchase[o].tier] * PlanUsed) \div MostOf(1, allowance)

\* Mutant: what was taken over counts as paid.
VWindow_WithSurplus(win) ==
  SumFunctionOnSet([o \in win |-> purchase[o].due + purchase[o].surplus], win)

VWindow(win) == SumFunctionOnSet([o \in win |-> purchase[o].due], win)
RefundB(o) ==
  MostOf(0, VWindow(BasisOf[o]) - ConsumedTime(BasisOf[o]) - ConsumedData(o))

\* The gates of a refund in full, but for the ban.
CoolsOff(o) ==
  /\ Cardinality(Bought({"completed"})) <= 1
  /\ date - purchase[o].from <= CoolingOff
  /\ PlanUsed <= allowance \div LightUse
  /\ \A p \in Purchases : ~ given[p].cooled

\* adminRefundOrder, with AdminTerminateSubscriptionForRefund: as much as there
\* is, or a cent of it.
RefundPurchase(o) ==
  LET most == (IF CoolsOff(o) THEN VWindow(BasisOf[o]) ELSE RefundB(o)) - given[o].sum IN
  /\ purchase[o].status \in {"completed", "partially_refunded"}
  /\ Refunds(Purchases) < MaxRefunds
  /\ most > 0
  /\ \E amount \in {1, most} :
       /\ given' = [given EXCEPT ![o] =
            [sum |-> @.sum + amount, times |-> @.times + 1,
             cooled |-> @.cooled \/ CoolsOff(o)]]
       /\ purchase' = [purchase EXCEPT ![o].status =
            IF amount = most THEN "refunded" ELSE "partially_refunded"]
  /\ sub' = [order |-> None, expires |-> date]
  /\ allowance' = 0
  /\ marred' = marred \cup
       (IF \E p \in Begun : o # p /\ o \in Chain[p] THEN {o} ELSE {})
       \cup (IF sub.order = None \/ o \in Chain[sub.order] THEN {} ELSE {o, sub.order})
  /\ unmetered' = unmetered \cup (IF sub.order = None THEN {o} ELSE {})
  /\ UNCHANGED <<date, traffic, held, drawn>>
-----------------------------------------------------------------------------
BillingInit ==
  /\ date = 0
  /\ purchase = [o \in Purchases |-> NoPurchase]
  /\ sub = [order |-> None, expires |-> 0]
  /\ traffic = 0 /\ allowance = 0
  /\ given = [o \in Purchases |-> [sum |-> 0, times |-> 0, cooled |-> FALSE]]
  /\ held = [o \in Purchases |-> 0]
  /\ drawn = [o \in Purchases |-> 0]
  /\ marred = {} /\ unmetered = {}

BillingNext ==
  \/ \E tier \in Tiers : BuyNew(tier) \/ Upgrade(tier)
  \/ \E o \in Purchases : CompleteOrder(o) \/ Lapse(o) \/ RefundPurchase(o)
  \/ DatePasses \/ DrawTraffic \/ ResetTraffic

BillingSpec == BillingInit /\ [][BillingNext]_billingVars
-----------------------------------------------------------------------------
(* Properties.                                                             *)

\* A window: a new order and all that upgrade it, refunded or not.
Windows == {{p \in Begun : o \in Chain[p]} : o \in {p \in Begun : purchase[p].prev = None}}

Net(win) == SumFunctionOnSet([o \in win |-> purchase[o].due - given[o].sum], win)

\* What was served in a window, by the month and by the period.
TimeByMonth(win) ==
  SumFunctionOnSet([o \in win |-> (Monthly[purchase[o].tier] * held[o]) \div (Day * MonthDays)],
                   win)
TimeByPeriod(win) ==
  SumFunctionOnSet([o \in win |-> (Price[purchase[o].tier] * held[o]) \div (Day * PeriodDays)],
                   win)
DataByMonth(win) ==
  SumFunctionOnSet([o \in win |-> Monthly[purchase[o].tier] * drawn[o]], win) \div Quota

\* Who keeps what he bought has paid the price of the period for the time he
\* was served, but for a cent an order; who has some of it refunded has paid
\* the price of the month, and for the traffic of the cycle.
NotCheaper(win) ==
  (\A o \in win : ~ given[o].cooled) =>
    IF Refunds(win) = 0 THEN Net(win) + Cardinality(win) >= TimeByPeriod(win)
    ELSE Net(win) >= TimeByMonth(win)
                       + (IF win \cap unmetered = {} THEN DataByMonth(win) ELSE 0)

\* What was held to its end, after one upgrade at most, cost no more than its
\* days by the month, but for a day and a cent an order.
NotDearer(win) ==
  (Cardinality(win) <= 2 /\ Refunds(win) = 0 /\ \A o \in win : purchase[o].to <= date) =>
    Net(win) <= TimeByMonth(win)
                  + SumFunctionOnSet([o \in win |-> 1 + Price[purchase[o].tier] \div PeriodDays],
                                     win)

\* No path of upgrades and refunds is cheaper or dearer than the list prices
\* (ADR 0013, 1.1; buildUpgradeDraft, GetRefundBasis, classifyRefund).  The
\* exceptions are the refund of the first days, traffic at a refund that finds
\* no subscription left, the price of a second upgrade, and windows that
\* another one, or a refund, came across.
SamePriceByEveryPath ==
  \A win \in Windows : win \cap marred = {} => NotCheaper(win) /\ NotDearer(win)

NoneCheaper == \A win \in Windows : win \cap marred = {} => NotCheaper(win)

\* What is dearer by the period is not cheaper by the month.
DearerByBoth == \A s, t \in Tiers : Price[s] < Price[t] => Monthly[s] <= Monthly[t]

\* A period is no dearer than its days by the month.
NoDearer(price, monthly) == price * MonthDays <= monthly * PeriodDays

\* Price lists that agree, with time told no finer than an order waits for its
\* payment.
PricesAgree ==
  /\ DearerByBoth
  /\ \A t \in Tiers : NoDearer(Price[t], Monthly[t])
  /\ PayWindow <= 1
=============================================================================
