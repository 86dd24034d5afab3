------------------------------ MODULE Refunds -------------------------------
(***************************************************************************)
(* What happens to an order after it is written: upgrades that count on    *)
(* it, refunds to the wallet (D7) and the commission its buyer's inviter   *)
(* gets for it (handler/admin_orders.go, order.go, wallet.go,              *)
(* admin_catalog.go).                                                      *)
(*                                                                         *)
(* One buyer and one inviter.  What time and traffic took from the value   *)
(* of a subscription, and whether an order is still young and hardly used, *)
(* are choices: the amounts come from GetRefundBasis, whose chain of       *)
(* orders is kept.                                                         *)
(*                                                                         *)
(* D7 is one transaction.  Its first statement takes the counts of earlier *)
(* refunds from its snapshot and then waits for the order's row, whose     *)
(* status it sees fresh; everything after that is decided under the lock   *)
(* and shows at the commit.                                                *)
(***************************************************************************)
EXTENDS Integers, FiniteSets, FiniteSetsExt

CONSTANTS
  Orders, Admins, None,
  Prices,       \* what an order costs after what it takes over
  Surpluses,    \* what is left of an upgrade's source, in money
  Opening,      \* the buyer's wallet
  Commission,   \* what the inviter is promised for the first order
  Adjustments,  \* changes an admin makes to a commission
  MaxCommission \* bound on what they make of it

Parties == {"buyer", "inviter"}
OrderRows ==
  [status : {"none", "pending", "paid", "completed", "partially_refunded", "refunded"},
   prev : Orders \cup {None}, due : Nat, paid : Nat, balance : Nat, surplus : Nat,
   since : Nat]
\* The last three are what the ledger entries of a commission add up to.
CommissionRows ==
  [status : {"none", "pending", "confirmed", "transferred", "voided"}, amount : Nat,
   credited : Nat, recovered : Nat, shortfall : Nat]
Clawbacks == [act : {"none", "void", "recover"}, recover : Nat, shortfall : Nat]
NoClawback == [act |-> "none", recover |-> 0, shortfall |-> 0]
Operations ==
  [order : Orders, phase : {"waiting", "holding"}, first : BOOLEAN, cooled : BOOLEAN,
   refunded : Nat, amount : Nat, rule : {"cooling_off", "prorated"},
   all : BOOLEAN, claw : Clawbacks]

ASSUME RefundsAssumption ==
  /\ IsFiniteSet(Orders) /\ None \notin Orders
  /\ None \notin Operations
  /\ Prices \subseteq Nat /\ Surpluses \subseteq Nat /\ Adjustments \subseteq Int
  /\ Opening \in Nat /\ Commission \in Nat /\ MaxCommission \in Nat

VARIABLES
  order,       \* orders, all of the buyer
  commission,  \* commissions, by order
  wallet,      \* wallet_balances
  refund,      \* refunds: per order, their sum and how many are cooling_off
  active,      \* the buyer has a running subscription
  d7,          \* per admin, the refund under way
  overlapped   \* history: the orders of which two refunds were under way at once

vars == <<order, commission, wallet, refund, active, d7, overlapped>>

TypeOK ==
  /\ order \in [Orders -> OrderRows]
  /\ commission \in [Orders -> CommissionRows]
  /\ wallet \in [Parties -> Nat]
  /\ refund \in [Orders -> [sum : Nat, cooling : Nat]]
  /\ active \in BOOLEAN
  /\ d7 \in [Admins -> Operations \cup {None}]
  /\ overlapped \in SUBSET Orders

AtMost(m, n) == IF m < n THEN m ELSE n
CeilDiv(m, n) == (m + n - 1) \div n

In(statuses) == {o \in Orders : order[o].status \in statuses}

\* The order's row, and its commission's, are locked by a refund.
Held(o) == \E a \in Admins : d7[a] # None /\ d7[a].order = o /\ d7[a].phase = "holding"

(***************************************************************************)
(* Orders                                                                  *)
(***************************************************************************)
\* applyBalance, and writeOrder, which holds it from the wallet.
Hold(price, balanceToo) == IF balanceToo THEN AtMost(price, wallet["buyer"]) ELSE 0

WriteOrder(o, price, balanceToo, src, surplus) ==
  LET hold == Hold(price, balanceToo) IN
  /\ order[o].status = "none"
  /\ order' = [order EXCEPT ![o] =
       [@ EXCEPT !.status = "pending", !.due = price - hold, !.balance = hold,
                 !.prev = src, !.surplus = surplus]]
  /\ wallet' = [wallet EXCEPT !["buyer"] = @ - hold]
  /\ UNCHANGED <<commission, refund, active, d7, overlapped>>

\* buildOrderDraft for a new order or a renewal.
CreateOrder(o, price, balanceToo) == WriteOrder(o, price, balanceToo, None, 0)

\* GetSubscriptionSource: the completed order that began last.
Source ==
  {o \in In({"completed"}) : \A p \in In({"completed"}) : order[p].since <= order[o].since}

Value(o) == order[o].paid + order[o].balance + order[o].surplus

\* buildUpgradeDraft: what is left of the source is taken over, whatever
\* becomes of the source until this order is paid.
CreateUpgrade(o, price, balanceToo, src, surplus) ==
  /\ active /\ src \in Source
  /\ surplus <= Value(src)
  /\ WriteOrder(o, price, balanceToo, src, surplus)

\* settleDeposit, of an order that payOrder let to an address; it lets none
\* that owes nothing.
SettleDeposit(o) ==
  /\ order[o].status = "pending" /\ order[o].due > 0
  /\ order' = [order EXCEPT ![o] = 
       [@ EXCEPT !.status = "paid", !.paid = order[o].paid + order[o].due]]
  /\ UNCHANGED <<commission, wallet, refund, active, d7, overlapped>>

\* payWithBalance: the amount due leaves the wallet, and neither amount_paid nor
\* amount_balance tells of it.
PayWithBalance(o) ==
  /\ order[o].status = "pending"
  /\ order[o].due \in 1..wallet["buyer"]
  /\ order' = [order EXCEPT ![o].status = "paid"]
  /\ wallet' = [wallet EXCEPT !["buyer"] = @ - order[o].due]
  /\ UNCHANGED <<commission, refund, active, d7, overlapped>>

\* The subscription of a paid order begins, and its commission is written:
\* one for the buyer's first order.
CompleteOrder(o) ==
  /\ order[o].status = "paid" /\ ~ Held(o)
  /\ order' = [order EXCEPT ![o] = [@ EXCEPT !.status = "completed",
       !.since = 1 + Cardinality({p \in Orders : order[p].since > 0})]]
  /\ commission' =
       IF \A p \in Orders : commission[p].status = "none"
         THEN [commission EXCEPT ![o] = [@ EXCEPT !.status = "pending", !.amount = Commission]]
         ELSE commission
  /\ active' = TRUE
  /\ UNCHANGED <<wallet, refund, d7, overlapped>>

SubscriptionEnds ==
  /\ active
  /\ active' = FALSE
  /\ UNCHANGED <<order, commission, wallet, refund, d7, overlapped>>

(***************************************************************************)
(* Commissions                                                             *)
(***************************************************************************)
ConfirmCommission(o) ==
  /\ commission[o].status = "pending" /\ ~ Held(o)
  /\ commission' = [commission EXCEPT ![o].status = "confirmed"]
  /\ UNCHANGED <<order, wallet, refund, active, d7, overlapped>>

\* TransferCommission, of one commission; it waits for those a refund holds.
TransferCommission(o) ==
  /\ commission[o].status = "confirmed" /\ ~ Held(o)
  /\ commission' = [commission EXCEPT ![o] =
       [@ EXCEPT !.status = "transferred",
                 !.credited = commission[o].credited + commission[o].amount]]
  /\ wallet' = [wallet EXCEPT !["inviter"] = @ + commission[o].amount]
  /\ UNCHANGED <<order, refund, active, d7, overlapped>>

\* adjustAdminCommission.
AdjustAdminCommission(o, delta) ==
  /\ commission[o].status \in {"pending", "confirmed"} /\ ~ Held(o)
  /\ commission[o].amount + delta \in 0..MaxCommission
  /\ commission' = [commission EXCEPT ![o].amount = @ + delta]
  /\ UNCHANGED <<order, wallet, refund, active, d7, overlapped>>

\* The inviter pays an order with what he has (SpendWalletBalance).
Spend(amount) ==
  /\ amount \in 1..wallet["inviter"]
  /\ wallet' = [wallet EXCEPT !["inviter"] = @ - amount]
  /\ UNCHANGED <<order, commission, refund, active, d7, overlapped>>

(***************************************************************************)
(* Refunds: D7, adminRefundOrder                                           *)
(***************************************************************************)
\* AdminGetOrderForRefund takes its snapshot.
AdminGetOrderForRefund(a, o) ==
  /\ d7[a] = None
  /\ order[o].status # "none"
  /\ d7' = [d7 EXCEPT ![a] =
       [order |-> o, phase |-> "waiting",
        first |-> Cardinality(In({"paid", "completed"})) <= 1,
        cooled |-> \E p \in Orders : refund[p].cooling > 0,
        refunded |-> refund[o].sum,
        amount |-> 0, rule |-> "prorated", all |-> FALSE, claw |-> NoClawback]]
  /\ overlapped' = overlapped \cup
       (IF \E b \in Admins : d7[b] # None /\ d7[b].order = o THEN {o} ELSE {})
  /\ UNCHANGED <<order, commission, wallet, refund, active>>

\* The order and, of the orders ps, each that it or another of these came from.
Closed(os, ps) == \A q \in os : order[q].prev \in ps => order[q].prev \in os
Behind(o, ps) ==
  {p \in Orders : \A os \in SUBSET Orders : o \in os /\ Closed(os, ps) => p \in os}

\* GetRefundBasis: the order and the completed orders before it.
Window(o) == Behind(o, In({"completed"}))
Paid == [p \in Orders |-> order[p].paid + order[p].balance]
WindowValue(os) == SumFunctionOnSet(Paid, os)

\* Mutant: what was refunded before is not taken off.
MaxAmount_Afresh(q, rule, consumed) ==
  LET v == WindowValue(Window(q.order))
  IN  IF rule = "cooling_off" THEN v ELSE IF consumed < v THEN v - consumed ELSE 0

\* classifyRefund: the most that can be given back now.
MaxAmount(q, rule, consumed) ==
  LET v == WindowValue(Window(q.order))
  IN  (IF rule = "cooling_off" THEN v ELSE IF consumed < v THEN v - consumed ELSE 0)
        - q.refunded

\* Mutant: the share is rounded down.
Share_Floor(o, amount) ==
  LET c == commission[o].amount
  IN  IF order[o].paid = 0 THEN c ELSE AtMost(c, (c * amount) \div order[o].paid)

\* AdminListOrderCommissionsForClawback: the commission's share of a refund.
Share(o, amount) ==
  LET c == commission[o].amount
  IN  IF order[o].paid = 0 THEN c ELSE AtMost(c, CeilDiv(c * amount, order[o].paid))

\* Mutant: a confirmed commission is the inviter's already.
planClawback_PendingOnly(o, amount) ==
  CASE commission[o].status = "pending" -> [NoClawback EXCEPT !.act = "void"]
    [] commission[o].status = "transferred" ->
         LET back == AtMost(Share(o, amount), wallet["inviter"])
         IN  [act |-> "recover", recover |-> back, shortfall |-> Share(o, amount) - back]
    [] OTHER -> NoClawback

planClawback(o, amount) ==
  CASE commission[o].status \in {"pending", "confirmed"} -> [NoClawback EXCEPT !.act = "void"]
    [] commission[o].status = "transferred" ->
         LET back == AtMost(Share(o, amount), wallet["inviter"])
         IN  [act |-> "recover", recover |-> back, shortfall |-> Share(o, amount) - back]
    [] OTHER -> NoClawback

Refundable(o) == order[o].status \in {"paid", "completed", "partially_refunded"}

\* The order's row is locked, and all of the refund is decided.  young: the
\* order began within seven days and little traffic was used.  consumed: what
\* time and traffic took.
JudgeRefund(a, young, consumed, amount) ==
  LET q    == d7[a]
      rule == IF young /\ q.first /\ ~ q.cooled THEN "cooling_off" ELSE "prorated"
      most == MaxAmount(q, rule, consumed)
  IN
  /\ q # None /\ q.phase = "waiting"
  /\ ~ Held(q.order)
  /\ Refundable(q.order)
  /\ amount \in 1..most
  /\ d7' = [d7 EXCEPT ![a] = [q EXCEPT !.phase = "holding", !.amount = amount, !.rule = rule,
              !.all = (amount = most), !.claw = planClawback(q.order, amount)]]
  /\ UNCHANGED <<order, commission, wallet, refund, active, overlapped>>

\* CreateRefund: refunds_cooling_off_once.
CreateRefund(q) ==
  q.rule = "cooling_off" => \A p \in Orders : refund[p].cooling = 0

\* The CHECK on wallet_balances refuses a clawback the inviter can no longer
\* pay.
WalletBears(q) == q.claw.recover <= wallet["inviter"]

\* The rows, the wallets, the subscription, the commission and the status, in
\* one transaction.
CommitRefund(a) ==
  LET q == d7[a]
      o == q.order
  IN
  /\ q # None /\ q.phase = "holding"
  /\ CreateRefund(q)
  /\ WalletBears(q)
  /\ refund' = [refund EXCEPT ![o] =
       [sum |-> @.sum + q.amount,
        cooling |-> @.cooling + (IF q.rule = "cooling_off" THEN 1 ELSE 0)]]
  /\ wallet' = [wallet EXCEPT !["buyer"] = @ + q.amount, !["inviter"] = @ - q.claw.recover]
  /\ active' = FALSE
  /\ commission' = [commission EXCEPT ![o] =
       IF q.claw.act = "void" THEN [@ EXCEPT !.status = "voided"]
       ELSE [@ EXCEPT !.recovered = commission[o].recovered + q.claw.recover,
                      !.shortfall = commission[o].shortfall + q.claw.shortfall]]
  /\ order' = [order EXCEPT ![o].status = IF q.all THEN "refunded" ELSE "partially_refunded"]
  /\ d7' = [d7 EXCEPT ![a] = None]
  /\ UNCHANGED overlapped

\* The refund is refused, meets a constraint or ends with its instance.
RollBack(a) ==
  /\ d7[a] # None
  /\ d7' = [d7 EXCEPT ![a] = None]
  /\ UNCHANGED <<order, commission, wallet, refund, active, overlapped>>
-----------------------------------------------------------------------------
Init ==
  /\ order = [o \in Orders |-> [status |-> "none", prev |-> None, due |-> 0, paid |-> 0,
                                balance |-> 0, surplus |-> 0, since |-> 0]]
  /\ commission = [o \in Orders |-> [status |-> "none", amount |-> 0, credited |-> 0,
                                     recovered |-> 0, shortfall |-> 0]]
  /\ wallet = [p \in Parties |-> IF p = "buyer" THEN Opening ELSE 0]
  /\ refund = [o \in Orders |-> [sum |-> 0, cooling |-> 0]]
  /\ active = FALSE
  /\ d7 = [a \in Admins |-> None]
  /\ overlapped = {}

Buy(o) ==
  \/ \E price \in Prices, balanceToo \in BOOLEAN :
       \/ CreateOrder(o, price, balanceToo)
       \/ \E src \in Orders, surplus \in Surpluses :
            CreateUpgrade(o, price, balanceToo, src, surplus)
  \/ SettleDeposit(o)
  \/ PayWithBalance(o)
  \/ CompleteOrder(o)

Promise(o) ==
  \/ ConfirmCommission(o)
  \/ TransferCommission(o)
  \/ \E delta \in Adjustments : AdjustAdminCommission(o, delta)

Refund(a) ==
  \/ \E o \in Orders : AdminGetOrderForRefund(a, o)
  \/ \E young \in BOOLEAN, consumed \in {0} \cup Surpluses,
        amount \in 1..WindowValue(Orders) : JudgeRefund(a, young, consumed, amount)
  \/ CommitRefund(a)
  \/ RollBack(a)

Next ==
  \/ \E o \in Orders : Buy(o) \/ Promise(o)
  \/ SubscriptionEnds
  \/ \E amount \in 1..wallet["inviter"] : Spend(amount)
  \/ \E a \in Admins : Refund(a)

Spec == Init /\ [][Next]_vars
-----------------------------------------------------------------------------
(* Properties.                                                             *)

\* The order and every order before it, refunded or not.
Ancestry(o) == Behind(o, Orders)

\* The refunds of one order, taken together, stay within what the rows of it
\* and of the orders it took over say was paid (classifyRefund takes off what
\* was refunded before), unless two of them were under way at once.
RefundsWithinPayments ==
  \A o \in Orders \ overlapped : refund[o].sum <= WindowValue(Ancestry(o))

\* The same of any two refunds, as the comment of classifyRefund has it: no
\* money is refunded twice.
RefundedOnce ==
  \A o \in Orders : refund[o].sum <= WindowValue(Ancestry(o))

\* What a settled order and those before it cost the buyer.
Cost == [p \in Orders |-> order[p].due + order[p].balance]

\* The base of a refund is all that was paid along the chain, as the comments
\* of GetRefundBasis and of settleDeposit have it: who paid gets to see it.
BasisIsPayments ==
  \A o \in In({"paid", "completed"}) :
    WindowValue(Window(o)) = SumFunctionOnSet(Cost, Window(o))

\* A refund of an order stops its commission: it is voided, or was paid out
\* before; and what is voided was never paid out (planClawback,
\* TransferCommission).
CommissionStopped ==
  \A o \in Orders :
    /\ order[o].status \in {"partially_refunded", "refunded"}
         => commission[o].status \notin {"pending", "confirmed"}
    /\ commission[o].status = "voided" => commission[o].credited = 0

\* A commission paid out is claimed back whole, from the inviter's wallet or
\* as a loss, once the refunds reach what was paid, in however many parts and
\* whatever the inviter spends meanwhile (the share is rounded up).
ClawbackSuffices ==
  \A o \in Orders :
    commission[o].status = "transferred" /\ refund[o].sum > 0 /\ refund[o].sum >= order[o].paid
      => commission[o].recovered + commission[o].shortfall >= commission[o].credited

\* What is claimed back never exceeds the commission (the comment of
\* AdminListOrderCommissionsForClawback).
ClawbackBounded ==
  \A o \in Orders :
    commission[o].recovered + commission[o].shortfall <= commission[o].amount

(***************************************************************************)
(* The invariant that these properties rest on.                            *)
(***************************************************************************)
Holding(a) == d7[a] # None /\ d7[a].phase = "holding"
Stopped == {"partially_refunded", "refunded"}
ClaimedBack(o) == commission[o].recovered + commission[o].shortfall

\* The lock on the order's row is one refund's at a time.
OneHolds ==
  \A a, b \in Admins : Holding(a) /\ Holding(b) /\ d7[a].order = d7[b].order => a = b

\* What a refund decided under the lock is still right at its commit.
JudgedStands ==
  \A a \in Admins : Holding(a) =>
    LET q == d7[a] IN
    /\ Refundable(q.order) /\ q.amount > 0
    /\ (q.claw.act = "void") <=> (commission[q.order].status \in {"pending", "confirmed"})
    /\ commission[q.order].status = "transferred" =>
         q.claw.recover + q.claw.shortfall = Share(q.order, q.amount)

\* An order has no commission before its completion, and no refund before
\* its status says so.
StatusAhead ==
  \A o \in Orders :
    /\ order[o].status \in {"none", "pending", "paid"} => commission[o].status = "none"
    /\ refund[o].sum > 0 => order[o].status \in Stopped

\* Only a transferred commission was credited, and with what it is.
CreditedOnce ==
  \A o \in Orders :
    commission[o].credited =
      IF commission[o].status = "transferred" THEN commission[o].amount ELSE 0

\* The refunds so far claimed their share of the commission, each rounded up,
\* or all of it.
ClaimedInStep ==
  \A o \in Orders : commission[o].status = "transferred" =>
    \/ ClaimedBack(o) >= commission[o].amount
    \/ refund[o].sum = 0
    \/ order[o].paid > 0
       /\ ClaimedBack(o) * order[o].paid >= commission[o].amount * refund[o].sum

\* What an order came from and what of its price was held is so from its
\* creation on.
FromTheStart ==
  \A o \in Orders : order[o].status = "none" => order[o].prev = None /\ order[o].balance = 0

\* A refund that has its order to itself knows what was refunded before, and
\* what it gives back is within what is left of the payments.
AloneWithin ==
  \A a \in Admins : d7[a] # None /\ d7[a].order \notin overlapped =>
    /\ d7[a].refunded = refund[d7[a].order].sum
    /\ \A b \in Admins : d7[b] # None /\ d7[b].order = d7[a].order => a = b
    /\ d7[a].phase = "holding" =>
         d7[a].refunded + d7[a].amount <= WindowValue(Ancestry(d7[a].order))

RefundsInv ==
  /\ TypeOK /\ OneHolds /\ JudgedStands /\ StatusAhead /\ CreditedOnce /\ ClaimedInStep
  /\ FromTheStart /\ AloneWithin /\ CommissionStopped /\ RefundsWithinPayments
=============================================================================
