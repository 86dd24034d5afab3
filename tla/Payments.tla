------------------------------ MODULE Payments ------------------------------
(***************************************************************************)
(* The life of an order from its draft to the moment its money is settled: *)
(* createOrder, cancelOrder, payOrder, the deposit path every chain report *)
(* goes through, the order-timeout task and the manual mark-paid (D6).     *)
(*                                                                         *)
(* Every handler writes inside one database transaction, and the row locks *)
(* and conditional UPDATEs it takes make the transactions that touch an    *)
(* order or a wallet serial: one action is one transaction. What a handler *)
(* reads before its transaction is kept as state of its own (a "draft"     *)
(* order, asked), so that any other transaction may run in between.        *)
(***************************************************************************)
EXTENDS Money, FiniteSets, Functions

CONSTANTS
  Users, Orders, Addresses, Transfers,
  Owner,        \* the user each order belongs to
  TxOf,         \* the transaction id of each transfer: one may hold several
  Opening,      \* each wallet's balance before the first order
  Prices,       \* gross amount less the surplus of an upgrade, in cents
  Amounts,      \* what a transfer may carry, in USDT units
  Rates,        \* the CNY per USDT the setting takes over time
  Discount, CouponTotal, UsesPerUser,
  Writeoff,     \* a shortfall up to here is written off (tier A)
  OverpayIgnore, \* an excess up to here is not worth a wallet entry
  Frozen,       \* addresses that are on Tether's blacklist at some time
  None

\* The amounts and limits are what the columns and the settings allow.
ASSUME PaymentsAssumption ==
  /\ Owner \in [Orders -> Users]
  /\ DOMAIN TxOf = Transfers
  /\ Opening \in [Users -> Nat]
  /\ Prices \subseteq Nat /\ Amounts \subseteq Nat \ {0}
  /\ Rates \subseteq Nat \ {0}
  /\ Discount \in Nat /\ CouponTotal \in Nat /\ UsesPerUser \in Nat
  /\ Writeoff \in Nat /\ OverpayIgnore \in Nat
  /\ IsFiniteSet(Orders) /\ IsFiniteSet(Transfers)
  /\ None \notin Addresses /\ None \notin Orders
  /\ \A t \in Transfers : TxOf[t] # None

VARIABLES
  order,        \* orders, and the draft a createOrder request holds
  asked,        \* payOrder requests past the checks made outside the transaction
  wallet,       \* wallet_balances.balance
  couponUsed,   \* coupons.used_count
  ledger,       \* per order, the sum of its entries of each kind (entry_no prefix)
  payment,      \* payments rows, by external_id
  credited,     \* units the BAL entries naming this transfer's receipt moved
  chain         \* the TRON chain: what the transfers really are

vars == <<order, asked, wallet, couponUsed, ledger, payment, credited, chain>>
-----------------------------------------------------------------------------
Txids == {TxOf[t] : t \in Transfers}

Open    == {"pending", "paying", "underpaid"}
Payable == {"paying", "underpaid"}
Closed  == {"cancelled", "expired"}
Statuses == {"none", "draft", "paid"} \cup Open \cup Closed
PaymentStates == {"none", "waiting", "confirming", "underpaid", "paid", "expired"}

OrderType ==
  [status : Statuses, due : Nat, bal : Nat, coupon : BOOLEAN, overdue : BOOLEAN,
   addr : Addresses \cup {None}, watched : BOOLEAN, expected : Nat, fx : Nat,
   paid : Nat, ref : Txids \cup {None}]

LedgerType ==
  [BALHOLD : Nat, BALREL : Nat, PAY : Nat, RCV : Nat, BAL : Nat, D6 : Nat,
   shortfall : Int]

PaymentType ==
  [state : PaymentStates, by : {"none", "scanner", "admin", "admin+scanner"},
   addr : Addresses \cup {None}, amt : Nat, order : Orders \cup {None}]

ChainType ==
  [st : {"absent", "confirming", "solidified", "orphaned"},
   addr : Addresses \cup {None}, amt : Nat]

NoOrder ==
  [status |-> "none", due |-> 0, bal |-> 0, coupon |-> FALSE, overdue |-> FALSE,
   addr |-> None, watched |-> FALSE, expected |-> 0, fx |-> 0, paid |-> 0, ref |-> None]
NoEntries ==
  [BALHOLD |-> 0, BALREL |-> 0, PAY |-> 0, RCV |-> 0, BAL |-> 0, D6 |-> 0,
   shortfall |-> 0]
NoPayment ==
  [state |-> "none", by |-> "none", addr |-> None, amt |-> 0, order |-> None]
NoTransfer == [st |-> "absent", addr |-> None, amt |-> 0]

Init ==
  /\ order = [o \in Orders |-> NoOrder]
  /\ asked = [o \in Orders |-> {}]
  /\ wallet = Opening
  /\ couponUsed = 0
  /\ ledger = [o \in Orders |-> NoEntries]
  /\ payment = [t \in Transfers |-> NoPayment]
  /\ credited = [t \in Transfers |-> 0]
  /\ chain = [t \in Transfers |-> NoTransfer]

IsRow(o) == order[o].status \notin {"none", "draft"}
-----------------------------------------------------------------------------
(* createOrder: the draft is built from reads outside the transaction.     *)

\* CountUserCouponUses: a cancelled or expired order gives its use back.
UserCouponUses(u) ==
  Cardinality({o \in Orders : /\ Owner[o] = u
                              /\ order[o].coupon
                              /\ IsRow(o)
                              /\ order[o].status \notin Closed})

CouponUsable(u) == couponUsed < CouponTotal /\ UserCouponUses(u) < UsesPerUser

BuildDraft(o) ==
  /\ order[o].status = "none"
  /\ \E price \in Prices, useBalance \in BOOLEAN, useCoupon \in BOOLEAN :
       LET remain == price - (IF useCoupon THEN Least(Discount, price) ELSE 0)
           bal == IF useBalance THEN Least(wallet[Owner[o]], remain) ELSE 0
       IN  /\ useCoupon => CouponUsable(Owner[o])
           /\ order' = [order EXCEPT ![o] =
                [NoOrder EXCEPT !.status = "draft", !.due = remain - bal,
                                !.bal = bal, !.coupon = useCoupon]]
  /\ UNCHANGED <<asked, wallet, couponUsed, ledger, payment, credited, chain>>

\* Mutant: the check made when the draft was built is trusted.
CouponFree_AtDraft(o) == TRUE

CouponFree(o) == order[o].coupon => couponUsed < CouponTotal

\* writeOrder: the coupon use is counted and the balance taken out of the
\* wallet in the transaction that inserts the order.
WriteOrder(o) ==
  /\ order[o].status = "draft"
  /\ CouponFree(o)
  /\ wallet[Owner[o]] >= order[o].bal
  /\ order' = [order EXCEPT ![o].status = "pending"]
  /\ couponUsed' = couponUsed + (IF order[o].coupon THEN 1 ELSE 0)
  /\ wallet' = [wallet EXCEPT ![Owner[o]] = @ - order[o].bal]
  /\ ledger' = [ledger EXCEPT ![o].BALHOLD = @ + order[o].bal]
  /\ UNCHANGED <<asked, payment, credited, chain>>

\* errCouponRaced or errBalanceReserveFailed: everything is rolled back.
RejectDraft(o) ==
  /\ order[o].status = "draft"
  /\ ~CouponFree(o) \/ wallet[Owner[o]] < order[o].bal
  /\ order' = [order EXCEPT ![o] = NoOrder]
  /\ UNCHANGED <<asked, wallet, couponUsed, ledger, payment, credited, chain>>

\* Mutant: the entry is written and the balance is not.
Release_EntryOnly(o) ==
  /\ wallet' = wallet
  /\ ledger' = [ledger EXCEPT ![o].BALREL = @ + order[o].bal]

\* releaseOrderBalance, in the transaction that closes the order.
Release(o) ==
  /\ wallet' = [wallet EXCEPT ![Owner[o]] = @ + order[o].bal]
  /\ ledger' = [ledger EXCEPT ![o].BALREL = @ + order[o].bal]

CancelOrder(o) ==
  /\ order[o].status = "pending"
  /\ order' = [order EXCEPT ![o].status = "cancelled"]
  /\ Release(o)
  /\ UNCHANGED <<asked, couponUsed, payment, credited, chain>>
-----------------------------------------------------------------------------
(* payOrder: the order is read and judged first, the transaction comes     *)
(* later and may find another order than the one it was judged on.         *)

payOrderOnce(o, method) ==
  /\ order[o].addr = None
  /\ order[o].status = "pending"
  /\ ~order[o].overdue
  /\ order[o].due > 0
  /\ method \notin asked[o]
  /\ asked' = [asked EXCEPT ![o] = @ \cup {method}]
  /\ UNCHANGED <<order, wallet, couponUsed, ledger, payment, credited, chain>>

\* Mutant: the status judged before the transaction is not checked again.
payWithBalance_StaleStatus(o) ==
  /\ "balance" \in asked[o]
  /\ wallet[Owner[o]] >= order[o].due
  /\ order' = [order EXCEPT ![o].status = "paid"]
  /\ wallet' = [wallet EXCEPT ![Owner[o]] = @ - order[o].due]
  /\ ledger' = [ledger EXCEPT ![o].PAY = @ + order[o].due]
  /\ UNCHANGED <<asked, couponUsed, payment, credited, chain>>

payWithBalance(o) ==
  /\ "balance" \in asked[o]
  /\ wallet[Owner[o]] >= order[o].due
  /\ order[o].status = "pending"
  /\ order' = [order EXCEPT ![o].status = "paid"]
  /\ wallet' = [wallet EXCEPT ![Owner[o]] = @ - order[o].due]
  /\ ledger' = [ledger EXCEPT ![o].PAY = @ + order[o].due]
  /\ UNCHANGED <<asked, couponUsed, payment, credited, chain>>

\* Mutant: an address is free again once its order is settled.
FreeAddresses_Recycled ==
  {a \in Addresses : \A o \in Orders : order[o].status \in Open => order[o].addr # a}

\* AssignPayAddressToOrder: an address that no order, in any status, has had.
FreeAddresses == {a \in Addresses : \A o \in Orders : order[o].addr # a}

payWithUSDT(o) ==
  /\ "usdt" \in asked[o]
  /\ order[o].status = "pending"
  /\ \E a \in FreeAddresses, rate \in Rates :
       LET quote == quoteUSDT6(order[o].due, rate)
       IN  /\ quote \in Int64
           /\ order' = [order EXCEPT ![o].status = "paying", ![o].addr = a,
                                     ![o].watched = TRUE, ![o].expected = quote,
                                     ![o].fx = rate]
  /\ UNCHANGED <<asked, wallet, couponUsed, ledger, payment, credited, chain>>
-----------------------------------------------------------------------------
(* The payment window, the time an address is watched beyond it, and the   *)
(* order-timeout task, one order of its batch at a time: the rows of a     *)
(* batch do not read one another.                                          *)

PassDeadline(o) ==
  /\ order[o].status \in Open
  /\ ~order[o].overdue
  /\ order' = [order EXCEPT ![o].overdue = TRUE]
  /\ UNCHANGED <<asked, wallet, couponUsed, ledger, payment, credited, chain>>

\* address_watch_until passes: a week after the payment window, or a day after
\* the order expired. While the order is open nothing looks at it.
WatchEnds(o) ==
  /\ order[o].watched
  /\ order[o].status \notin Open
  /\ order' = [order EXCEPT ![o].watched = FALSE]
  /\ UNCHANGED <<asked, wallet, couponUsed, ledger, payment, credited, chain>>

\* ExpireTimedOutOrders: an order that has an address is watched for another
\* day at least.
Expire(o) ==
  order' = [order EXCEPT ![o].status = "expired", ![o].watched = order[o].addr # None]

\* Mutant: any overdue order expires, settled or not.
runOrderTimeout_AnyStatus(o) ==
  /\ IsRow(o)
  /\ order[o].overdue
  /\ Expire(o)
  /\ Release(o)
  /\ UNCHANGED <<asked, couponUsed, payment, credited, chain>>

\* Mutant: an underpaid order is left for a human.
runOrderTimeout_SkipsUnderpaid(o) ==
  /\ order[o].status \in Open \ {"underpaid"}
  /\ order[o].overdue
  /\ Expire(o)
  /\ Release(o)
  /\ UNCHANGED <<asked, couponUsed, payment, credited, chain>>

runOrderTimeout(o) ==
  /\ order[o].status \in Open
  /\ order[o].overdue
  /\ Expire(o)
  /\ Release(o)
  /\ UNCHANGED <<asked, couponUsed, payment, credited, chain>>
-----------------------------------------------------------------------------
(* The chain, and what a report of it may say. A report is fetched before  *)
(* the transaction that books it: one that says "not yet solidified" may   *)
(* be processed after the transfer was solidified, or dropped by a         *)
(* reorganisation. The transfers of one transaction share its fate.        *)

Environment == <<order, asked, wallet, couponUsed, ledger, payment, credited>>

In(tx) == {t \in Transfers : TxOf[t] = tx}

Broadcast(tx) ==
  /\ \A t \in In(tx) : chain[t].st = "absent"
  /\ \E to \in [In(tx) -> Addresses], amt \in [In(tx) -> Amounts] :
       chain' = [t \in Transfers |->
         IF t \in In(tx) THEN [st |-> "confirming", addr |-> to[t], amt |-> amt[t]]
                        ELSE chain[t]]
  /\ UNCHANGED Environment

Finalise(tx, st) ==
  /\ \A t \in In(tx) : chain[t].st = "confirming"
  /\ chain' = [t \in Transfers |->
       IF t \in In(tx) THEN [chain[t] EXCEPT !.st = st] ELSE chain[t]]
  /\ UNCHANGED Environment

\* Mutant: a transfer in a block counts as solidified.
Reported_InBlock(t, solid) == chain[t].st # "absent"

Reported(t, solid) ==
  /\ chain[t].st # "absent"
  /\ solid => chain[t].st = "solidified"
-----------------------------------------------------------------------------
(* processDeposit: the webhook, the user's recheck and the chain scan all  *)
(* end here, and the same report may arrive any number of times.           *)

\* SumAddressReceipts over the payments rows as they stand.
SumReceipts(rows, a, state) ==
  LET hits == {t \in Transfers : rows[t].addr = a /\ rows[t].state = state}
  IN  SumFunctionOnSet([t \in Transfers |-> rows[t].amt], hits)

\* orders_gateway_ref_uk: no other order carries this transaction id.
RefFree(o, tx) == \A p \in Orders \ {o} : order[p].ref # tx

\* The writes every settlement ends with. rec and led are the order and its
\* entries so far, short what is written off (or recovered, if negative),
\* and units what goes to the wallet, at whatever rate is configured now.
Post(o, t, rec, led, short, units) ==
  \E rate \in Rates :
    LET cents == usdt6ToCents(units, rate)
    IN  /\ order' = [order EXCEPT ![o] = rec]
        /\ ledger' = [ledger EXCEPT ![o] =
             [led EXCEPT !.shortfall = @ + short, !.BAL = @ + cents]]
        /\ wallet' = [wallet EXCEPT ![Owner[o]] = @ + cents]
        /\ credited' = [credited EXCEPT ![t] = @ + IF cents > 0 THEN units ELSE 0]

\* Mutant: money on its way counts as received.
SettleOpen_TrustsPending(o, t, rec, led, shortfall, pendingShortfall) ==
  /\ rec.status \in Payable
  /\ \/ /\ pendingShortfall <= Writeoff
        /\ RefFree(o, TxOf[t])
        /\ Post(o, t,
                [rec EXCEPT !.status = "paid", !.paid = @ + rec.due, !.ref = TxOf[t]],
                led, Pos(pendingShortfall),
                IF -pendingShortfall > OverpayIgnore THEN -pendingShortfall ELSE 0)
     \/ /\ pendingShortfall > Writeoff
        /\ Post(o, t, [rec EXCEPT !.status = "underpaid"], led, 0, 0)

\* settleDeposit, the order still open: tier A pays it, tiers B and C make
\* it underpaid, and money on its way holds the verdict back.
SettleOpen(o, t, rec, led, shortfall, pendingShortfall) ==
  /\ rec.status \in Payable
  /\ \/ /\ shortfall <= Writeoff
        /\ RefFree(o, TxOf[t])
        /\ Post(o, t,
                [rec EXCEPT !.status = "paid", !.paid = @ + rec.due, !.ref = TxOf[t]],
                led, Pos(shortfall),
                IF -shortfall > OverpayIgnore THEN -shortfall ELSE 0)
     \/ /\ shortfall > Writeoff
        /\ pendingShortfall <= Writeoff
        /\ Post(o, t, rec, led, 0, 0)
     \/ /\ pendingShortfall > Writeoff
        /\ Post(o, t, [rec EXCEPT !.status = "underpaid"], led, 0, 0)

\* settleDeposit, the order closed: the transfer goes to the wallet, once it
\* is solidified.
SettleClosed(o, t, solid, rec, led) ==
  /\ rec.status \in Closed
  /\ Post(o, t, rec, led, 0, IF solid THEN chain[t].amt ELSE 0)

\* Mutant: what comes after the order is paid is only booked.
SettlePaid_KeepsExcess(o, t, solid, rec, led, shortfall) ==
  /\ rec.status = "paid"
  /\ Post(o, t, rec, led, 0, 0)

\* settleDeposit, the order already paid: recover the write-off first, then
\* hand back what exceeds the amount due.
SettlePaid(o, t, solid, rec, led, shortfall) ==
  LET recovered == Least(chain[t].amt, Pos(led.shortfall))
      credit == Least(chain[t].amt - recovered, Pos(-shortfall))
  IN  /\ rec.status = "paid"
      /\ IF solid THEN Post(o, t, rec, led, -recovered, credit)
                  ELSE Post(o, t, rec, led, 0, 0)

Settle(o, t, solid, rows, rec, led) ==
  LET received == SumReceipts(rows, chain[t].addr, "paid")
      confirming == SumReceipts(rows, chain[t].addr, "confirming")
      shortfall == rec.expected - received
  IN  /\ received \in Int64 /\ confirming \in Int64
      /\ \/ SettleOpen(o, t, rec, led, shortfall, shortfall - confirming)
         \/ SettleClosed(o, t, solid, rec, led)
         \/ SettlePaid(o, t, solid, rec, led, shortfall)

\* The first report of a transfer whose address an order has.
IngestDeposit(t, solid) ==
  /\ Reported(t, solid)
  /\ payment[t].state = "none"
  /\ \E o \in Orders :
       LET rows == [payment EXCEPT ![t] =
             [state |-> IF solid THEN "paid" ELSE "confirming", by |-> "scanner",
              addr |-> chain[t].addr, amt |-> chain[t].amt, order |-> o]]
           rec == [order[o] EXCEPT !.ref = IF @ = None THEN TxOf[t] ELSE @]
           cents == usdt6ToCents(chain[t].amt, order[o].fx)
       IN  /\ order[o].addr = chain[t].addr
           /\ RefFree(o, rec.ref)
           /\ payment' = rows
           /\ Settle(o, t, solid, rows, rec, [ledger[o] EXCEPT !.RCV = @ + cents])
  /\ UNCHANGED <<asked, couponUsed, chain>>

\* The first report of a transfer to an address of ours that no order has:
\* the money is recorded for a human to look at.
QuarantineDeposit(t, solid) ==
  /\ Reported(t, solid)
  /\ payment[t].state = "none"
  /\ chain[t].addr \in FreeAddresses
  /\ payment' = [payment EXCEPT ![t] =
       [state |-> IF solid THEN "paid" ELSE "confirming", by |-> "scanner",
        addr |-> chain[t].addr, amt |-> chain[t].amt, order |-> None]]
  /\ UNCHANGED <<order, asked, wallet, couponUsed, ledger, credited, chain>>

\* Mutant: only an open order is settled again.
promoteSolidifiedDeposit_OpenOnly(t) ==
  /\ Reported(t, TRUE)
  /\ payment[t].state = "confirming"
  /\ payment' = [payment EXCEPT ![t].state = "paid"]
  /\ \E o \in Orders :
       /\ order[o].addr = chain[t].addr /\ order[o].status \in Open
       /\ Settle(o, t, TRUE, [payment EXCEPT ![t].state = "paid"], order[o], ledger[o])
  /\ UNCHANGED <<asked, couponUsed, chain>>

\* A later report that the transfer is solidified: the row is promoted and
\* the order that has the address by now is settled again.
promoteSolidifiedDeposit(t) ==
  /\ Reported(t, TRUE)
  /\ payment[t].state = "confirming"
  /\ payment' = [payment EXCEPT ![t].state = "paid"]
  /\ \/ /\ chain[t].addr \in FreeAddresses
        /\ UNCHANGED <<order, wallet, ledger, credited>>
     \/ \E o \in Orders :
          /\ order[o].addr = chain[t].addr
          /\ Settle(o, t, TRUE, [payment EXCEPT ![t].state = "paid"],
                    order[o], ledger[o])
  /\ UNCHANGED <<asked, couponUsed, chain>>

\* A report of a transfer an admin entered by hand: only the row is marked.
AppendScanner(t, solid) ==
  /\ Reported(t, solid)
  /\ ~(solid /\ payment[t].state = "confirming")
  /\ payment[t].by = "admin"
  /\ payment' = [payment EXCEPT ![t].by = "admin+scanner"]
  /\ UNCHANGED <<order, asked, wallet, couponUsed, ledger, credited, chain>>

processDeposit(t, solid) ==
  \/ IngestDeposit(t, solid)
  \/ QuarantineDeposit(t, solid)
  \/ solid /\ promoteSolidifiedDeposit(t)
  \/ AppendScanner(t, solid)
-----------------------------------------------------------------------------
(* The console: D6 books the expected amount of an order as received, on   *)
(* the word of an admin, under the external_id of the transfer the admin   *)
(* names; D13 overwrites the state of a payments row.                      *)

adminMarkOrderPaid(o, t) ==
  LET cents == usdt6ToCents(order[o].expected, order[o].fx)
  IN  /\ order[o].status \in Payable
      /\ cents > 0
      /\ payment[t].state = "none"
      /\ RefFree(o, TxOf[t])
      /\ payment' = [payment EXCEPT ![t] =
           [state |-> "paid", by |-> "admin", addr |-> order[o].addr,
            amt |-> order[o].expected, order |-> o]]
      /\ order' = [order EXCEPT ![o].status = "paid", ![o].paid = @ + cents,
                                ![o].ref = TxOf[t]]
      /\ ledger' = [ledger EXCEPT ![o].D6 = @ + cents]
      /\ UNCHANGED <<asked, wallet, couponUsed, credited, chain>>

adminUpdatePayment(t, state) ==
  /\ payment[t].state # "none"
  /\ payment' = [payment EXCEPT ![t].state = state]
  /\ UNCHANGED <<order, asked, wallet, couponUsed, ledger, credited, chain>>
-----------------------------------------------------------------------------
CreateOrder(o) == BuildDraft(o) \/ WriteOrder(o) \/ RejectDraft(o)

PayOrder(o) ==
  \/ \E method \in {"balance", "usdt"} : payOrderOnce(o, method)
  \/ payWithBalance(o)
  \/ payWithUSDT(o)

Timeout(o) == PassDeadline(o) \/ WatchEnds(o) \/ runOrderTimeout(o)

Chain(tx) == Broadcast(tx) \/ Finalise(tx, "solidified") \/ Finalise(tx, "orphaned")

Next ==
  \/ \E o \in Orders : CreateOrder(o) \/ CancelOrder(o) \/ PayOrder(o) \/ Timeout(o)
  \/ \E tx \in Txids : Chain(tx)
  \/ \E t \in Transfers, solid \in BOOLEAN : processDeposit(t, solid)
  \/ \E o \in Orders, t \in Transfers : adminMarkOrderPaid(o, t)

Spec == Init /\ [][Next]_vars

\* The addresses chain-scan asks for: those of open orders, and of others
\* while they are watched.
ListScannableChainAddresses ==
  {a \in Addresses : \E o \in Orders :
     order[o].addr = a /\ (order[o].status \in Open \/ order[o].watched)}

Scanned(t) == chain[t].addr \in ListScannableChainAddresses \ Frozen

\* What Cloud Scheduler keeps doing, whatever the users do: order-timeout
\* every minute, and the scan of the addresses that are listed and not
\* frozen. Rechecks and webhooks owe nothing.
Fairness ==
  /\ \A o \in Orders : WF_vars(runOrderTimeout(o))
  /\ \A t \in Transfers : WF_vars(Scanned(t) /\ processDeposit(t, TRUE))

FairSpec == Spec /\ Fairness

\* With the console's D13, which writes a payments row and nothing else.
EditNext ==
  \/ Next
  \/ \E t \in Transfers, state \in PaymentStates \ {"none"} : adminUpdatePayment(t, state)
EditSpec == Init /\ [][EditNext]_vars
-----------------------------------------------------------------------------
(* Properties.                                                             *)

\* Every variable keeps its type; amounts never go below zero.
TypeOK ==
  /\ order \in [Orders -> OrderType]
  /\ asked \in [Orders -> SUBSET {"balance", "usdt"}]
  /\ wallet \in [Users -> Nat]
  /\ couponUsed \in Nat
  /\ ledger \in [Orders -> LedgerType]
  /\ payment \in [Transfers -> PaymentType]
  /\ credited \in [Transfers -> Nat]
  /\ chain \in [Transfers -> ChainType]

\* The balance an order was created with leaves the wallet once, comes back
\* once if the order is cancelled or expires, and never otherwise; a balance
\* payment is booked once, and only for an order it paid. This is what the
\* conditional UPDATEs of cancelOrder, payOrder and order-timeout protect
\* when they race one another.
HoldSettledOnce ==
  \A o \in Orders :
    /\ ledger[o].BALHOLD = IF IsRow(o) THEN order[o].bal ELSE 0
    /\ ledger[o].BALREL = IF order[o].status \in Closed THEN order[o].bal ELSE 0
    /\ ledger[o].PAY = IF order[o].status = "paid" /\ order[o].addr = None
                       THEN order[o].due ELSE 0

\* What an order's entries say it moved in its owner's wallet.
Moved ==
  [o \in Orders |->
     ledger[o].BALREL - ledger[o].BALHOLD - ledger[o].PAY + ledger[o].BAL]

\* ReconcileWalletBalances finds nothing: each cached balance is what the
\* entries add up to (user_wallet_balance).
WalletReconciles ==
  \A u \in Users :
    wallet[u] = Opening[u] + SumFunctionOnSet(Moved, {o \in Orders : Owner[o] = u})

\* However many requests drafted an order with the coupon while it was still
\* free, at most CouponTotal orders are written with it.
CouponNotOversold ==
  Cardinality({o \in Orders : IsRow(o) /\ order[o].coupon}) <= CouponTotal

\* An address names one order, in whatever status the order is: a transfer
\* is never attributed to an order that did not ask for it.
AddressNamesOneOrder ==
  \A o, p \in Orders : order[o].addr = order[p].addr /\ order[o].addr # None => o = p

\* An order keeps its address for ever, so that money which arrives after
\* the order is closed still finds its owner.
AddressKept ==
  [][\A o \in Orders : order[o].addr # None => order'[o].addr = order[o].addr]_vars

\* The rows an admin entered, on the admin's word.
Vouched == {"admin", "admin+scanner"}

\* What really reached an address: solidified transfers, and what an admin
\* vouched for.
RealReceipts(a) ==
  SumFunctionOnSet([t \in Transfers |-> chain[t].amt],
    {t \in Transfers : chain[t].st = "solidified" /\ chain[t].addr = a
                       /\ payment[t].by \in {"none", "scanner"}})
  + SumFunctionOnSet([t \in Transfers |-> payment[t].amt],
    {t \in Transfers : payment[t].addr = a /\ payment[t].by \in Vouched})

CreditedAt(a) ==
  SumFunctionOnSet(credited, {t \in Transfers : payment[t].addr = a})

\* What the order itself consumes of the money at its address.
KeptBy(o) ==
  IF order[o].status = "paid" THEN order[o].expected - ledger[o].shortfall ELSE 0

\* No unit is spent twice, and none that a reorganisation can take away is
\* spent at all: what a chain-paid order consumed and what wallets were
\* credited never exceed what really reached its address, and the write-off
\* stays within its limit.
NoUnitSpentTwice ==
  \A o \in Orders : order[o].addr # None =>
    /\ KeptBy(o) + CreditedAt(order[o].addr) <= RealReceipts(order[o].addr)
    /\ ledger[o].shortfall \in 0 .. Writeoff

\* The amounts from which on every amount, up to a limit, is worth a cent at
\* any rate.
Worthwhile(limit) ==
  {n \in 1 .. Int64Max : \A m \in n .. limit, rate \in Rates : usdt6ToCents(m, rate) > 0}

Booked(a) == {t \in Transfers : payment[t].addr = a /\ payment[t].state = "paid"}

\* Nothing beyond what a paid order consumed stays unclaimed at its address,
\* up to one overpayment that is ignored and, for every receipt, what is not
\* worth a cent. Money an admin vouched for (D6) is left to a human and
\* excepted.
OverpayReturned ==
  \A o \in Orders :
    /\ order[o].status = "paid" /\ order[o].addr # None
    /\ \A t \in Transfers : payment[t].addr = order[o].addr => payment[t].by = "scanner"
    => LET received == SumReceipts(payment, order[o].addr, "paid")
           unclaimed == received - KeptBy(o) - CreditedAt(order[o].addr)
       IN  \A n \in Worthwhile(received) :
             unclaimed <= OverpayIgnore + Cardinality(Booked(order[o].addr)) * (n - 1)

\* No order stays open past its payment window: order-timeout closes it
\* unless a deposit or an admin settles it first.
OverdueOrderSettles ==
  \A o \in Orders :
    order[o].overdue /\ order[o].status \in Open ~> order[o].status \notin Open

\* The transaction of this transfer is already the reference of another order
\* than the one that has its address.
ReferenceTaken(t) ==
  \E o, p \in Orders : o # p /\ order[o].addr = chain[t].addr /\ order[p].ref = TxOf[t]

\* Money that is final on the chain ends up booked as received, whatever
\* the order did in the meantime: it may expire, or be settled by another
\* transfer or by an admin. What is excepted is money at an address that is
\* frozen, has no order, or is watched no longer, and a transaction that
\* another order has as its reference.
SolidMoneyBooked ==
  \A t \in Transfers :
    chain[t].st = "solidified"
      ~> payment[t].state = "paid" \/ ~Scanned(t) \/ ReferenceTaken(t)
-----------------------------------------------------------------------------
(* The inductive invariant the proofs rest on (PaymentsProofs).            *)

\* An order has its address from the moment it awaits money on the chain,
\* and not before.
AddressByStatus ==
  \A o \in Orders :
    /\ order[o].status \in {"none", "draft", "pending"} => order[o].addr = None
    /\ order[o].status \in Payable => order[o].addr # None

TransferAddressed ==
  \A t \in Transfers : chain[t].st # "absent" => chain[t].addr # None

IInv ==
  /\ TypeOK
  /\ AddressByStatus
  /\ TransferAddressed
  /\ HoldSettledOnce
  /\ AddressNamesOneOrder

\* A row says what the chain says, or what an admin vouched for, and nothing
\* is credited in the name of a transfer that has no row.
RowsFit ==
  \A t \in Transfers :
    /\ payment[t].state = "none" =>
         payment[t].addr = None /\ payment[t].by = "none" /\ credited[t] = 0
    /\ payment[t].state # "none" =>
         payment[t].addr # None /\ payment[t].by # "none"
    /\ payment[t].state \in {"none", "confirming", "paid"}
    /\ payment[t].by = "scanner" =>
         /\ chain[t].st # "absent"
         /\ payment[t].addr = chain[t].addr /\ payment[t].amt = chain[t].amt
         /\ payment[t].state = "paid" => chain[t].st = "solidified"
    /\ payment[t].by \in Vouched => payment[t].state = "paid"

\* Nothing is written off or credited before an order is settled.
NothingEarly ==
  /\ \A o \in Orders :
       order[o].addr = None \/ order[o].status \in Payable => ledger[o].shortfall = 0
  /\ \A a \in Addresses :
       (\A o \in Orders : order[o].addr = a => order[o].status \in Payable) => CreditedAt(a) = 0

\* What an order consumed and what was credited is covered by what is booked
\* as received.
Covered ==
  \A o \in Orders : order[o].addr # None =>
    /\ KeptBy(o) + CreditedAt(order[o].addr) <= SumReceipts(payment, order[o].addr, "paid")
    /\ ledger[o].shortfall \in 0 .. Writeoff

MoneyInv == RowsFit /\ NothingEarly /\ Covered /\ OverpayReturned
-----------------------------------------------------------------------------
(* The abstract promise: Escrow, with each order's status read as a phase  *)
(* and what it holds read from the ledger.                                 *)

Phase(status) ==
  CASE status \in {"none", "draft"} -> "none"
    [] status \in Open -> "open"
    [] status \in Closed -> "returned"
    [] status = "paid" -> "kept"

Held(led) == led.BALHOLD - led.BALREL + led.PAY

phase == [o \in Orders |-> Phase(order[o].status)]
held == [o \in Orders |-> Held(ledger[o])]

Abstract == INSTANCE Escrow WITH Credits <- 0 .. Int64Max

\* The handlers keep Escrow's promise: wallets move only as it says, held
\* balances come back whole and once, and a closed or paid order stays so.
KeepsEscrow == Abstract!Spec

(* The other promise: Inbox, with the columns of a payments row that say   *)
(* whether its transfer was received, and on whose word.                   *)

fate == [t \in Transfers |-> chain[t].st]
said ==
  [t \in Transfers |-> IF payment[t].by \in Vouched THEN "vouched" ELSE payment[t].state]

Bookings == INSTANCE Inbox WITH row <- said

\* processDeposit and D6 keep Inbox's promise: a report that is late, or that
\* a reorganisation made false, never books a transfer as received nor takes
\* back a booking.
KeepsInbox == Bookings!Spec
-----------------------------------------------------------------------------
(* What comments and documents of the repository say of the program, and   *)
(* the code does not do.                                                   *)

\* "The money that arrives in the meantime is credited to the balance": all
\* the solidified money booked for an expired order is in the wallet.
ExpiredMoneyReturned ==
  \A o \in Orders :
    order[o].status = "expired" =>
      \A t \in Transfers : payment[t].order = o /\ payment[t].state = "paid"
                           => credited[t] > 0

\* The unique index on gateway_ref is "harmless": it keeps no money out that
\* the scan still finds.
ReferenceIndexHarmless ==
  \A t \in Transfers :
    chain[t].st = "solidified" ~> payment[t].state = "paid" \/ ~Scanned(t)

\* uses_per_user: a user holds at most that many live orders with the coupon.
CouponPerUser == \A u \in Users : UserCouponUses(u) <= UsesPerUser

\* A revisit of a booked transfer does not settle it a second time.
TransferCreditedOnce ==
  \A t \in Transfers : credited[t] <= chain[t].amt
=============================================================================
