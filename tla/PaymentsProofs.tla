--------------------------- MODULE PaymentsProofs ---------------------------
(***************************************************************************)
(* Theorems about Payments, for every value of its constants: the types,   *)
(* the hold of an order, its address, the coupons; then, on that           *)
(* invariant, that wallets reconcile with the ledger, that the money of    *)
(* every address is in balance, that Payments implements Escrow and Inbox, *)
(* and what of this edits by hand leave alone.                             *)
(***************************************************************************)
EXTENDS Payments, Sums, TLAPS

USE MoneyAssumption, PaymentsAssumption

-----------------------------------------------------------------------------
(* Arithmetic.                                                             *)

\* A quotient of a natural number by a positive one is a natural number.
LEMMA DivNat ==
  ASSUME NEW a \in Nat, NEW b \in Nat \ {0}
  PROVE  a \div b \in Nat
OBVIOUS

\* A product of naturals is one.
LEMMA TimesNat ==
  ASSUME NEW a \in Nat, NEW b \in Nat
  PROVE  a * b \in Nat
OBVIOUS

\* So is a quotient that is rounded up,
LEMMA CeilNat ==
  ASSUME NEW a \in Nat, NEW b \in Nat \ {0}
  PROVE  ceilDivBig(a, b) \in Nat
<1>1. a + b - 1 \in Nat
  OBVIOUS
<1> QED
  BY <1>1, DivNat DEF ceilDivBig

\* A quote is never negative.
LEMMA QuoteNat ==
  ASSUME NEW due \in Nat, NEW rate \in Rates
  PROVE  quoteUSDT6(due, rate) \in Nat
<1>1. rate \in Nat \ {0}
  OBVIOUS
<1>2. due * CentScale * (BpsBase + FxBuffer) \in Nat
  BY TimesNat
<1>3. rate * BpsBase \in Nat \ {0}
  BY <1>1, TimesNat
<1>4. ceilDivBig(due * CentScale * (BpsBase + FxBuffer), rate * BpsBase) \in Nat
  BY <1>2, <1>3, CeilNat
<1> QED
  BY <1>4, CeilNat, TimesNat DEF quoteUSDT6

\* What a wallet is credited is a natural number that fits its column.
LEMMA CentsNat ==
  ASSUME NEW units \in Int, NEW rate \in Nat
  PROVE  usdt6ToCents(units, rate) \in 0 .. Int64Max
<1>1. CASE units <= 0 \/ rate <= 0
  BY <1>1 DEF usdt6ToCents
<1>2. CASE ~(units <= 0 \/ rate <= 0)
  <2>1. units * rate \in Nat
    BY <1>2, TimesNat
  <2>2. (units * rate) \div CentScale \in Nat
    BY <2>1, DivNat
  <2> QED
    BY <1>2, <2>2 DEF usdt6ToCents
<1> QED
  BY <1>1, <1>2

\* and what some units of a transfer are worth.
LEMMA CentsInNat ==
  ASSUME NEW units \in Int, NEW rate \in Nat
  PROVE  usdt6ToCents(units, rate) \in Nat
BY CentsNat
-----------------------------------------------------------------------------
(* Every way money reaches an order, whether a report or an admin brings   *)
(* it, moves the database alike: one order row, its entries, and a wallet  *)
(* that may only grow.                                                     *)

\* The order keeps what identifies it, and can only go from being payable
\* to paid or underpaid.
SameOrder(old, new) ==
  /\ new.due = old.due /\ new.bal = old.bal
  /\ new.coupon = old.coupon /\ new.addr = old.addr
  /\ \/ new.status = old.status
     \/ old.status \in Payable /\ new.status \in {"paid", "underpaid"}

\* The entries of the wallet side stay as they are.
SameHolds(old, new) ==
  new.BALHOLD = old.BALHOLD /\ new.BALREL = old.BALREL /\ new.PAY = old.PAY

Booking(o) ==
  \E rec \in OrderType, led \in LedgerType, n \in 0 .. Int64Max :
    /\ SameOrder(order[o], rec) /\ SameHolds(ledger[o], led)
    /\ order[o].addr # None
    /\ led.BAL = ledger[o].BAL + n
    /\ order' = [order EXCEPT ![o] = rec]
    /\ ledger' = [ledger EXCEPT ![o] = led]
    /\ wallet' = [wallet EXCEPT ![Owner[o]] = @ + n]

\* Post writes the record it is given and credits a natural number.
LEMMA PostBooks ==
  ASSUME TypeOK,
         NEW o \in Orders, NEW t \in Transfers,
         NEW rec \in OrderType, NEW led \in LedgerType,
         NEW short \in Int, NEW units \in Int,
         order[o].addr # None,
         SameOrder(order[o], rec), SameHolds(ledger[o], led),
         led.BAL = ledger[o].BAL,
         Post(o, t, rec, led, short, units)
  PROVE  Booking(o) /\ credited' \in [Transfers -> Nat]
<1>1. PICK rate \in Rates :
        LET cents == usdt6ToCents(units, rate)
        IN  /\ order' = [order EXCEPT ![o] = rec]
            /\ ledger' = [ledger EXCEPT ![o] =
                 [led EXCEPT !.shortfall = @ + short, !.BAL = @ + cents]]
            /\ wallet' = [wallet EXCEPT ![Owner[o]] = @ + cents]
            /\ credited' = [credited EXCEPT ![t] = @ + IF cents > 0 THEN units ELSE 0]
  BY DEF Post
<1> DEFINE cents == usdt6ToCents(units, rate)
           led2 == [led EXCEPT !.shortfall = @ + short, !.BAL = @ + cents]
<1>2. cents \in 0 .. Int64Max /\ cents \in Nat
  BY CentsNat
<1>3. cents > 0 => units \in Nat
  BY DEF usdt6ToCents
<1>4. led2 \in LedgerType /\ SameHolds(ledger[o], led2)
      /\ led2.BAL = ledger[o].BAL + cents
  <2>1. led.shortfall + short \in Int /\ led.BAL + cents \in Nat
    BY <1>2 DEF LedgerType
  <2> HIDE DEF cents
  <2> QED
    BY <2>1 DEF LedgerType, SameHolds
<1>5. credited' \in [Transfers -> Nat]
  BY <1>1, <1>2, <1>3 DEF TypeOK
<1>6. Booking(o)
  BY <1>1, <1>2, <1>4 DEF Booking
<1> QED
  BY <1>5, <1>6

\* Whatever settleDeposit decides, it decides it through Post.
LEMMA SettleBooks ==
  ASSUME TypeOK,
         NEW o \in Orders, NEW t \in Transfers, NEW solid \in BOOLEAN, NEW rows,
         NEW rec \in OrderType, NEW led \in LedgerType,
         order[o].addr # None,
         rec.status = order[o].status, SameOrder(order[o], rec),
         SameHolds(ledger[o], led), led.BAL = ledger[o].BAL,
         Settle(o, t, solid, rows, rec, led)
  PROVE  Booking(o) /\ credited' \in [Transfers -> Nat]
<1> DEFINE received == SumReceipts(rows, chain[t].addr, "paid")
           confirming == SumReceipts(rows, chain[t].addr, "confirming")
           shortfall == rec.expected - received
<1>1. received \in Int /\ confirming \in Int
  BY DEF Settle, Int64
<1>2. rec.expected \in Nat /\ rec.due \in Nat /\ rec.paid \in Nat
  BY DEF OrderType
<1>3. shortfall \in Int /\ Pos(shortfall) \in Int /\ Pos(-shortfall) \in Int
  BY <1>1, <1>2 DEF Pos
<1>4. chain[t].amt \in Nat /\ TxOf[t] \in Txids
  BY DEF TypeOK, ChainType, Txids
<1>5. CASE SettleOpen(o, t, rec, led, shortfall, shortfall - confirming)
  <2> DEFINE excess == IF -shortfall > OverpayIgnore THEN -shortfall ELSE 0
             full == [rec EXCEPT !.status = "paid", !.paid = @ + rec.due, !.ref = TxOf[t]]
             under == [rec EXCEPT !.status = "underpaid"]
  <2>1. excess \in Int
    BY <1>3
  <2>2. full \in OrderType /\ under \in OrderType
    <3>1. "paid" \in Statuses /\ "underpaid" \in Statuses
      BY DEF Statuses, Open
    <3>2. rec.paid + rec.due \in Nat
      BY <1>2
    <3> QED
      BY <3>1, <3>2, <1>4 DEF OrderType
  <2>3. rec.status \in Payable
    BY <1>5 DEF SettleOpen
  <2>4. SameOrder(order[o], full) /\ SameOrder(order[o], under)
    BY <2>3 DEF SameOrder, OrderType
  <2>5. \/ Post(o, t, full, led, Pos(shortfall), excess)
        \/ Post(o, t, rec, led, 0, 0)
        \/ Post(o, t, under, led, 0, 0)
    BY <1>5 DEF SettleOpen
  <2> HIDE DEF excess, full, under
  <2>6. CASE Post(o, t, full, led, Pos(shortfall), excess)
    BY <2>6, <1>3, <2>1, <2>2, <2>4, PostBooks
  <2>7. CASE Post(o, t, rec, led, 0, 0)
    BY <2>7, PostBooks
  <2>8. CASE Post(o, t, under, led, 0, 0)
    BY <2>8, <2>2, <2>4, PostBooks
  <2> QED
    BY <2>5, <2>6, <2>7, <2>8
<1>6. CASE SettleClosed(o, t, solid, rec, led)
  <2>1. Post(o, t, rec, led, 0, IF solid THEN chain[t].amt ELSE 0)
    BY <1>6 DEF SettleClosed
  <2> QED
    BY <2>1, <1>4, PostBooks
<1>7. CASE SettlePaid(o, t, solid, rec, led, shortfall)
  <2> DEFINE recovered == Least(chain[t].amt, Pos(led.shortfall))
             credit == Least(chain[t].amt - recovered, Pos(-shortfall))
  <2>1. recovered \in Int /\ -recovered \in Int
    BY <1>4 DEF Least, Pos, LedgerType
  <2>2. credit \in Int
    BY <2>1, <1>3, <1>4 DEF Least
  <2>3. \/ Post(o, t, rec, led, -recovered, credit)
        \/ Post(o, t, rec, led, 0, 0)
    BY <1>7 DEF SettlePaid
  <2> QED
    BY <2>1, <2>2, <2>3, PostBooks
<1> QED
  BY <1>5, <1>6, <1>7 DEF Settle
-----------------------------------------------------------------------------
(* The deposit path and D6 as Bookings.                                    *)

\* What the steps that bring money have in common: a Booking of some order
\* or nothing in the order and wallet tables, and well-typed rows.
Brought ==
  /\ (\E o \in Orders : Booking(o)) \/ UNCHANGED <<order, ledger, wallet>>
  /\ credited' \in [Transfers -> Nat]
  /\ payment' \in [Transfers -> PaymentType]
  /\ UNCHANGED <<asked, couponUsed, chain>>

\* The payments row a first report inserts is well typed.
LEMMA NewRowType ==
  ASSUME TypeOK, NEW t \in Transfers, NEW solid \in BOOLEAN,
         NEW o \in Orders \cup {None}
  PROVE  [payment EXCEPT ![t] =
            [state |-> IF solid THEN "paid" ELSE "confirming", by |-> "scanner",
             addr |-> chain[t].addr, amt |-> chain[t].amt, order |-> o]]
           \in [Transfers -> PaymentType]
<1>1. chain[t].addr \in Addresses \cup {None} /\ chain[t].amt \in Nat
  BY DEF TypeOK, ChainType
<1> QED
  BY <1>1 DEF TypeOK, PaymentType, PaymentStates

\* A deposit that finds its order books it or leaves it (IngestDeposit).
LEMMA IngestBooks ==
  ASSUME TypeOK, TransferAddressed, NEW t \in Transfers, NEW solid \in BOOLEAN,
         IngestDeposit(t, solid)
  PROVE  Brought
<1> DEFINE row(o) == [state |-> IF solid THEN "paid" ELSE "confirming", by |-> "scanner",
                      addr |-> chain[t].addr, amt |-> chain[t].amt, order |-> o]
           rows(o) == [payment EXCEPT ![t] = row(o)]
           rec(o) == [order[o] EXCEPT !.ref = IF @ = None THEN TxOf[t] ELSE @]
           cents(o) == usdt6ToCents(chain[t].amt, order[o].fx)
           led(o) == [ledger[o] EXCEPT !.RCV = @ + cents(o)]
<1>1. PICK o \in Orders : /\ order[o].addr = chain[t].addr
                          /\ payment' = rows(o)
                          /\ Settle(o, t, solid, rows(o), rec(o), led(o))
  BY DEF IngestDeposit
<1>2. order[o].addr # None
  BY <1>1 DEF IngestDeposit, Reported, TransferAddressed
<1>3. order[o] \in OrderType /\ ledger[o] \in LedgerType /\ TxOf[t] \in Txids
  BY DEF TypeOK, Txids
<1>4. /\ rec(o) \in OrderType
      /\ rec(o).status = order[o].status
      /\ SameOrder(order[o], rec(o))
  BY <1>3 DEF OrderType, SameOrder
<1>5. cents(o) \in Nat
  <2>1. chain[t].amt \in Int /\ order[o].fx \in Nat
    BY <1>3 DEF TypeOK, ChainType, OrderType
  <2> QED
    BY <2>1, CentsInNat
<1>6. led(o) \in LedgerType /\ SameHolds(ledger[o], led(o))
      /\ led(o).BAL = ledger[o].BAL
  <2>1. ledger[o].RCV + cents(o) \in Nat
    BY <1>3, <1>5 DEF LedgerType
  <2> HIDE DEF cents
  <2> QED
    BY <1>3, <2>1 DEF LedgerType, SameHolds
<1>7. payment' \in [Transfers -> PaymentType]
  BY <1>1, NewRowType
<1> HIDE DEF rows, rec, led
<1>8. Booking(o) /\ credited' \in [Transfers -> Nat]
  BY <1>1, <1>2, <1>4, <1>6, SettleBooks
<1> QED
  BY <1>7, <1>8 DEF Brought, IngestDeposit

\* So does one that has become final (promoteSolidifiedDeposit),
LEMMA PromoteBooks ==
  ASSUME TypeOK, TransferAddressed, NEW t \in Transfers,
         promoteSolidifiedDeposit(t)
  PROVE  Brought
<1> DEFINE rows == [payment EXCEPT ![t].state = "paid"]
<1>1. payment' = rows /\ rows \in [Transfers -> PaymentType]
  <2>1. payment \in [Transfers -> PaymentType]
    BY DEF TypeOK
  <2>2. [payment[t] EXCEPT !.state = "paid"] \in PaymentType
    BY <2>1 DEF PaymentType, PaymentStates
  <2> QED
    BY <2>1, <2>2 DEF promoteSolidifiedDeposit
<1>2. CASE UNCHANGED <<order, wallet, ledger, credited>>
  BY <1>1, <1>2 DEF Brought, promoteSolidifiedDeposit, TypeOK
<1>3. CASE \E o \in Orders : /\ order[o].addr = chain[t].addr
                             /\ Settle(o, t, TRUE, rows, order[o], ledger[o])
  <2>1. PICK o \in Orders : /\ order[o].addr = chain[t].addr
                            /\ Settle(o, t, TRUE, rows, order[o], ledger[o])
    BY <1>3
  <2>2. order[o].addr # None
    BY <2>1 DEF promoteSolidifiedDeposit, Reported, TransferAddressed
  <2>3. order[o] \in OrderType /\ ledger[o] \in LedgerType
    BY DEF TypeOK
  <2>4. SameOrder(order[o], order[o]) /\ SameHolds(ledger[o], ledger[o])
    BY DEF SameOrder, SameHolds
  <2> HIDE DEF rows
  <2>5. Booking(o) /\ credited' \in [Transfers -> Nat]
    BY <2>1, <2>2, <2>3, <2>4, SettleBooks
  <2> QED
    BY <1>1, <2>5 DEF Brought, promoteSolidifiedDeposit
<1> QED
  BY <1>2, <1>3 DEF promoteSolidifiedDeposit

\* whichever way a transfer comes in (processDeposit),
LEMMA DepositBooks ==
  ASSUME TypeOK, TransferAddressed, NEW t \in Transfers, NEW solid \in BOOLEAN,
         processDeposit(t, solid)
  PROVE  Brought
<1>1. CASE QuarantineDeposit(t, solid)
  <2>1. payment' \in [Transfers -> PaymentType]
    BY <1>1, NewRowType DEF QuarantineDeposit
  <2> QED
    BY <1>1, <2>1 DEF QuarantineDeposit, Brought, TypeOK
<1>2. CASE AppendScanner(t, solid)
  <2>1. [payment[t] EXCEPT !.by = "admin+scanner"] \in PaymentType
    BY DEF TypeOK, PaymentType
  <2>2. payment' \in [Transfers -> PaymentType]
    BY <1>2, <2>1 DEF AppendScanner, TypeOK
  <2> QED
    BY <1>2, <2>2 DEF AppendScanner, Brought, TypeOK
<1> QED
  BY <1>1, <1>2, IngestBooks, PromoteBooks DEF processDeposit

\* and an admin who marks an order as paid.
LEMMA MarkPaidBooks ==
  ASSUME TypeOK, AddressByStatus, NEW o \in Orders, NEW t \in Transfers,
         adminMarkOrderPaid(o, t)
  PROVE  Brought
<1> DEFINE cents == usdt6ToCents(order[o].expected, order[o].fx)
           rec == [order[o] EXCEPT !.status = "paid", !.paid = @ + cents, !.ref = TxOf[t]]
           led == [ledger[o] EXCEPT !.D6 = @ + cents]
<1>1. order[o] \in OrderType /\ ledger[o] \in LedgerType /\ TxOf[t] \in Txids
  BY DEF TypeOK, Txids
<1>2. cents \in Nat
  <2>1. order[o].expected \in Int /\ order[o].fx \in Nat
    BY <1>1 DEF OrderType
  <2> QED
    BY <2>1, CentsInNat
<1>3. order[o].status \in Payable /\ order[o].addr # None
  BY DEF adminMarkOrderPaid, AddressByStatus
<1>4. payment' \in [Transfers -> PaymentType]
  BY <1>1 DEF adminMarkOrderPaid, TypeOK, PaymentType, PaymentStates, OrderType
<1>5. order' = [order EXCEPT ![o] = rec] /\ ledger' = [ledger EXCEPT ![o] = led]
  BY <1>1 DEF adminMarkOrderPaid, TypeOK
<1>6. wallet' = [wallet EXCEPT ![Owner[o]] = @ + 0]
  BY DEF adminMarkOrderPaid, TypeOK
<1> HIDE DEF cents
<1>7. rec \in OrderType /\ SameOrder(order[o], rec)
  <2>1. "paid" \in Statuses
    BY DEF Statuses
  <2>2. order[o].paid + cents \in Nat
    BY <1>1, <1>2 DEF OrderType
  <2> QED
    BY <1>1, <1>3, <2>1, <2>2 DEF OrderType, SameOrder
<1>8. led \in LedgerType /\ SameHolds(ledger[o], led)
      /\ led.BAL = ledger[o].BAL + 0
  BY <1>1, <1>2 DEF LedgerType, SameHolds
<1> HIDE DEF rec, led
<1>9. Booking(o)
  <2>1. 0 \in 0 .. Int64Max
    OBVIOUS
  <2> QED
    BY <1>3, <1>5, <1>6, <1>7, <1>8, <2>1 DEF Booking
<1> QED
  BY <1>4, <1>9 DEF Brought, adminMarkOrderPaid, TypeOK
-----------------------------------------------------------------------------
(* Type correctness. It needs the two address invariants: a D6 or a report *)
(* settles an order that has an address, and only such an order.           *)

\* The first state has the types.
LEMMA InitType == Init => TypeOK /\ AddressByStatus /\ TransferAddressed
<1> SUFFICES ASSUME Init PROVE TypeOK /\ AddressByStatus /\ TransferAddressed
  OBVIOUS
<1>1. NoOrder \in OrderType
  BY DEF NoOrder, OrderType, Statuses
<1>2. NoEntries \in LedgerType
  BY DEF NoEntries, LedgerType
<1>3. NoPayment \in PaymentType
  BY DEF NoPayment, PaymentType, PaymentStates
<1>4. NoTransfer \in ChainType
  BY DEF NoTransfer, ChainType
<1>5. TypeOK
  <2> HIDE DEF NoOrder, NoEntries, NoPayment, NoTransfer
  <2> QED
    BY <1>1, <1>2, <1>3, <1>4 DEF Init, TypeOK
<1>6. AddressByStatus /\ TransferAddressed
  BY DEF Init, AddressByStatus, TransferAddressed, NoOrder, NoTransfer, Payable
<1> QED
  BY <1>5, <1>6

\* A Booking writes well-typed rows and no row's address.
LEMMA BookingType ==
  ASSUME TypeOK, AddressByStatus, NEW o \in Orders, Booking(o)
  PROVE  /\ order' \in [Orders -> OrderType]
         /\ ledger' \in [Orders -> LedgerType]
         /\ wallet' \in [Users -> Nat]
         /\ AddressByStatus'
<1>1. PICK rec \in OrderType, led \in LedgerType, n \in 0 .. Int64Max :
        /\ SameOrder(order[o], rec) /\ SameHolds(ledger[o], led)
        /\ order[o].addr # None
        /\ order' = [order EXCEPT ![o] = rec]
        /\ ledger' = [ledger EXCEPT ![o] = led]
        /\ wallet' = [wallet EXCEPT ![Owner[o]] = @ + n]
  BY DEF Booking
<1>2. wallet' \in [Users -> Nat]
  BY <1>1 DEF TypeOK
<1>3. /\ order' \in [Orders -> OrderType] /\ ledger' \in [Orders -> LedgerType]
      /\ order'[o] = rec
      /\ \A p \in Orders \ {o} : order'[p] = order[p]
  BY <1>1 DEF TypeOK
<1>4. AddressByStatus'
  BY <1>1, <1>3 DEF AddressByStatus, SameOrder, Payable
<1> QED
  BY <1>2, <1>3, <1>4

\* What a payment brings keeps them.
LEMMA BroughtType ==
  ASSUME TypeOK, AddressByStatus, TransferAddressed, Brought
  PROVE  TypeOK' /\ AddressByStatus' /\ TransferAddressed'
<1>1. UNCHANGED <<asked, couponUsed, chain>> /\ TransferAddressed'
  BY DEF Brought, TransferAddressed
<1>2. CASE \E o \in Orders : Booking(o)
  <2>1. PICK o \in Orders : Booking(o)
    BY <1>2
  <2> QED
    BY <1>1, <2>1, BookingType DEF Brought, TypeOK
<1>3. CASE UNCHANGED <<order, ledger, wallet>>
  BY <1>1, <1>3 DEF Brought, TypeOK, AddressByStatus
<1> QED
  BY <1>2, <1>3 DEF Brought

\* A draft is an order row with natural amounts.
LEMMA DraftType ==
  ASSUME TypeOK, NEW o \in Orders, BuildDraft(o)
  PROVE  \E rec \in OrderType : rec.status = "draft" /\ rec.addr = None
                                /\ order' = [order EXCEPT ![o] = rec]
<1>1. PICK price \in Prices, useBalance \in BOOLEAN, useCoupon \in BOOLEAN :
        LET remain == price - (IF useCoupon THEN Least(Discount, price) ELSE 0)
            bal == IF useBalance THEN Least(wallet[Owner[o]], remain) ELSE 0
        IN  order' = [order EXCEPT ![o] =
              [NoOrder EXCEPT !.status = "draft", !.due = remain - bal,
                              !.bal = bal, !.coupon = useCoupon]]
  BY DEF BuildDraft
<1> DEFINE remain == price - (IF useCoupon THEN Least(Discount, price) ELSE 0)
           bal == IF useBalance THEN Least(wallet[Owner[o]], remain) ELSE 0
           rec == [NoOrder EXCEPT !.status = "draft", !.due = remain - bal,
                                  !.bal = bal, !.coupon = useCoupon]
<1>2. remain \in Nat
  <2>1. price \in Nat /\ Discount \in Nat
    BY <1>1, PaymentsAssumption
  <2>2. \A m, n \in Nat : Least(m, n) \in Nat /\ n - Least(m, n) \in Nat
    BY DEF Least
  <2>3. price - 0 \in Nat
    BY <2>1
  <2> QED
    BY <2>1, <2>2, <2>3
<1>3. bal \in Nat /\ remain - bal \in Nat
  <2>1. wallet[Owner[o]] \in Nat
    BY DEF TypeOK
  <2> HIDE DEF remain
  <2> QED
    BY <1>2, <2>1 DEF Least
<1> HIDE DEF remain, bal
<1>4. rec \in OrderType /\ rec.status = "draft" /\ rec.addr = None
  BY <1>3 DEF NoOrder, OrderType, Statuses
<1>5. order' = [order EXCEPT ![o] = rec]
  BY <1>1 DEF remain, bal
<1> QED
  BY <1>4, <1>5

\* What nothing about time changes of an order.
SameTerms(old, new) ==
  /\ new.due = old.due /\ new.bal = old.bal /\ new.coupon = old.coupon
  /\ new.addr = old.addr /\ new.expected = old.expected

\* Time that passes leaves an order its status and its terms.
LEMMA TimePasses ==
  ASSUME TypeOK, NEW o \in Orders, PassDeadline(o) \/ WatchEnds(o)
  PROVE  /\ \E rec \in OrderType : /\ SameTerms(order[o], rec) /\ rec.status = order[o].status
                                   /\ order' = [order EXCEPT ![o] = rec]
         /\ UNCHANGED <<asked, wallet, couponUsed, ledger, payment, credited, chain>>
<1> DEFINE late == [order[o] EXCEPT !.overdue = TRUE]
           lost == [order[o] EXCEPT !.watched = FALSE]
<1>1. order[o] \in OrderType
  BY DEF TypeOK
<1>2. /\ late \in OrderType /\ SameTerms(order[o], late) /\ late.status = order[o].status
      /\ lost \in OrderType /\ SameTerms(order[o], lost) /\ lost.status = order[o].status
  BY <1>1 DEF OrderType, SameTerms
<1>3. order' = [order EXCEPT ![o] = late] \/ order' = [order EXCEPT ![o] = lost]
  BY DEF PassDeadline, WatchEnds, TypeOK
<1> HIDE DEF late, lost
<1>4. UNCHANGED <<asked, wallet, couponUsed, ledger, payment, credited, chain>>
  BY DEF PassDeadline, WatchEnds
<1> QED
  BY <1>2, <1>3, <1>4

\* An order that is closed was open and keeps its terms.
LEMMA OrderCloses ==
  ASSUME TypeOK, NEW o \in Orders, CancelOrder(o) \/ runOrderTimeout(o)
  PROVE  /\ order[o].status \in Open /\ Release(o)
         /\ \E rec \in OrderType : /\ SameTerms(order[o], rec) /\ rec.status \in Closed
                                   /\ order' = [order EXCEPT ![o] = rec]
         /\ UNCHANGED <<asked, couponUsed, payment, credited, chain>>
<1> DEFINE cancelled == [order[o] EXCEPT !.status = "cancelled"]
           expired == [order[o] EXCEPT !.status = "expired", !.watched = order[o].addr # None]
<1>1. order[o] \in OrderType
  BY DEF TypeOK
<1>2. /\ cancelled \in OrderType /\ SameTerms(order[o], cancelled)
      /\ cancelled.status \in Closed
  BY <1>1 DEF OrderType, SameTerms, Statuses, Closed
<1>3. /\ expired \in OrderType /\ SameTerms(order[o], expired)
      /\ expired.status \in Closed
  BY <1>1 DEF OrderType, SameTerms, Statuses, Closed
<1>4. order' = [order EXCEPT ![o] = cancelled] \/ order' = [order EXCEPT ![o] = expired]
  BY DEF CancelOrder, runOrderTimeout, Expire, TypeOK
<1> HIDE DEF cancelled, expired
<1>5. /\ order[o].status \in Open /\ Release(o)
      /\ UNCHANGED <<asked, couponUsed, payment, credited, chain>>
  BY DEF CancelOrder, runOrderTimeout, Open
<1> QED
  BY <1>2, <1>3, <1>4, <1>5

\* Every step keeps the types, and an address as long as its status says.
LEMMA TypeStep ==
  TypeOK /\ AddressByStatus /\ TransferAddressed /\ [Next]_vars
    => TypeOK' /\ AddressByStatus' /\ TransferAddressed'
<1> SUFFICES ASSUME TypeOK, AddressByStatus, TransferAddressed, [Next]_vars
             PROVE  TypeOK' /\ AddressByStatus' /\ TransferAddressed'
  OBVIOUS
<1>1. ASSUME NEW o \in Orders, BuildDraft(o)
      PROVE  TypeOK' /\ AddressByStatus' /\ TransferAddressed'
  <2>1. PICK rec \in OrderType : rec.status = "draft" /\ rec.addr = None
                                 /\ order' = [order EXCEPT ![o] = rec]
    BY <1>1, DraftType
  <2> QED
    BY <1>1, <2>1 DEF BuildDraft, TypeOK, AddressByStatus, TransferAddressed, Payable
<1>2. ASSUME NEW o \in Orders, WriteOrder(o)
      PROVE  TypeOK' /\ AddressByStatus' /\ TransferAddressed'
  <2>1. order[o] \in OrderType /\ ledger[o] \in LedgerType
        /\ wallet[Owner[o]] \in Nat /\ order[o].bal \in Nat
    BY DEF TypeOK, OrderType
  <2>2. [order[o] EXCEPT !.status = "pending"] \in OrderType
    BY <2>1 DEF OrderType, Statuses, Open
  <2>3. [ledger[o] EXCEPT !.BALHOLD = @ + order[o].bal] \in LedgerType
    BY <2>1 DEF LedgerType
  <2>4. order' \in [Orders -> OrderType] /\ ledger' \in [Orders -> LedgerType]
    BY <1>2, <2>2, <2>3 DEF WriteOrder, TypeOK
  <2>5. wallet' \in [Users -> Nat] /\ couponUsed' \in Nat
    BY <1>2, <2>1 DEF WriteOrder, TypeOK
  <2>6. AddressByStatus'
    BY <1>2, <2>1 DEF WriteOrder, TypeOK, AddressByStatus, Payable
  <2> QED
    BY <1>2, <2>4, <2>5, <2>6 DEF WriteOrder, TypeOK, TransferAddressed
<1>3. ASSUME NEW o \in Orders, RejectDraft(o)
      PROVE  TypeOK' /\ AddressByStatus' /\ TransferAddressed'
  <2>1. NoOrder \in OrderType /\ NoOrder.status = "none" /\ NoOrder.addr = None
    BY DEF NoOrder, OrderType, Statuses
  <2> QED
    BY <1>3, <2>1 DEF RejectDraft, TypeOK, AddressByStatus, TransferAddressed, Payable
<1>4. ASSUME NEW o \in Orders, CancelOrder(o) \/ runOrderTimeout(o)
      PROVE  TypeOK' /\ AddressByStatus' /\ TransferAddressed'
  <2>1. order[o] \in OrderType /\ ledger[o] \in LedgerType
        /\ wallet[Owner[o]] \in Nat /\ order[o].bal \in Nat
    BY DEF TypeOK, OrderType
  <2>2. PICK rec \in OrderType : rec.status \in Closed /\ order' = [order EXCEPT ![o] = rec]
    BY <1>4, OrderCloses
  <2>3. Release(o) /\ UNCHANGED <<asked, couponUsed, payment, credited, chain>>
    BY <1>4, OrderCloses
  <2>4. [ledger[o] EXCEPT !.BALREL = @ + order[o].bal] \in LedgerType
    BY <2>1 DEF LedgerType
  <2>5. order' \in [Orders -> OrderType] /\ ledger' \in [Orders -> LedgerType]
    BY <2>2, <2>3, <2>4 DEF Release, TypeOK
  <2>6. wallet' \in [Users -> Nat]
    BY <2>1, <2>3 DEF Release, TypeOK
  <2>7. AddressByStatus'
    BY <2>2 DEF TypeOK, AddressByStatus, Payable, Closed
  <2> QED
    BY <2>3, <2>5, <2>6, <2>7 DEF TypeOK, TransferAddressed
<1>5. ASSUME NEW o \in Orders, NEW method \in {"balance", "usdt"}, payOrderOnce(o, method)
      PROVE  TypeOK' /\ AddressByStatus' /\ TransferAddressed'
  BY <1>5 DEF payOrderOnce, TypeOK, AddressByStatus, TransferAddressed
<1>6. ASSUME NEW o \in Orders, payWithBalance(o)
      PROVE  TypeOK' /\ AddressByStatus' /\ TransferAddressed'
  <2>1. order[o] \in OrderType /\ ledger[o] \in LedgerType
        /\ wallet[Owner[o]] \in Nat /\ order[o].due \in Nat
    BY DEF TypeOK, OrderType
  <2>2. [order[o] EXCEPT !.status = "paid"] \in OrderType
    BY <2>1 DEF OrderType, Statuses
  <2>3. [ledger[o] EXCEPT !.PAY = @ + order[o].due] \in LedgerType
    BY <2>1 DEF LedgerType
  <2>4. order' \in [Orders -> OrderType] /\ ledger' \in [Orders -> LedgerType]
    BY <1>6, <2>2, <2>3 DEF payWithBalance, TypeOK
  <2>5. wallet' \in [Users -> Nat]
    BY <1>6, <2>1 DEF payWithBalance, TypeOK
  <2>6. AddressByStatus'
    BY <1>6, <2>1 DEF payWithBalance, TypeOK, AddressByStatus, Payable
  <2> QED
    BY <1>6, <2>4, <2>5, <2>6 DEF payWithBalance, TypeOK, TransferAddressed
<1>7. ASSUME NEW o \in Orders, payWithUSDT(o)
      PROVE  TypeOK' /\ AddressByStatus' /\ TransferAddressed'
  <2>1. PICK a \in Addresses, rate \in Rates :
          order' = [order EXCEPT ![o].status = "paying", ![o].addr = a,
                                 ![o].watched = TRUE,
                                 ![o].expected = quoteUSDT6(order[o].due, rate),
                                 ![o].fx = rate]
    BY <1>7 DEF payWithUSDT, FreeAddresses
  <2>2. order[o] \in OrderType /\ order[o].due \in Nat
    BY DEF TypeOK, OrderType
  <2>3. quoteUSDT6(order[o].due, rate) \in Nat /\ rate \in Nat
    BY <2>2, QuoteNat
  <2> DEFINE rec == [order[o] EXCEPT !.status = "paying", !.addr = a, !.watched = TRUE,
                       !.expected = quoteUSDT6(order[o].due, rate), !.fx = rate]
  <2>4. rec \in OrderType /\ rec.status = "paying" /\ rec.addr = a
    BY <2>2, <2>3 DEF OrderType, Statuses, Open
  <2>5. order' = [order EXCEPT ![o] = rec]
    BY <2>1 DEF TypeOK
  <2> HIDE DEF rec
  <2>6. order' \in [Orders -> OrderType] /\ AddressByStatus'
    BY <2>4, <2>5 DEF TypeOK, AddressByStatus, Payable
  <2> QED
    BY <1>7, <2>6 DEF payWithUSDT, TypeOK, TransferAddressed
<1>8. ASSUME NEW o \in Orders, PassDeadline(o) \/ WatchEnds(o)
      PROVE  TypeOK' /\ AddressByStatus' /\ TransferAddressed'
  <2>1. PICK rec \in OrderType : /\ SameTerms(order[o], rec) /\ rec.status = order[o].status
                                 /\ order' = [order EXCEPT ![o] = rec]
    BY <1>8, TimePasses
  <2>2. order' \in [Orders -> OrderType]
    BY <2>1 DEF TypeOK
  <2>3. \A p \in Orders : /\ order'[p].status = order[p].status
                          /\ order'[p].addr = order[p].addr
    BY <2>1 DEF TypeOK, SameTerms
  <2>4. AddressByStatus'
    BY <2>3 DEF AddressByStatus
  <2> QED
    BY <1>8, <2>2, <2>4, TimePasses DEF TypeOK, TransferAddressed
<1>9. ASSUME NEW tx \in Txids, Chain(tx)
      PROVE  TypeOK' /\ AddressByStatus' /\ TransferAddressed'
  <2>1. chain' \in [Transfers -> ChainType] /\ TransferAddressed'
    <3>1. CASE Broadcast(tx)
      <4>1. PICK to \in [In(tx) -> Addresses], amt \in [In(tx) -> Amounts] :
              chain' = [t \in Transfers |->
                IF t \in In(tx)
                THEN [st |-> "confirming", addr |-> to[t], amt |-> amt[t]]
                ELSE chain[t]]
        BY <3>1 DEF Broadcast
      <4>2. \A t \in In(tx) : to[t] \in Addresses /\ amt[t] \in Nat
        OBVIOUS
      <4>3. \A t \in In(tx) :
              [st |-> "confirming", addr |-> to[t], amt |-> amt[t]] \in ChainType
        BY <4>2 DEF ChainType
      <4>4. \A t \in In(tx) :
              [st |-> "confirming", addr |-> to[t], amt |-> amt[t]].addr # None
        BY <4>2
      <4>5. chain' \in [Transfers -> ChainType]
        BY <4>1, <4>3 DEF TypeOK
      <4>6. TransferAddressed'
        BY <4>1, <4>4 DEF TransferAddressed
      <4> QED
        BY <4>5, <4>6
    <3>2. ASSUME NEW st \in {"solidified", "orphaned"}, Finalise(tx, st)
          PROVE  chain' \in [Transfers -> ChainType] /\ TransferAddressed'
      <4>1. ASSUME NEW t \in Transfers
            PROVE  /\ [chain[t] EXCEPT !.st = st] \in ChainType
                   /\ [chain[t] EXCEPT !.st = st].addr = chain[t].addr
        <5>1. chain[t] \in ChainType
          BY DEF TypeOK
        <5> QED
          BY <3>2, <5>1 DEF ChainType
      <4>2. \A t \in Transfers : chain'[t] \in ChainType /\ chain'[t].addr = chain[t].addr
        BY <3>2, <4>1 DEF Finalise, TypeOK
      <4>3. \A t \in Transfers : chain'[t].st # "absent" => chain[t].st # "absent"
        BY <3>2 DEF Finalise, In
      <4> QED
        BY <3>2, <4>2, <4>3 DEF Finalise, TransferAddressed
    <3> QED
      BY <1>9, <3>1, <3>2 DEF Chain
  <2>2. UNCHANGED Environment
    BY <1>9 DEF Chain, Broadcast, Finalise
  <2> QED
    BY <2>1, <2>2 DEF Environment, TypeOK, AddressByStatus
<1>10. ASSUME NEW t \in Transfers, NEW solid \in BOOLEAN, processDeposit(t, solid)
       PROVE  TypeOK' /\ AddressByStatus' /\ TransferAddressed'
  BY <1>10, DepositBooks, BroughtType
<1>11. ASSUME NEW o \in Orders, NEW t \in Transfers, adminMarkOrderPaid(o, t)
       PROVE  TypeOK' /\ AddressByStatus' /\ TransferAddressed'
  BY <1>11, MarkPaidBooks, BroughtType
<1>12. CASE UNCHANGED vars
  BY <1>12 DEF vars, TypeOK, AddressByStatus, TransferAddressed
<1> QED
  BY <1>1, <1>2, <1>3, <1>4, <1>5, <1>6, <1>7, <1>8, <1>9, <1>10, <1>11, <1>12
     DEF Next, CreateOrder, PayOrder, Timeout

\* TypeOK holds in every state the handlers, the chain and the tasks reach:
\* no row ever holds a negative amount or a value outside its column's range.
THEOREM TypeCorrect == Spec => []TypeOK
<1> DEFINE Inv == TypeOK /\ AddressByStatus /\ TransferAddressed
<1>1. Init => Inv
  BY InitType
<1>2. Inv /\ [Next]_vars => Inv'
  BY TypeStep
<1>3. Inv => TypeOK
  OBVIOUS
<1> QED
  BY <1>1, <1>2, <1>3, PTL DEF Spec
-----------------------------------------------------------------------------
(* The balance an order holds, and the addresses.                          *)

\* HoldSettledOnce of one order row and its entries.
HoldSettled(rec, led) ==
  /\ led.BALHOLD = IF rec.status \notin {"none", "draft"} THEN rec.bal ELSE 0
  /\ led.BALREL = IF rec.status \in Closed THEN rec.bal ELSE 0
  /\ led.PAY = IF rec.status = "paid" /\ rec.addr = None THEN rec.due ELSE 0

\* The holds can be judged order by order.
LEMMA HoldPerOrder ==
  HoldSettledOnce <=> \A o \in Orders : HoldSettled(order[o], ledger[o])
BY DEF HoldSettledOnce, HoldSettled, IsRow

\* A step that writes one order and its entries is judged on them alone.
LEMMA HoldOfOne ==
  ASSUME TypeOK, HoldSettledOnce, NEW o \in Orders, NEW rec, NEW led,
         order' = [order EXCEPT ![o] = rec], ledger' = [ledger EXCEPT ![o] = led],
         HoldSettled(rec, led)
  PROVE  HoldSettledOnce'
<1>1. \A p \in Orders : HoldSettled(order'[p], ledger'[p])
  BY HoldPerOrder DEF TypeOK
<1> QED
  BY <1>1 DEF HoldSettledOnce, HoldSettled, IsRow

\* What a payment brings settles the hold once.
LEMMA BroughtHolds ==
  ASSUME TypeOK, HoldSettledOnce, Brought
  PROVE  HoldSettledOnce'
<1>1. CASE \E o \in Orders : Booking(o)
  <2>1. PICK o \in Orders, rec \in OrderType, led \in LedgerType :
          /\ SameOrder(order[o], rec) /\ SameHolds(ledger[o], led)
          /\ order[o].addr # None
          /\ order' = [order EXCEPT ![o] = rec]
          /\ ledger' = [ledger EXCEPT ![o] = led]
    BY <1>1 DEF Booking
  <2>2. HoldSettled(order[o], ledger[o])
    BY HoldPerOrder
  <2>3. HoldSettled(rec, led)
    BY <2>1, <2>2 DEF HoldSettled, SameOrder, SameHolds, Payable, Closed
  <2> QED
    BY <2>1, <2>3, HoldOfOne
<1>2. CASE UNCHANGED <<order, ledger, wallet>>
  BY <1>2 DEF HoldSettledOnce, IsRow
<1> QED
  BY <1>1, <1>2 DEF Brought

\* Every step keeps the holds settled once.
LEMMA HoldStep ==
  TypeOK /\ AddressByStatus /\ TransferAddressed /\ HoldSettledOnce /\ [Next]_vars
    => HoldSettledOnce'
<1> SUFFICES ASSUME TypeOK, AddressByStatus, TransferAddressed, HoldSettledOnce, [Next]_vars
             PROVE  HoldSettledOnce'
  OBVIOUS
<1>0. \A o \in Orders : /\ HoldSettled(order[o], ledger[o])
                        /\ order[o] \in OrderType /\ ledger[o] \in LedgerType
  BY HoldPerOrder DEF TypeOK
<1>1. ASSUME NEW o \in Orders, CreateOrder(o) PROVE HoldSettledOnce'
  <2>1. CASE BuildDraft(o)
    <3>1. PICK rec \in OrderType : rec.status = "draft" /\ rec.addr = None
                                   /\ order' = [order EXCEPT ![o] = rec]
      BY <2>1, DraftType
    <3>2. HoldSettled(rec, ledger[o]) /\ ledger' = [ledger EXCEPT ![o] = ledger[o]]
      BY <1>0, <2>1, <3>1 DEF BuildDraft, HoldSettled, Closed, TypeOK
    <3> QED
      BY <3>1, <3>2, HoldOfOne
  <2>2. CASE WriteOrder(o)
    <3> DEFINE rec == [order[o] EXCEPT !.status = "pending"]
               led == [ledger[o] EXCEPT !.BALHOLD = @ + order[o].bal]
    <3>1. order' = [order EXCEPT ![o] = rec] /\ ledger' = [ledger EXCEPT ![o] = led]
      BY <2>2 DEF WriteOrder, TypeOK
    <3>2. order[o].status = "draft" /\ order[o].bal \in Nat
      BY <1>0, <2>2 DEF WriteOrder, OrderType
    <3>3. HoldSettled(rec, led)
      BY <1>0, <3>2 DEF HoldSettled, OrderType, LedgerType, Closed
    <3> HIDE DEF rec, led
    <3> QED
      BY <3>1, <3>3, HoldOfOne
  <2>3. CASE RejectDraft(o)
    <3>1. HoldSettled(NoOrder, ledger[o])
      BY <1>0, <2>3 DEF RejectDraft, HoldSettled, NoOrder, Closed
    <3>2. order' = [order EXCEPT ![o] = NoOrder] /\ ledger' = [ledger EXCEPT ![o] = ledger[o]]
      BY <2>3 DEF RejectDraft, TypeOK
    <3> QED
      BY <3>1, <3>2, HoldOfOne
  <2> QED
    BY <1>1, <2>1, <2>2, <2>3 DEF CreateOrder
<1>2. ASSUME NEW o \in Orders, CancelOrder(o) \/ runOrderTimeout(o)
      PROVE  HoldSettledOnce'
  <2>1. PICK rec \in OrderType : /\ SameTerms(order[o], rec) /\ rec.status \in Closed
                                 /\ order' = [order EXCEPT ![o] = rec]
    BY <1>2, OrderCloses
  <2> DEFINE led == [ledger[o] EXCEPT !.BALREL = @ + order[o].bal]
  <2>2. order[o].status \in Open /\ ledger' = [ledger EXCEPT ![o] = led]
    BY <1>2, OrderCloses DEF Release, TypeOK
  <2>3. order[o].bal \in Nat
    BY <1>0 DEF OrderType
  <2>4. HoldSettled(rec, led)
    BY <1>0, <2>1, <2>2, <2>3 DEF HoldSettled, SameTerms, OrderType, LedgerType, Open, Closed
  <2> HIDE DEF led
  <2> QED
    BY <2>1, <2>2, <2>4, HoldOfOne
<1>3. ASSUME NEW o \in Orders, PayOrder(o) PROVE HoldSettledOnce'
  <2>1. CASE \E method \in {"balance", "usdt"} : payOrderOnce(o, method)
    BY <2>1 DEF payOrderOnce, HoldSettledOnce, IsRow
  <2>2. CASE payWithBalance(o)
    <3> DEFINE rec == [order[o] EXCEPT !.status = "paid"]
               led == [ledger[o] EXCEPT !.PAY = @ + order[o].due]
    <3>1. order' = [order EXCEPT ![o] = rec] /\ ledger' = [ledger EXCEPT ![o] = led]
      BY <2>2 DEF payWithBalance, TypeOK
    <3>2. order[o].status = "pending" /\ order[o].addr = None /\ order[o].due \in Nat
      BY <1>0, <2>2 DEF payWithBalance, AddressByStatus, OrderType
    <3>3. HoldSettled(rec, led)
      BY <1>0, <3>2 DEF HoldSettled, OrderType, LedgerType, Closed
    <3> HIDE DEF rec, led
    <3> QED
      BY <3>1, <3>3, HoldOfOne
  <2>3. CASE payWithUSDT(o)
    <3>1. PICK a \in Addresses, rate \in Rates :
            order' = [order EXCEPT ![o].status = "paying", ![o].addr = a,
                                   ![o].watched = TRUE,
                                   ![o].expected = quoteUSDT6(order[o].due, rate),
                                   ![o].fx = rate]
      BY <2>3 DEF payWithUSDT, FreeAddresses
    <3> DEFINE rec == [order[o] EXCEPT !.status = "paying", !.addr = a, !.watched = TRUE,
                         !.expected = quoteUSDT6(order[o].due, rate), !.fx = rate]
    <3>2. order' = [order EXCEPT ![o] = rec] /\ ledger' = [ledger EXCEPT ![o] = ledger[o]]
      BY <2>3, <3>1 DEF payWithUSDT, TypeOK
    <3>3. order[o].status = "pending"
      BY <2>3 DEF payWithUSDT
    <3>4. HoldSettled(rec, ledger[o])
      BY <1>0, <3>3 DEF HoldSettled, OrderType, Closed
    <3> HIDE DEF rec
    <3> QED
      BY <3>2, <3>4, HoldOfOne
  <2> QED
    BY <1>3, <2>1, <2>2, <2>3 DEF PayOrder
<1>4. ASSUME NEW o \in Orders, PassDeadline(o) \/ WatchEnds(o) PROVE HoldSettledOnce'
  <2>1. PICK rec \in OrderType : /\ SameTerms(order[o], rec) /\ rec.status = order[o].status
                                 /\ order' = [order EXCEPT ![o] = rec]
    BY <1>4, TimePasses
  <2>2. ledger' = [ledger EXCEPT ![o] = ledger[o]]
    BY <1>4, TimePasses DEF TypeOK
  <2>3. HoldSettled(rec, ledger[o])
    BY <1>0, <2>1 DEF HoldSettled, SameTerms
  <2> QED
    BY <2>1, <2>2, <2>3, HoldOfOne
<1>5. ASSUME NEW tx \in Txids, Chain(tx) PROVE HoldSettledOnce'
  BY <1>5 DEF Chain, Broadcast, Finalise, Environment, HoldSettledOnce, IsRow
<1>6. ASSUME NEW t \in Transfers, NEW solid \in BOOLEAN, processDeposit(t, solid)
      PROVE  HoldSettledOnce'
  BY <1>6, DepositBooks, BroughtHolds
<1>7. ASSUME NEW o \in Orders, NEW t \in Transfers, adminMarkOrderPaid(o, t)
      PROVE  HoldSettledOnce'
  BY <1>7, MarkPaidBooks, BroughtHolds
<1>8. CASE UNCHANGED vars
  BY <1>8 DEF vars, HoldSettledOnce, IsRow
<1> QED
  BY <1>1, <1>2, <1>3, <1>4, <1>5, <1>6, <1>7, <1>8 DEF Next, Timeout

\* Cancel, pay and order-timeout may race over an order in any way: what it
\* holds of the wallet is given back once, or kept, and never both.
THEOREM HoldsSettled == Spec => []HoldSettledOnce
<1> DEFINE Inv == TypeOK /\ AddressByStatus /\ TransferAddressed /\ HoldSettledOnce
<1>1. Init => Inv
  <2>1. Init => HoldSettledOnce
    BY DEF Init, HoldSettledOnce, IsRow, NoOrder, NoEntries, Closed
  <2> QED
    BY <2>1, InitType
<1>2. Inv /\ [Next]_vars => Inv'
  BY TypeStep, HoldStep
<1>3. Inv => HoldSettledOnce
  OBVIOUS
<1> QED
  BY <1>1, <1>2, <1>3, PTL DEF Spec
-----------------------------------------------------------------------------
SameAddresses == \A o \in Orders : order'[o].addr = order[o].addr

\* o, which had no address, is given one that no order has had.
Assigned(o) ==
  /\ order[o].addr = None
  /\ \E a \in FreeAddresses : order'[o].addr = a
  /\ \A p \in Orders \ {o} : order'[p].addr = order[p].addr

\* Only payWithUSDT gives an order an address, and nothing takes one away.
LEMMA AddressStep ==
  ASSUME TypeOK, AddressByStatus, TransferAddressed, [Next]_vars
  PROVE  SameAddresses \/ \E o \in Orders : Assigned(o)
<1>0. \A o \in Orders : order[o] \in OrderType
  BY DEF TypeOK
<1>1. ASSUME NEW o \in Orders, NEW rec, order' = [order EXCEPT ![o] = rec],
             rec.addr = order[o].addr
      PROVE  SameAddresses
  BY <1>1 DEF SameAddresses, TypeOK
<1>2. ASSUME NEW o \in Orders, CreateOrder(o) PROVE SameAddresses
  <2>1. CASE BuildDraft(o)
    <3>1. PICK rec \in OrderType : rec.addr = None /\ order' = [order EXCEPT ![o] = rec]
      BY <2>1, DraftType
    <3>2. order[o].addr = None
      BY <2>1 DEF BuildDraft, AddressByStatus
    <3> QED
      BY <1>1, <3>1, <3>2
  <2>2. CASE WriteOrder(o)
    BY <2>2, <1>0 DEF WriteOrder, SameAddresses, TypeOK, OrderType
  <2>3. CASE RejectDraft(o)
    <3>1. order[o].addr = None /\ order' = [order EXCEPT ![o] = NoOrder]
      BY <2>3 DEF RejectDraft, AddressByStatus
    <3>2. NoOrder.addr = None
      BY DEF NoOrder
    <3> QED
      BY <1>1, <3>1, <3>2
  <2> QED
    BY <1>2, <2>1, <2>2, <2>3 DEF CreateOrder
<1>3. ASSUME NEW o \in Orders, CancelOrder(o) \/ Timeout(o) PROVE SameAddresses
  <2>1. \E rec \in OrderType : SameTerms(order[o], rec) /\ order' = [order EXCEPT ![o] = rec]
    BY <1>3, OrderCloses, TimePasses DEF Timeout
  <2> QED
    BY <1>1, <2>1 DEF SameTerms
<1>4. ASSUME NEW o \in Orders, PayOrder(o) PROVE SameAddresses \/ Assigned(o)
  <2>1. CASE \E method \in {"balance", "usdt"} : payOrderOnce(o, method)
    BY <2>1 DEF payOrderOnce, SameAddresses
  <2>2. CASE payWithBalance(o)
    BY <2>2, <1>0 DEF payWithBalance, SameAddresses, TypeOK, OrderType
  <2>3. CASE payWithUSDT(o)
    <3>1. PICK a \in FreeAddresses, rate \in Rates :
            order' = [order EXCEPT ![o].status = "paying", ![o].addr = a,
                                   ![o].watched = TRUE,
                                   ![o].expected = quoteUSDT6(order[o].due, rate),
                                   ![o].fx = rate]
      BY <2>3 DEF payWithUSDT
    <3>2. order'[o].addr = a /\ \A p \in Orders \ {o} : order'[p].addr = order[p].addr
      BY <1>0, <3>1 DEF TypeOK, OrderType
    <3>3. order[o].addr = None
      BY <2>3 DEF payWithUSDT, AddressByStatus
    <3> QED
      BY <3>2, <3>3 DEF Assigned
  <2> QED
    BY <1>4, <2>1, <2>2, <2>3 DEF PayOrder
<1>5. ASSUME Brought PROVE SameAddresses
  <2>1. ASSUME NEW o \in Orders, Booking(o) PROVE SameAddresses
    <3>1. PICK rec \in OrderType : /\ SameOrder(order[o], rec)
                                   /\ order' = [order EXCEPT ![o] = rec]
      BY <2>1 DEF Booking
    <3> QED
      BY <3>1, <1>1 DEF SameOrder
  <2>2. CASE UNCHANGED <<order, ledger, wallet>>
    BY <2>2 DEF SameAddresses
  <2> QED
    BY <1>5, <2>1, <2>2 DEF Brought
<1>6. ASSUME NEW t \in Transfers, NEW solid \in BOOLEAN, processDeposit(t, solid)
      PROVE  SameAddresses
  BY <1>5, <1>6, DepositBooks
<1>7. ASSUME NEW o \in Orders, NEW t \in Transfers, adminMarkOrderPaid(o, t)
      PROVE  SameAddresses
  BY <1>5, <1>7, MarkPaidBooks
<1>8. ASSUME NEW tx \in Txids, Chain(tx) PROVE SameAddresses
  BY <1>8 DEF Chain, Broadcast, Finalise, Environment, SameAddresses
<1>9. CASE UNCHANGED vars
  BY <1>9 DEF vars, SameAddresses
<1> QED
  BY <1>2, <1>3, <1>4, <1>6, <1>7, <1>8, <1>9 DEF Next

\* A step that gives an order an address takes a free one.
LEMMA DistinctStep ==
  ASSUME TypeOK, AddressByStatus, TransferAddressed, AddressNamesOneOrder, [Next]_vars
  PROVE  AddressNamesOneOrder'
<1>1. CASE SameAddresses
  BY <1>1 DEF SameAddresses, AddressNamesOneOrder
<1>2. CASE \E o \in Orders : Assigned(o)
  BY <1>2 DEF Assigned, FreeAddresses, AddressNamesOneOrder
<1> QED
  BY <1>1, <1>2, AddressStep

\* However payOrder, deposits and closing orders interleave, an address never
\* names two orders: a transfer finds the one order that asked for it.
THEOREM AddressesDistinct == Spec => []AddressNamesOneOrder
<1> DEFINE Inv == TypeOK /\ AddressByStatus /\ TransferAddressed /\ AddressNamesOneOrder
<1>1. Init => Inv
  <2>1. Init => AddressNamesOneOrder
    BY DEF Init, AddressNamesOneOrder, NoOrder
  <2> QED
    BY <2>1, InitType
<1>2. Inv /\ [Next]_vars => Inv'
  BY TypeStep, DistinctStep
<1>3. Inv => AddressNamesOneOrder
  OBVIOUS
<1> QED
  BY <1>1, <1>2, <1>3, PTL DEF Spec

\* No step takes an address from an order or replaces it: money that comes
\* after the order is closed still finds it.
THEOREM AddressesKept == Spec => AddressKept
<1> DEFINE Inv == TypeOK /\ AddressByStatus /\ TransferAddressed
<1>1. Init => Inv
  BY InitType
<1>2. Inv /\ [Next]_vars => Inv'
  BY TypeStep
<1>3. Inv /\ [Next]_vars =>
        [\A o \in Orders : order[o].addr # None => order'[o].addr = order[o].addr]_vars
  <2> SUFFICES ASSUME Inv, [Next]_vars
               PROVE  \A o \in Orders :
                        order[o].addr # None => order'[o].addr = order[o].addr
    OBVIOUS
  <2>1. CASE SameAddresses
    BY <2>1 DEF SameAddresses
  <2>2. CASE \E o \in Orders : Assigned(o)
    BY <2>2 DEF Assigned
  <2> QED
    BY <2>1, <2>2, AddressStep
<1> QED
  BY <1>1, <1>2, <1>3, PTL DEF Spec, AddressKept
-----------------------------------------------------------------------------
(* The coupon. *)

HasUse(rec) == rec.status \notin {"none", "draft"} /\ rec.coupon
CouponOrders == {o \in Orders : IsRow(o) /\ order[o].coupon}

\* used_count is the number of orders that were written with the coupon, and
\* each was written while the coupon was still free.
CouponCounted ==
  /\ IsFiniteSet(CouponOrders)
  /\ Cardinality(CouponOrders) = couponUsed
  /\ couponUsed <= CouponTotal

SameCoupons == CouponOrders' = CouponOrders /\ couponUsed' = couponUsed

Used(o) ==
  /\ o \notin CouponOrders
  /\ CouponOrders' = CouponOrders \cup {o}
  /\ couponUsed < CouponTotal
  /\ couponUsed' = couponUsed + 1

\* An order that uses a coupon as before leaves the count of its orders.
LEMMA SameUse ==
  ASSUME TypeOK, NEW o \in Orders, NEW rec,
         order' = [order EXCEPT ![o] = rec], HasUse(rec) = HasUse(order[o])
  PROVE  CouponOrders' = CouponOrders
<1>1. \A p \in Orders : HasUse(order'[p]) = HasUse(order[p])
  BY DEF TypeOK
<1> QED
  BY <1>1 DEF CouponOrders, IsRow, HasUse

\* Only writeOrder counts a use, and it counts the order it writes.
LEMMA CouponStep ==
  ASSUME TypeOK, AddressByStatus, TransferAddressed, [Next]_vars
  PROVE  SameCoupons \/ \E o \in Orders : Used(o)
<1>0. \A o \in Orders : order[o] \in OrderType
  BY DEF TypeOK
<1>1. ASSUME NEW o \in Orders, CreateOrder(o) PROVE SameCoupons \/ Used(o)
  <2>1. CASE BuildDraft(o)
    <3>1. PICK rec \in OrderType : rec.status = "draft" /\ order' = [order EXCEPT ![o] = rec]
      BY <2>1, DraftType
    <3>2. HasUse(rec) = HasUse(order[o])
      BY <2>1, <3>1 DEF BuildDraft, HasUse
    <3> QED
      BY <2>1, <3>1, <3>2, SameUse DEF BuildDraft, SameCoupons
  <2>2. CASE WriteOrder(o)
    <3> DEFINE rec == [order[o] EXCEPT !.status = "pending"]
    <3>1. order' = [order EXCEPT ![o] = rec] /\ order[o].status = "draft"
      BY <2>2 DEF WriteOrder, TypeOK
    <3>2. rec.status = "pending" /\ rec.coupon = order[o].coupon
      BY <1>0 DEF OrderType
    <3> HIDE DEF rec
    <3>3. CASE order[o].coupon
      <4>1. o \notin CouponOrders
        BY <3>1 DEF CouponOrders, IsRow
      <4>2. \A p \in Orders : order'[p] = IF p = o THEN rec ELSE order[p]
        BY <3>1 DEF TypeOK
      <4>3. CouponOrders' = CouponOrders \cup {o}
        BY <3>2, <3>3, <4>2 DEF CouponOrders, IsRow
      <4> QED
        BY <2>2, <3>3, <4>1, <4>3 DEF WriteOrder, CouponFree, Used
    <3>4. CASE ~order[o].coupon
      <4>1. HasUse(rec) = HasUse(order[o])
        BY <3>1, <3>2, <3>4 DEF HasUse
      <4>2. CouponOrders' = CouponOrders
        BY <3>1, <4>1, SameUse
      <4>3. couponUsed' = couponUsed
        BY <2>2, <3>4 DEF WriteOrder, TypeOK
      <4> QED
        BY <4>2, <4>3 DEF SameCoupons
    <3> QED
      BY <3>3, <3>4
  <2>3. CASE RejectDraft(o)
    <3>1. HasUse(NoOrder) = HasUse(order[o])
      BY <2>3 DEF RejectDraft, HasUse, NoOrder
    <3> QED
      BY <2>3, <3>1, SameUse DEF RejectDraft, SameCoupons
  <2> QED
    BY <1>1, <2>1, <2>2, <2>3 DEF CreateOrder
<1>2. ASSUME NEW o \in Orders, payWithBalance(o) PROVE SameCoupons
  <2> DEFINE rec == [order[o] EXCEPT !.status = "paid"]
  <2>1. order' = [order EXCEPT ![o] = rec] /\ couponUsed' = couponUsed
    BY <1>2 DEF payWithBalance, TypeOK
  <2>2. HasUse(rec) = HasUse(order[o])
    BY <1>0, <1>2 DEF payWithBalance, HasUse, OrderType
  <2> HIDE DEF rec
  <2> QED
    BY <2>1, <2>2, SameUse DEF SameCoupons
<1>3. ASSUME NEW o \in Orders, CancelOrder(o) \/ Timeout(o) PROVE SameCoupons
  <2>1. PICK rec \in OrderType : /\ SameTerms(order[o], rec)
                                 /\ \/ rec.status = order[o].status
                                    \/ rec.status \in Closed /\ order[o].status \in Open
                                 /\ order' = [order EXCEPT ![o] = rec]
    BY <1>3, OrderCloses, TimePasses DEF Timeout
  <2>2. HasUse(rec) = HasUse(order[o])
    BY <2>1 DEF HasUse, SameTerms, Open, Closed
  <2>3. couponUsed' = couponUsed
    BY <1>3, OrderCloses, TimePasses DEF Timeout
  <2> QED
    BY <2>1, <2>2, <2>3, SameUse DEF SameCoupons
<1>4. ASSUME NEW o \in Orders, payWithUSDT(o) PROVE SameCoupons
  <2>1. PICK a \in Addresses, rate \in Rates :
          order' = [order EXCEPT ![o].status = "paying", ![o].addr = a,
                                 ![o].watched = TRUE,
                                 ![o].expected = quoteUSDT6(order[o].due, rate),
                                 ![o].fx = rate]
    BY <1>4 DEF payWithUSDT, FreeAddresses
  <2> DEFINE rec == [order[o] EXCEPT !.status = "paying", !.addr = a, !.watched = TRUE,
                       !.expected = quoteUSDT6(order[o].due, rate), !.fx = rate]
  <2>2. order' = [order EXCEPT ![o] = rec]
    BY <2>1 DEF TypeOK
  <2>3. HasUse(rec) = HasUse(order[o])
    BY <1>0, <1>4 DEF payWithUSDT, HasUse, OrderType
  <2> HIDE DEF rec
  <2> QED
    BY <1>4, <2>2, <2>3, SameUse DEF payWithUSDT, SameCoupons
<1>6. ASSUME Brought PROVE SameCoupons
  <2>1. CASE \E o \in Orders : Booking(o)
    <3>1. PICK o \in Orders, rec \in OrderType :
            SameOrder(order[o], rec) /\ order' = [order EXCEPT ![o] = rec]
      BY <2>1 DEF Booking
    <3>2. HasUse(rec) = HasUse(order[o])
      BY <3>1 DEF SameOrder, HasUse, Payable
    <3> QED
      BY <1>6, <3>1, <3>2, SameUse DEF Brought, SameCoupons
  <2>2. CASE UNCHANGED <<order, ledger, wallet>>
    BY <1>6, <2>2 DEF Brought, SameCoupons, CouponOrders, IsRow
  <2> QED
    BY <1>6, <2>1, <2>2 DEF Brought
<1>7. ASSUME NEW t \in Transfers, NEW solid \in BOOLEAN, processDeposit(t, solid)
      PROVE  SameCoupons
  BY <1>6, <1>7, DepositBooks
<1>8. ASSUME NEW o \in Orders, NEW t \in Transfers, adminMarkOrderPaid(o, t)
      PROVE  SameCoupons
  BY <1>6, <1>8, MarkPaidBooks
<1>9. ASSUME NEW tx \in Txids, Chain(tx) PROVE SameCoupons
  BY <1>9 DEF Chain, Broadcast, Finalise, Environment, SameCoupons, CouponOrders, IsRow
<1>10. CASE \E o \in Orders, method \in {"balance", "usdt"} : payOrderOnce(o, method)
  BY <1>10 DEF payOrderOnce, SameCoupons, CouponOrders, IsRow
<1>11. CASE UNCHANGED vars
  BY <1>11 DEF vars, SameCoupons, CouponOrders, IsRow
<1> QED
  BY <1>1, <1>2, <1>3, <1>4, <1>7, <1>8, <1>9, <1>10, <1>11 DEF Next, PayOrder

\* No order has a coupon at first.
LEMMA CountInit == Init => CouponCounted
<1>1. Init => CouponOrders = {}
  BY DEF Init, CouponOrders, IsRow, NoOrder
<1>2. IsFiniteSet({}) /\ Cardinality({}) = 0
  BY FS_EmptySet
<1>3. Init => couponUsed = 0 /\ couponUsed <= CouponTotal
  BY DEF Init
<1> QED
  BY <1>1, <1>2, <1>3 DEF CouponCounted

\* A step counts the order that it writes with the coupon.
LEMMA CountStep ==
  ASSUME TypeOK, AddressByStatus, TransferAddressed, CouponCounted, [Next]_vars
  PROVE  CouponCounted'
<1>1. CASE SameCoupons
  BY <1>1 DEF SameCoupons, CouponCounted
<1>2. ASSUME NEW o \in Orders, Used(o) PROVE CouponCounted'
  <2>1. /\ IsFiniteSet(CouponOrders \cup {o})
        /\ Cardinality(CouponOrders \cup {o}) = Cardinality(CouponOrders) + 1
    BY <1>2, FS_AddElement DEF CouponCounted, Used
  <2> QED
    BY <1>2, <2>1 DEF CouponCounted, Used, TypeOK
<1> QED
  BY <1>1, <1>2, CouponStep

\* What is counted is not oversold.
LEMMA CountFits == CouponCounted => CouponNotOversold
BY DEF CouponCounted, CouponOrders, CouponNotOversold

\* However many requests drafted an order while the coupon was free, no more
\* than CouponTotal orders are ever written with it.
THEOREM CouponsBounded == Spec => []CouponNotOversold
<1> DEFINE Inv == TypeOK /\ AddressByStatus /\ TransferAddressed /\ CouponCounted
<1>1. Init => Inv
  BY InitType, CountInit
<1>2. Inv /\ [Next]_vars => Inv'
  BY TypeStep, CountStep
<1>3. Inv => CouponNotOversold
  BY CountFits
<1> QED
  BY <1>1, <1>2, <1>3, PTL DEF Spec
-----------------------------------------------------------------------------

\* Each part of the invariant holds at first.
LEMMA IInvInit == Init => IInv
<1>1. Init => HoldSettledOnce
  BY DEF Init, HoldSettledOnce, IsRow, NoOrder, NoEntries, Closed
<1>2. Init => AddressNamesOneOrder
  BY DEF Init, AddressNamesOneOrder, NoOrder
<1> QED
  BY <1>1, <1>2, InitType DEF IInv

\* And every step keeps them.
LEMMA IInvStep == IInv /\ [Next]_vars => IInv'
BY TypeStep, HoldStep, DistinctStep DEF IInv

\* The invariant the theorems above are parts of.
THEOREM Invariance == Spec => []IInv
BY IInvInit, IInvStep, PTL DEF Spec

-----------------------------------------------------------------------------
(* The wallets and the entries: every step that moves a wallet writes the  *)
(* entry that says so.                                                     *)

Shift(led) == led.BALREL - led.BALHOLD - led.PAY + led.BAL

\* A step that writes one order's entries, and moves its owner's wallet by
\* what they now say more.
LEMMA LedgerMove ==
  ASSUME TypeOK, WalletReconciles, NEW o \in Orders, NEW led \in LedgerType, NEW d \in Int,
         ledger' = [ledger EXCEPT ![o] = led],
         wallet' = [wallet EXCEPT ![Owner[o]] = @ + d],
         Shift(led) = Shift(ledger[o]) + d
  PROVE  WalletReconciles'
<1> DEFINE Of(u) == {p \in Orders : Owner[p] = u}
<1>1. ASSUME NEW u \in Users
      PROVE  wallet'[u] = Opening[u] + SumFunctionOnSet(Moved', Of(u))
  <2>1. wallet[u] = Opening[u] + SumFunctionOnSet(Moved, Of(u))
    BY DEF WalletReconciles
  <2>2. IsFiniteSet(Of(u)) /\ Of(u) \subseteq Orders
    BY FS_Subset
  <2>3. \A p \in Orders : Moved[p] = Shift(ledger[p]) /\ Moved'[p] = Shift(ledger'[p])
    BY DEF Moved, Shift
  <2>4. \A l \in LedgerType : Shift(l) \in Int
    BY DEF LedgerType, Shift
  <2>5. \A p \in Orders : ledger[p] \in LedgerType /\ ledger'[p] \in LedgerType
    BY DEF TypeOK
  <2>6. \A p \in Orders : Moved[p] \in Int /\ Moved'[p] \in Int
    BY <2>3, <2>4, <2>5
  <2>7. \A p \in Orders \ {o} : Moved'[p] = Moved[p]
    BY <2>3 DEF TypeOK
  <2>8. Moved'[o] = Moved[o] + d
    BY <2>3 DEF TypeOK
  <2>9. wallet[u] \in Int /\ Opening[u] \in Int /\ Owner[o] \in Users
    BY DEF TypeOK
  <2>10. SumFunctionOnSet(Moved, Of(u)) \in Int
    BY <2>2, <2>6, SumInt
  <2>11. CASE u = Owner[o]
    <3>1. SumFunctionOnSet(Moved', Of(u)) = SumFunctionOnSet(Moved, Of(u)) + Moved'[o] - Moved[o]
      <4>1. o \in Of(u) /\ \A p \in Of(u) \ {o} : Moved'[p] = Moved[p]
        BY <2>7, <2>11
      <4> HIDE DEF Of
      <4> QED
        BY <2>2, <2>6, <4>1, SumMove
    <3>2. wallet'[u] = wallet[u] + d
      BY <2>11 DEF TypeOK
    <3> QED
      BY <2>1, <2>6, <2>8, <2>9, <2>10, <3>1, <3>2
  <2>12. CASE u # Owner[o]
    <3>1. SumFunctionOnSet(Moved', Of(u)) = SumFunctionOnSet(Moved, Of(u))
      BY <2>2, <2>7, <2>12, SumAgree
    <3>2. wallet'[u] = wallet[u]
      BY <2>12 DEF TypeOK
    <3> QED
      BY <2>1, <3>1, <3>2
  <2> QED
    BY <2>11, <2>12
<1> QED
  BY <1>1 DEF WalletReconciles

\* Every step moves a wallet by what it moves in the ledger.
LEMMA ReconcileStep == IInv /\ WalletReconciles /\ [Next]_vars => WalletReconciles'
<1> SUFFICES ASSUME IInv, WalletReconciles, [Next]_vars PROVE WalletReconciles'
  OBVIOUS
<1> USE DEF IInv
<1>0. \A o \in Orders : /\ order[o] \in OrderType /\ ledger[o] \in LedgerType
                        /\ wallet[Owner[o]] \in Nat
                        /\ order[o].bal \in Nat /\ order[o].due \in Nat
  BY DEF TypeOK, OrderType
<1>1. CASE UNCHANGED <<wallet, ledger>>
  <2>1. Moved' = Moved
    BY <1>1 DEF Moved
  <2> QED
    BY <1>1, <2>1 DEF WalletReconciles
<1>2. ASSUME NEW o \in Orders, WriteOrder(o) PROVE WalletReconciles'
  <2> DEFINE led == [ledger[o] EXCEPT !.BALHOLD = @ + order[o].bal]
             d == - order[o].bal
  <2>1. led \in LedgerType /\ d \in Int /\ Shift(led) = Shift(ledger[o]) + d
    BY <1>0 DEF LedgerType, Shift
  <2>2. /\ ledger' = [ledger EXCEPT ![o] = led]
        /\ wallet' = [wallet EXCEPT ![Owner[o]] = @ + d]
    BY <1>0, <1>2 DEF WriteOrder, TypeOK
  <2> HIDE DEF led, d
  <2> QED
    BY <2>1, <2>2, LedgerMove
<1>3. ASSUME NEW o \in Orders, Release(o) PROVE WalletReconciles'
  <2> DEFINE led == [ledger[o] EXCEPT !.BALREL = @ + order[o].bal]
             d == order[o].bal
  <2>1. led \in LedgerType /\ d \in Int /\ Shift(led) = Shift(ledger[o]) + d
    BY <1>0 DEF LedgerType, Shift
  <2>2. /\ ledger' = [ledger EXCEPT ![o] = led]
        /\ wallet' = [wallet EXCEPT ![Owner[o]] = @ + d]
    BY <1>3 DEF Release, TypeOK
  <2> HIDE DEF led, d
  <2> QED
    BY <2>1, <2>2, LedgerMove
<1>4. ASSUME NEW o \in Orders, payWithBalance(o) PROVE WalletReconciles'
  <2> DEFINE led == [ledger[o] EXCEPT !.PAY = @ + order[o].due]
             d == - order[o].due
  <2>1. led \in LedgerType /\ d \in Int /\ Shift(led) = Shift(ledger[o]) + d
    BY <1>0 DEF LedgerType, Shift
  <2>2. /\ ledger' = [ledger EXCEPT ![o] = led]
        /\ wallet' = [wallet EXCEPT ![Owner[o]] = @ + d]
    BY <1>0, <1>4 DEF payWithBalance, TypeOK
  <2> HIDE DEF led, d
  <2> QED
    BY <2>1, <2>2, LedgerMove
<1>5. ASSUME Brought PROVE WalletReconciles'
  <2>1. ASSUME NEW o \in Orders, Booking(o) PROVE WalletReconciles'
    <3>1. PICK led \in LedgerType, n \in 0 .. Int64Max :
            /\ SameHolds(ledger[o], led) /\ led.BAL = ledger[o].BAL + n
            /\ ledger' = [ledger EXCEPT ![o] = led]
            /\ wallet' = [wallet EXCEPT ![Owner[o]] = @ + n]
      BY <2>1 DEF Booking
    <3>2. n \in Int /\ Shift(led) = Shift(ledger[o]) + n
      BY <1>0, <3>1 DEF Shift, SameHolds, LedgerType
    <3> QED
      BY <3>1, <3>2, LedgerMove
  <2> QED
    BY <1>1, <1>5, <2>1 DEF Brought
<1>6. ASSUME NEW o \in Orders, CreateOrder(o) PROVE WalletReconciles'
  BY <1>1, <1>2, <1>6 DEF CreateOrder, BuildDraft, RejectDraft
<1>7. ASSUME NEW o \in Orders, CancelOrder(o) \/ Timeout(o) PROVE WalletReconciles'
  BY <1>1, <1>3, <1>7 DEF CancelOrder, Timeout, PassDeadline, WatchEnds, runOrderTimeout
<1>8. ASSUME NEW o \in Orders, PayOrder(o) PROVE WalletReconciles'
  BY <1>1, <1>4, <1>8 DEF PayOrder, payOrderOnce, payWithUSDT
<1>9. ASSUME NEW t \in Transfers, NEW solid \in BOOLEAN, processDeposit(t, solid)
      PROVE  WalletReconciles'
  BY <1>5, <1>9, DepositBooks
<1>10. ASSUME NEW o \in Orders, NEW t \in Transfers, adminMarkOrderPaid(o, t)
       PROVE  WalletReconciles'
  BY <1>5, <1>10, MarkPaidBooks
<1>11. ASSUME NEW tx \in Txids, Chain(tx) PROVE WalletReconciles'
  BY <1>1, <1>11 DEF Chain, Broadcast, Finalise, Environment
<1>12. CASE UNCHANGED vars
  BY <1>1, <1>12 DEF vars
<1> QED
  BY <1>6, <1>7, <1>8, <1>9, <1>10, <1>11, <1>12 DEF Next

\* No entry has moved a wallet at first.
LEMMA ReconcileInit == Init => WalletReconciles
<1> SUFFICES ASSUME Init, NEW u \in Users
             PROVE  wallet[u] = Opening[u]
                                  + SumFunctionOnSet(Moved, {o \in Orders : Owner[o] = u})
  BY DEF WalletReconciles
<1> DEFINE S == {o \in Orders : Owner[o] = u}
           Zero == [o \in Orders |-> 0]
<1>1. IsFiniteSet(S) /\ S \subseteq Orders
  BY FS_Subset
<1>2. \A o \in S : Moved[o] = 0
  BY DEF Init, Moved, NoEntries
<1>3. SumFunctionOnSet(Moved, S) = 0
  BY <1>1, <1>2, SumZero
<1> QED
  BY <1>3 DEF Init

\* ReconcileWalletBalances never finds a drift, whatever races, retries and
\* repeated reports the handlers go through.
THEOREM WalletsReconcile == Spec => []WalletReconciles
<1>1. Spec => []IInv
  BY Invariance
<1>2. IInv /\ WalletReconciles /\ [Next]_vars => WalletReconciles'
  BY ReconcileStep
<1> QED
  BY <1>1, <1>2, ReconcileInit, PTL DEF Spec
-----------------------------------------------------------------------------
(* The money on the chain: what an order consumes and what wallets are     *)
(* credited is covered by what is booked at its address. MoneyInv, told    *)
(* order by order and address by address.                                  *)

Rcv(a) == SumReceipts(payment, a, "paid")
Alone(a) == \A t \in Transfers : payment[t].addr = a => payment[t].by = "scanner"

\* How order o stands, a being its address.
Standing(o, a) ==
  /\ order[o].status \in Payable => ledger[o].shortfall = 0 /\ CreditedAt(a) = 0
  /\ KeptBy(o) + CreditedAt(a) <= Rcv(a)
  /\ ledger[o].shortfall \in 0 .. Writeoff
  /\ order[o].status = "paid" /\ Alone(a) =>
       \A n \in Worthwhile(Rcv(a)) :
         Rcv(a) - KeptBy(o) - CreditedAt(a)
           <= OverpayIgnore + Cardinality(Booked(a)) * (n - 1)

AllStand ==
  /\ \A o \in Orders : order[o].addr = None => ledger[o].shortfall = 0
  /\ \A o \in Orders, a \in Addresses : order[o].addr = a => Standing(o, a)
  /\ \A a \in FreeAddresses : CreditedAt(a) = 0

\* What is booked at an address, and how many receipts it is made of.
LEMMA BookedSum ==
  ASSUME TypeOK, NEW a
  PROVE  /\ Rcv(a) = SumFunctionOnSet([t \in Transfers |-> payment[t].amt], Booked(a))
         /\ Rcv(a) \in Nat /\ CreditedAt(a) \in Nat
         /\ IsFiniteSet(Booked(a)) /\ Cardinality(Booked(a)) \in Nat
         /\ Rcv(a) > 0 => Cardinality(Booked(a)) >= 1
<1> DEFINE amt == [t \in Transfers |-> payment[t].amt]
           at == {t \in Transfers : payment[t].addr = a}
<1>1. Rcv(a) = SumFunctionOnSet(amt, Booked(a))
  BY DEF Rcv, SumReceipts, Booked
<1>2. IsFiniteSet(Booked(a)) /\ IsFiniteSet(at) /\ Booked(a) \subseteq Transfers
  BY FS_Subset DEF Booked
<1>3. \A t \in Transfers : amt[t] \in Nat /\ credited[t] \in Nat
  BY DEF TypeOK, PaymentType
<1>4. SumFunctionOnSet(amt, Booked(a)) \in Nat
  <2> HIDE DEF amt
  <2> QED
    BY <1>2, <1>3, SumNat
<1>5. SumFunctionOnSet(credited, at) \in Nat
  <2>1. at \subseteq Transfers
    OBVIOUS
  <2> HIDE DEF at
  <2> QED
    BY <1>2, <1>3, <2>1, SumNat
<1>6. Cardinality(Booked(a)) \in Nat
  BY <1>2, FS_CardinalityType
<1>7. Cardinality(Booked(a)) = 0 => SumFunctionOnSet(amt, Booked(a)) = 0
  BY <1>2, FS_EmptySet, SumZero
<1> HIDE DEF amt
<1>8. Rcv(a) > 0 => Cardinality(Booked(a)) >= 1
  BY <1>1, <1>6, <1>7
<1> QED
  BY <1>1, <1>2, <1>4, <1>5, <1>6, <1>8 DEF amt, CreditedAt

\* Writing one row changes nothing at the other addresses.
LEMMA OtherAddress ==
  ASSUME TypeOK, NEW t \in Transfers, NEW a,
         \A u \in Transfers \ {t} : payment'[u] = payment[u] /\ credited'[u] = credited[u],
         payment[t].addr # a, payment'[t].addr # a
  PROVE  /\ Rcv(a)' = Rcv(a) /\ CreditedAt(a)' = CreditedAt(a)
         /\ Booked(a)' = Booked(a) /\ Alone(a)' = Alone(a)
<1> DEFINE at == {u \in Transfers : payment[u].addr = a}
           amt == [u \in Transfers |-> payment[u].amt]
           amt2 == [u \in Transfers |-> payment'[u].amt]
<1>1. at = {u \in Transfers : payment'[u].addr = a} /\ at \subseteq Transfers \ {t}
  OBVIOUS
<1>2. Booked(a)' = Booked(a) /\ Booked(a) \subseteq Transfers \ {t}
  BY DEF Booked
<1>3. IsFiniteSet(at) /\ IsFiniteSet(Booked(a))
  BY FS_Subset DEF Booked
<1>4. \A u \in Booked(a) : amt2[u] = amt[u]
  BY <1>2
<1>5. \A u \in at : credited'[u] = credited[u]
  BY <1>1
<1>6. SumFunctionOnSet(amt2, Booked(a)) = SumFunctionOnSet(amt, Booked(a))
  <2> HIDE DEF amt, amt2
  <2> QED
    BY <1>3, <1>4, SumAgree
<1>7. SumFunctionOnSet(credited', at) = SumFunctionOnSet(credited, at)
  <2> HIDE DEF at
  <2> QED
    BY <1>3, <1>5, SumAgree
<1>8. Rcv(a) = SumFunctionOnSet(amt, Booked(a)) /\ Rcv(a)' = SumFunctionOnSet(amt2, Booked(a)')
  BY DEF Rcv, SumReceipts, Booked
<1>9. CreditedAt(a) = SumFunctionOnSet(credited, at)
      /\ CreditedAt(a)' = SumFunctionOnSet(credited', at)
  BY <1>1 DEF CreditedAt
<1>10. Alone(a)' = Alone(a)
  BY DEF Alone
<1> QED
  BY <1>2, <1>6, <1>7, <1>8, <1>9, <1>10

\* Writing a row of an address that was not booked as received yet.
LEMMA RowWritten ==
  ASSUME TypeOK, TypeOK', NEW t \in Transfers, NEW a, a # None,
         \A u \in Transfers \ {t} : payment'[u] = payment[u] /\ credited'[u] = credited[u],
         payment[t].addr \in {None, a}, payment[t].addr = None => credited[t] = 0,
         payment[t].state # "paid", payment'[t].addr = a
  PROVE  /\ Rcv(a)' = Rcv(a) + IF payment'[t].state = "paid" THEN payment'[t].amt ELSE 0
         /\ CreditedAt(a)' = CreditedAt(a) + credited'[t] - credited[t]
         /\ Cardinality(Booked(a))' =
              Cardinality(Booked(a)) + IF payment'[t].state = "paid" THEN 1 ELSE 0
<1> DEFINE at == {u \in Transfers : payment[u].addr = a}
           at2 == {u \in Transfers : payment'[u].addr = a}
           amt == [u \in Transfers |-> payment[u].amt]
           amt2 == [u \in Transfers |-> payment'[u].amt]
<1>0. \A u \in Transfers : /\ amt[u] \in Int /\ amt2[u] \in Int
                           /\ credited[u] \in Int /\ credited'[u] \in Int
  BY DEF TypeOK, PaymentType
<1>1. t \notin Booked(a) /\ Booked(a) \subseteq Transfers
      /\ Booked(a)' = IF payment'[t].state = "paid" THEN Booked(a) \cup {t} ELSE Booked(a)
  BY DEF Booked
<1>2. at2 = at \cup {t} /\ at2 \ {t} = at \ {t}
  OBVIOUS
<1>3. IsFiniteSet(Booked(a)) /\ IsFiniteSet(at) /\ IsFiniteSet(at2) /\ IsFiniteSet(at \ {t})
  BY FS_Subset DEF Booked
<1>4. Rcv(a) = SumFunctionOnSet(amt, Booked(a)) /\ Rcv(a)' = SumFunctionOnSet(amt2, Booked(a)')
  BY DEF Rcv, SumReceipts, Booked
<1>5. CreditedAt(a) = SumFunctionOnSet(credited, at)
      /\ CreditedAt(a)' = SumFunctionOnSet(credited', at2)
  BY DEF CreditedAt
<1>6. SumFunctionOnSet(amt2, Booked(a)) = SumFunctionOnSet(amt, Booked(a))
  <2>1. \A u \in Booked(a) : amt2[u] = amt[u]
    BY <1>1
  <2> HIDE DEF amt, amt2
  <2> QED
    BY <1>3, <2>1, SumAgree
<1>7. SumFunctionOnSet(amt, Booked(a)) \in Int
  BY <1>0, <1>1, <1>3, SumInt
<1>8. /\ Rcv(a)' = Rcv(a) + IF payment'[t].state = "paid" THEN payment'[t].amt ELSE 0
      /\ Cardinality(Booked(a)') =
           Cardinality(Booked(a)) + IF payment'[t].state = "paid" THEN 1 ELSE 0
  <2>0. amt2[t] = payment'[t].amt
    OBVIOUS
  <2> HIDE DEF amt, amt2
  <2>1. CASE payment'[t].state = "paid"
    <3>1. \A u \in Booked(a) \cup {t} : amt2[u] \in Int
      BY <1>0, <1>1
    <3>2. SumFunctionOnSet(amt2, Booked(a) \cup {t}) = amt2[t] + SumFunctionOnSet(amt2, Booked(a))
      BY <1>1, <1>3, <3>1, SumWith
    <3>3. Cardinality(Booked(a) \cup {t}) = Cardinality(Booked(a)) + 1
      BY <1>1, <1>3, FS_AddElement
    <3> QED
      BY <1>0, <1>1, <1>4, <1>6, <1>7, <2>0, <2>1, <3>2, <3>3
  <2>2. CASE payment'[t].state # "paid"
    <3>1. Booked(a)' = Booked(a)
      BY <1>1, <2>2
    <3>2. Cardinality(Booked(a)) \in Nat
      BY <1>3, FS_CardinalityType
    <3> QED
      BY <1>4, <1>6, <1>7, <2>2, <3>1, <3>2
  <2> QED
    BY <2>1, <2>2
<1>9. CreditedAt(a)' = CreditedAt(a) + credited'[t] - credited[t]
  <2> DEFINE rest == SumFunctionOnSet(credited, at \ {t})
  <2>1. SumFunctionOnSet(credited', at \ {t}) = rest
    <3>1. \A u \in at \ {t} : credited'[u] = credited[u]
      OBVIOUS
    <3> HIDE DEF at
    <3> QED
      BY <1>3, <3>1, SumAgree
  <2>2. rest \in Int
    <3>1. \A u \in at \ {t} : credited[u] \in Int
      BY <1>0
    <3> HIDE DEF at
    <3> QED
      BY <1>3, <3>1, SumInt
  <2>3. CreditedAt(a)' = credited'[t] + rest
    <3>1. t \in at2 /\ \A u \in at2 : credited'[u] \in Int
      BY <1>0, <1>2
    <3> HIDE DEF at, at2
    <3> QED
      BY <1>2, <1>3, <1>5, <2>1, <3>1, SumWithout
  <2>4. CreditedAt(a) = credited[t] + rest
    <3>1. CASE payment[t].addr = a
      <4>1. t \in at /\ \A u \in at : credited[u] \in Int
        BY <1>0, <3>1
      <4> HIDE DEF at
      <4>2. SumFunctionOnSet(credited, at) = credited[t] + SumFunctionOnSet(credited, at \ {t})
        BY <1>3, <4>1, SumWithout
      <4> QED
        BY <1>5, <4>2
    <3>2. CASE payment[t].addr = None
      <4>1. at \ {t} = at /\ credited[t] = 0
        BY <3>2
      <4>2. CreditedAt(a) = rest
        BY <1>5, <4>1
      <4> HIDE DEF at, rest
      <4> QED
        BY <2>2, <4>1, <4>2
    <3> QED
      BY <3>1, <3>2
  <2> HIDE DEF rest
  <2> QED
    BY <1>0, <2>2, <2>3, <2>4
<1> QED
  BY <1>8, <1>9

\* An order stands as before when neither it nor its address changed.
LEMMA StandsOn ==
  ASSUME NEW o \in Orders, NEW a, Standing(o, a),
         order'[o].status = order[o].status, order'[o].expected = order[o].expected,
         ledger'[o].shortfall = ledger[o].shortfall,
         Rcv(a)' = Rcv(a), CreditedAt(a)' = CreditedAt(a),
         Booked(a)' = Booked(a), Alone(a)' = Alone(a)
  PROVE  Standing(o, a)'
<1>1. KeptBy(o)' = KeptBy(o)
  BY DEF KeptBy
<1> QED
  BY <1>1 DEF Standing

\* The more is at stake, the fewer amounts are worth a cent for certain.
LEMMA WorthShrinks ==
  ASSUME NEW x \in Int, NEW y \in Int, x <= y
  PROVE  Worthwhile(y) \subseteq Worthwhile(x) /\ Worthwhile(y) \subseteq 1 .. Int64Max
<1>1. \A n \in Int : n .. x \subseteq n .. y
  OBVIOUS
<1> QED
  BY <1>1 DEF Worthwhile

\* What Post does to the money: the shortfall it is told, and at most the
\* units it is told, all of them unless they are worth less than a cent.
LEMMA PostMoney ==
  ASSUME TypeOK, NEW o \in Orders, NEW t \in Transfers,
         NEW rec \in OrderType, NEW led \in LedgerType,
         NEW short \in Int, NEW units \in Int,
         Post(o, t, rec, led, short, units)
  PROVE  /\ order' = [order EXCEPT ![o] = rec]
         /\ \E l \in LedgerType : ledger' = [ledger EXCEPT ![o] = l]
                                  /\ l.shortfall = led.shortfall + short
         /\ \E w \in {0, units} :
              /\ w \in Nat
              /\ credited' = [credited EXCEPT ![t] = @ + w]
              /\ w = 0 => \A x \in Int : \A n \in Worthwhile(x) : units < n \/ units > x
<1>1. PICK rate \in Rates :
        LET cents == usdt6ToCents(units, rate)
        IN  /\ order' = [order EXCEPT ![o] = rec]
            /\ ledger' = [ledger EXCEPT ![o] =
                 [led EXCEPT !.shortfall = @ + short, !.BAL = @ + cents]]
            /\ credited' = [credited EXCEPT ![t] = @ + IF cents > 0 THEN units ELSE 0]
  BY DEF Post
<1> DEFINE cents == usdt6ToCents(units, rate)
           l == [led EXCEPT !.shortfall = @ + short, !.BAL = @ + cents]
           w == IF cents > 0 THEN units ELSE 0
<1>2. cents \in Nat /\ (cents > 0 => units \in Nat)
  <2>1. cents \in Nat
    BY CentsInNat
  <2>2. cents > 0 => units \in Nat
    BY DEF usdt6ToCents
  <2> QED
    BY <2>1, <2>2
<1>3. ASSUME NEW x \in Int, NEW n \in Worthwhile(x), n <= units, units <= x PROVE cents > 0
  BY <1>3 DEF Worthwhile
<1>4. l \in LedgerType /\ l.shortfall = led.shortfall + short
  <2>1. led.shortfall + short \in Int /\ led.BAL + cents \in Nat
    BY <1>2 DEF LedgerType
  <2> HIDE DEF cents
  <2> QED
    BY <2>1 DEF LedgerType
<1>5. /\ order' = [order EXCEPT ![o] = rec]
      /\ ledger' = [ledger EXCEPT ![o] = l]
      /\ credited' = [credited EXCEPT ![t] = @ + w]
  BY <1>1
<1>6. w \in {0, units} /\ w \in Nat
  BY <1>2
<1>7. ASSUME w = 0, NEW x \in Int, NEW n \in Worthwhile(x) PROVE units < n \/ units > x
  <2>1. n \in 1 .. Int64Max
    BY DEF Worthwhile
  <2>2. cents > 0 => units = 0
    BY <1>7
  <2> HIDE DEF cents
  <2> QED
    BY <1>3, <2>1, <2>2
<1> HIDE DEF l, w
<1> QED
  BY <1>4, <1>5, <1>6, <1>7

\* SettlePaid in numbers: amt more is booked, the write-off s is made good
\* first, and of what then exceeds e, w goes to the wallet.
PaidAgain(r, c, e, s, amt, recovered, credit, w) ==
  /\ r \in Nat /\ c \in Nat /\ e \in Nat /\ s \in Nat /\ amt \in Nat /\ w \in Nat
  /\ recovered = Least(amt, Pos(s))
  /\ credit = Least(amt - recovered, Pos(r + amt - e))
  /\ w \in {0, credit}
  /\ e - s + c <= r

\* The arithmetic of a second payment: what is recovered of the shortfall, and
\* what is credited.
LEMMA PaidArithmetic ==
  ASSUME NEW r, NEW c, NEW e, NEW s, NEW amt, NEW recovered, NEW credit, NEW w,
         PaidAgain(r, c, e, s, amt, recovered, credit, w)
  PROVE  /\ recovered \in 0 .. s
         /\ e - (s - recovered) + c + w <= r + amt
         /\ \A d \in Nat : r - (e - s) - c <= d =>
              r + amt - (e - (s - recovered)) - (c + w) <= d + (credit - w)
         /\ credit <= r + amt
<1>0. /\ r \in Nat /\ c \in Nat /\ e \in Nat /\ s \in Nat /\ amt \in Nat /\ w \in Nat
      /\ recovered = Least(amt, Pos(s))
      /\ credit = Least(amt - recovered, Pos(r + amt - e))
      /\ w \in {0, credit}
      /\ e - s + c <= r
  BY DEF PaidAgain
<1>1. recovered \in 0 .. s /\ recovered <= amt /\ (recovered = s \/ recovered = amt)
  BY <1>0 DEF Least, Pos
<1>2. /\ credit <= amt - recovered /\ credit >= 0
      /\ credit = amt - recovered \/ (credit = 0 /\ r + amt <= e) \/ credit = r + amt - e
      /\ credit \in Int
  <2>1. Pos(r + amt - e) \in Nat
    BY <1>0, <1>0 DEF Pos
  <2>2. r + amt <= e => Pos(r + amt - e) = 0
    BY <1>0, <1>0 DEF Pos
  <2>3. ~(r + amt <= e) => Pos(r + amt - e) = r + amt - e
    BY <1>0, <1>0 DEF Pos
  <2>4. amt - recovered \in Nat
    BY <1>0, <1>1
  <2> QED
    BY <1>0, <2>1, <2>2, <2>3, <2>4 DEF Least
<1>3. w <= credit
  BY <1>0, <1>2
<1>4. e - (s - recovered) + c + w <= r + amt
  BY <1>0, <1>1, <1>2, <1>3
<1>5. ASSUME NEW d \in Nat, r - (e - s) - c <= d
      PROVE  r + amt - (e - (s - recovered)) - (c + w) <= d + (credit - w)
  <2>1. CASE credit = amt - recovered
    BY <1>0, <1>1, <1>2, <1>5, <2>1
  <2>2. CASE credit # amt - recovered
    <3>1. recovered = s
      BY <1>0, <1>1, <1>2, <2>2
    <3>2. r + amt - e - c - w <= credit - w
      BY <1>0, <1>2, <2>2
    <3> QED
      BY <1>0, <1>2, <3>1, <3>2
  <2> QED
    BY <1>0, <2>1, <2>2
<1> QED
  BY <1>0, <1>1, <1>2, <1>4, <1>5

\* One more receipt leaves one more amount below n unclaimed.
LEMMA DustGrows ==
  ASSUME NEW k \in Nat, NEW n \in Nat \ {0}, NEW ignore \in Nat
  PROVE  /\ ignore + k * (n - 1) \in Nat
         /\ ignore + (k + 1) * (n - 1) = (ignore + k * (n - 1)) + (n - 1)
         /\ k >= 1 => k * (n - 1) >= n - 1
<1>1. n - 1 \in Nat
  OBVIOUS
<1>2. k * (n - 1) \in Nat
  BY <1>1, TimesNat
<1>3. (k + 1) * (n - 1) = k * (n - 1) + (n - 1)
  BY <1>1
<1>4. k >= 1 => k * (n - 1) >= n - 1
  <2>1. ASSUME k >= 1 PROVE k * (n - 1) >= n - 1
    <3>1. k - 1 \in Nat
      BY <2>1
    <3>2. k * (n - 1) = (k - 1) * (n - 1) + (n - 1) /\ (k - 1) * (n - 1) \in Nat
      BY <1>1, <3>1, TimesNat
    <3> QED
      BY <1>1, <3>2
  <2> QED
    BY <2>1
<1> QED
  BY <1>1, <1>2, <1>3, <1>4


\* A row that was not booked yet is written, and the order that has its
\* address is settled on the rows as they are then: the order stands.
LEMMA SettleStands ==
  ASSUME TypeOK, TypeOK', NEW o \in Orders, NEW t \in Transfers, NEW solid \in BOOLEAN,
         NEW a \in Addresses, Standing(o, a), order[o].addr = a, chain[t].addr = a,
         NEW rec \in OrderType, NEW led \in LedgerType,
         rec.status = order[o].status, rec.expected = order[o].expected,
         led.shortfall = ledger[o].shortfall,
         \A u \in Transfers \ {t} : payment'[u] = payment[u],
         payment[t].addr \in {None, a}, payment[t].addr = None => credited[t] = 0,
         payment[t].addr = a => payment[t].by = "scanner",
         payment[t].state # "paid",
         payment'[t].addr = a, payment'[t].amt = chain[t].amt,
         payment'[t].state = IF solid THEN "paid" ELSE "confirming",
         Settle(o, t, solid, payment', rec, led)
  PROVE  /\ Standing(o, a)'
         /\ \A p \in Orders \ {o} : order'[p] = order[p] /\ ledger'[p] = ledger[p]
         /\ \A u \in Transfers \ {t} : credited'[u] = credited[u]
<1> DEFINE e == order[o].expected
           s == ledger[o].shortfall
           r == Rcv(a)
           c == CreditedAt(a)
           amt == chain[t].amt
           more == IF solid THEN amt ELSE 0
           k == Cardinality(Booked(a))
           dust(m, n) == OverpayIgnore + m * (n - 1)
           received == SumReceipts(payment', chain[t].addr, "paid")
           confirming == SumReceipts(payment', chain[t].addr, "confirming")
           shortfall == rec.expected - received
           Outcome(new, short, units, w) ==
             /\ order'[o] = new /\ ledger'[o].shortfall = s + short
             /\ w \in {0, units} /\ w \in Nat
             /\ CreditedAt(a)' = c + w
             /\ w = 0 => \A n \in Worthwhile(Rcv(a)') : units < n \/ units > Rcv(a)'
           Rest == /\ \A p \in Orders \ {o} : order'[p] = order[p] /\ ledger'[p] = ledger[p]
                   /\ \A u \in Transfers \ {t} : credited'[u] = credited[u]
                   /\ Rcv(a)' = r + more
                   /\ Cardinality(Booked(a))' = k + IF solid THEN 1 ELSE 0
<1>1. /\ e \in Nat /\ s \in Int /\ r \in Nat /\ c \in Nat /\ amt \in Nat /\ k \in Nat
      /\ order[o] \in OrderType /\ a # None /\ more \in Nat
      /\ TxOf[t] \in Txids /\ rec.due \in Nat /\ rec.paid \in Nat
  BY BookedSum DEF TypeOK, OrderType, LedgerType, ChainType, Txids
<1>2. ASSUME NEW new \in OrderType, NEW short \in Int, NEW units \in Int,
             Post(o, t, new, led, short, units)
      PROVE  Rest /\ \E w : Outcome(new, short, units, w)
  <2>1. PICK l \in LedgerType, w \in {0, units} :
          /\ order' = [order EXCEPT ![o] = new]
          /\ ledger' = [ledger EXCEPT ![o] = l] /\ l.shortfall = led.shortfall + short
          /\ w \in Nat /\ credited' = [credited EXCEPT ![t] = @ + w]
          /\ w = 0 => \A x \in Int : \A n \in Worthwhile(x) : units < n \/ units > x
    BY <1>2, PostMoney
  <2>2. /\ order'[o] = new /\ ledger'[o].shortfall = s + short
        /\ \A p \in Orders \ {o} : order'[p] = order[p] /\ ledger'[p] = ledger[p]
        /\ \A u \in Transfers \ {t} : credited'[u] = credited[u]
        /\ credited'[t] = credited[t] + w /\ credited[t] \in Nat
    BY <2>1 DEF TypeOK
  <2>3. /\ Rcv(a)' = r + IF payment'[t].state = "paid" THEN payment'[t].amt ELSE 0
        /\ CreditedAt(a)' = c + credited'[t] - credited[t]
        /\ Cardinality(Booked(a))' = k + IF payment'[t].state = "paid" THEN 1 ELSE 0
    BY <1>1, <2>2, RowWritten
  <2>4. Rcv(a)' = r + more /\ Cardinality(Booked(a))' = k + IF solid THEN 1 ELSE 0
    BY <2>3
  <2>5. CreditedAt(a)' = c + w
    <3> HIDE DEF c
    <3> QED
      BY <1>1, <2>1, <2>2, <2>3
  <2> HIDE DEF s, r, c, more, k
  <2>6. Rcv(a)' \in Int
    BY <1>1, <2>4
  <2>7. Outcome(new, short, units, w)
    BY <2>1, <2>2, <2>5, <2>6
  <2> QED
    BY <2>2, <2>4, <2>7
<1>3. received = Rcv(a)' /\ received <= Int64Max /\ received \in Int /\ confirming \in Int
  BY DEF Settle, Rcv, Int64
<1>4. /\ order[o].status \in Payable => s = 0 /\ c = 0
      /\ (IF order[o].status = "paid" THEN e - s ELSE 0) + c <= r
      /\ s \in 0 .. Writeoff
      /\ order[o].status = "paid" /\ Alone(a) =>
           \A n \in Worthwhile(r) : r - (e - s) - c <= dust(k, n)
  BY DEF Standing, KeptBy
<1>5. ASSUME Alone(a)' PROVE Alone(a)
  BY <1>5 DEF Alone
<1>6. ASSUME NEW new, new = order'[o],
             NEW s2, s2 = ledger'[o].shortfall, NEW c2, c2 = CreditedAt(a)',
             new.status \in Payable => s2 = 0 /\ c2 = 0,
             (IF new.status = "paid" THEN new.expected - s2 ELSE 0) + c2 <= Rcv(a)',
             s2 \in 0 .. Writeoff,
             new.status = "paid" /\ Alone(a)' =>
               \A n \in Worthwhile(Rcv(a)') :
                 Rcv(a)' - (new.expected - s2) - c2 <= dust(Cardinality(Booked(a))', n)
      PROVE  Standing(o, a)'
  BY <1>6 DEF Standing, KeptBy

<1>7. /\ Rest => Rcv(a)' \in Nat /\ Cardinality(Booked(a))' \in Nat
      /\ Rest /\ Rcv(a)' > 0 => Cardinality(Booked(a))' >= 1
  <2>1. r > 0 => k >= 1
    BY BookedSum
  <2> HIDE DEF r, k, amt
  <2> QED
    BY <1>1, <2>1
<1>8. \A m \in Nat, n \in 1 .. Int64Max :
        /\ dust(m, n) \in Nat /\ dust(m, n) >= OverpayIgnore
        /\ dust(m + 1, n) = dust(m, n) + (n - 1)
        /\ m >= 1 => dust(m, n) >= OverpayIgnore + (n - 1)
  <2> SUFFICES ASSUME NEW m \in Nat, NEW n \in 1 .. Int64Max
               PROVE  /\ dust(m, n) \in Nat /\ dust(m, n) >= OverpayIgnore
                      /\ dust(m + 1, n) = dust(m, n) + (n - 1)
                      /\ m >= 1 => dust(m, n) >= OverpayIgnore + (n - 1)
    OBVIOUS
  <2>1. n \in Nat \ {0}
    OBVIOUS
  <2>2. m * (n - 1) \in Nat
    <3>1. n - 1 \in Nat
      BY <2>1
    <3> QED
      BY <3>1, TimesNat
  <2>3. dust(m + 1, n) = dust(m, n) + (n - 1) /\ (m >= 1 => m * (n - 1) >= n - 1)
    BY <2>1, DustGrows
  <2> QED
    BY <2>1, <2>2, <2>3
<1>9. CASE SettleOpen(o, t, rec, led, shortfall, shortfall - confirming)
  <2> DEFINE full == [rec EXCEPT !.status = "paid", !.paid = @ + rec.due, !.ref = TxOf[t]]
             under == [rec EXCEPT !.status = "underpaid"]
             units == IF -shortfall > OverpayIgnore THEN -shortfall ELSE 0
  <2>1. order[o].status \in Payable /\ s = 0 /\ c = 0
    BY <1>4, <1>9 DEF SettleOpen
  <2>2. full \in OrderType /\ under \in OrderType
        /\ full.status = "paid" /\ full.expected = e /\ under.status \in Payable
    <3>1. "paid" \in Statuses /\ "underpaid" \in Statuses /\ "underpaid" \in Payable
      BY DEF Statuses, Open, Payable
    <3>2. rec.paid + rec.due \in Nat
      BY <1>1
    <3> QED
      BY <3>1, <3>2, <1>1 DEF OrderType
  <2>3. \/ shortfall <= Writeoff /\ Post(o, t, full, led, Pos(shortfall), units)
        \/ Post(o, t, rec, led, 0, 0)
        \/ Post(o, t, under, led, 0, 0)
    BY <1>9 DEF SettleOpen
  <2>4. ASSUME NEW new \in OrderType, new.status \in Payable, Post(o, t, new, led, 0, 0)
        PROVE  Standing(o, a)' /\ Rest
    <3>1. PICK w : Rest /\ Outcome(new, 0, 0, w)
      BY <1>2, <2>4
    <3>2. /\ new = order'[o] /\ ledger'[o].shortfall = 0 /\ CreditedAt(a)' = 0
          /\ Rcv(a)' \in Nat /\ Rest /\ new.status # "paid"
      <4>1. Rest /\ new = order'[o] /\ ledger'[o].shortfall = s + 0 /\ CreditedAt(a)' = c + w
            /\ w = 0
        BY <3>1
      <4> HIDE DEF Rest, s, c
      <4> QED
        BY <1>7, <2>1, <2>4, <4>1 DEF Payable
    <3> HIDE DEF Rest, dust
    <3>3. Standing(o, a)'
      BY <1>6, <3>2
    <3> QED
      BY <3>2, <3>3
  <2>5. CASE shortfall <= Writeoff /\ Post(o, t, full, led, Pos(shortfall), units)
    <3> DEFINE x == Rcv(a)'
               m == Cardinality(Booked(a))'
               s2 == ledger'[o].shortfall
    <3>1. shortfall = e - x /\ x <= Int64Max /\ x \in Int
      BY <1>3
    <3>2. Pos(shortfall) \in Int /\ units \in Int
      BY <1>1, <3>1 DEF Pos
    <3>3. PICK w : Rest /\ Outcome(full, Pos(shortfall), units, w)
      <4> HIDE DEF full, units, shortfall, Rest, Outcome
      <4> QED
        BY <1>2, <2>2, <2>5, <3>2
    <3>4. /\ full = order'[o] /\ s2 = s + Pos(shortfall) /\ CreditedAt(a)' = c + w
          /\ w \in {0, units} /\ w \in Nat
          /\ w = 0 => \A n \in Worthwhile(x) : units < n \/ units > x
      BY <3>3
    <3>5. Rest /\ x \in Nat /\ m \in Nat /\ (x > 0 => m >= 1)
      <4>1. Rest
        BY <3>3
      <4> HIDE DEF Rest
      <4> QED
        BY <1>7, <4>1
    <3> HIDE DEF x, m, Rest, full, s, c, e, dust, s2
    <3>6. s2 = Pos(e - x) /\ CreditedAt(a)' = w
          /\ units = IF x - e > OverpayIgnore THEN x - e ELSE 0
      BY <1>1, <2>1, <3>1, <3>2, <3>4, <3>5 DEF Pos
    <3>7. s2 \in 0 .. Writeoff /\ (e - s2) + w <= x
      <4>1. e - x <= Writeoff
        BY <2>5, <3>1
      <4> HIDE DEF shortfall, units
      <4> QED
        BY <1>1, <3>4, <3>5, <3>6, <4>1 DEF Pos
    <3>8. ASSUME NEW n \in Worthwhile(x) PROVE x - (e - s2) - w <= dust(m, n)
      <4>1. /\ n \in Nat \ {0} /\ dust(m, n) \in Nat
            /\ dust(m, n) >= OverpayIgnore
            /\ m >= 1 => dust(m, n) >= OverpayIgnore + (n - 1)
        <5>1. n \in 1 .. Int64Max
          BY <3>1, WorthShrinks
        <5> QED
          BY <1>8, <3>5, <5>1
      <4>2. w = 0 => units < n \/ units > x
        BY <3>4
      <4> HIDE DEF shortfall, units
      <4> QED
        BY <1>1, <3>1, <3>4, <3>5, <3>6, <4>1, <4>2 DEF Pos
    <3>9. full.status = "paid" /\ full.expected = e
      BY <2>2
    <3>10. Standing(o, a)'
      <4>1. full.status \notin Payable
        BY <3>9 DEF Payable
      <4> QED
        BY <1>6, <3>4, <3>6, <3>7, <3>8, <3>9, <4>1 DEF x, m, s2
    <3> QED
      BY <3>5, <3>10 DEF Rest
  <2>6. rec.status \in Payable
    BY <2>1
  <2> HIDE DEF full, under, units, Rest
  <2>7. CASE Post(o, t, rec, led, 0, 0)
    BY <2>4, <2>6, <2>7 DEF Rest
  <2>8. CASE Post(o, t, under, led, 0, 0)
    BY <2>2, <2>4, <2>8 DEF Rest
  <2> QED
    BY <2>3, <2>5, <2>7, <2>8
<1>10. CASE SettleClosed(o, t, solid, rec, led)
  <2>1. rec.status \in Closed /\ Post(o, t, rec, led, 0, more)
    BY <1>10 DEF SettleClosed
  <2>2. PICK w : Rest /\ Outcome(rec, 0, more, w)
    <3> HIDE DEF more, Rest, Outcome
    <3> QED
      BY <1>1, <1>2, <2>1
  <2>3. /\ Rest /\ rec = order'[o] /\ ledger'[o].shortfall = s + 0 /\ CreditedAt(a)' = c + w
        /\ w \in {0, more} /\ Rcv(a)' = r + more
    BY <2>2
  <2>4. rec.status # "paid" /\ rec.status \notin Payable /\ order[o].status # "paid"
    BY <2>1 DEF Closed, Payable
  <2> HIDE DEF Rest, s, c, r, more, e, dust
  <2>5. /\ ledger'[o].shortfall \in 0 .. Writeoff
        /\ CreditedAt(a)' <= Rcv(a)' /\ CreditedAt(a)' \in Int
    BY <1>1, <1>4, <2>3, <2>4
  <2>6. 0 + CreditedAt(a)' <= Rcv(a)'
    BY <2>5
  <2>7. Standing(o, a)'
    BY <1>6, <2>3, <2>4, <2>5, <2>6
  <2> QED
    BY <2>3, <2>7 DEF Rest
<1>11. CASE SettlePaid(o, t, solid, rec, led, shortfall)
  <2> DEFINE recovered == Least(amt, Pos(s))
             credit == Least(amt - recovered, Pos(-shortfall))
             d == IF solid THEN recovered ELSE 0
             units == IF solid THEN credit ELSE 0
  <2>1. rec.status = "paid" /\ rec.expected = e /\ order[o].status = "paid"
    BY <1>11 DEF SettlePaid
  <2>2. shortfall \in Int /\ recovered \in Int /\ credit \in Int /\ units \in Int /\ s \in Nat /\ d \in Int
    <3>1. shortfall \in Int /\ s \in Nat
      BY <1>1, <1>3, <1>4, <2>1
    <3>2. recovered \in Int
      BY <1>1, <3>1 DEF Least, Pos
    <3>3. Pos(-shortfall) \in Int
      BY <3>1 DEF Pos
    <3> HIDE DEF recovered, shortfall
    <3>4. credit \in Int
      BY <1>1, <3>2, <3>3 DEF Least
    <3> QED
      BY <3>1, <3>2, <3>4
  <2>3. PICK z \in Int : z = -recovered
    <3> HIDE DEF recovered
    <3> QED
      BY <2>2
  <2>4. \E w : Rest /\ IF solid THEN Outcome(rec, z, credit, w) ELSE Outcome(rec, 0, 0, w)
    <3>1. CASE solid
      <4>1. Post(o, t, rec, led, z, credit)
        BY <1>11, <2>3, <3>1 DEF SettlePaid
      <4> HIDE DEF credit, Rest, Outcome
      <4> QED
        BY <1>2, <2>2, <3>1, <4>1
    <3>2. CASE ~solid
      <4>1. Post(o, t, rec, led, 0, 0)
        BY <1>11, <3>2 DEF SettlePaid
      <4> HIDE DEF Rest, Outcome
      <4> QED
        BY <1>2, <3>2, <4>1
    <3> QED
      BY <3>1, <3>2
  <2>5. PICK w :
          /\ Rest /\ rec = order'[o] /\ ledger'[o].shortfall = s - d /\ CreditedAt(a)' = c + w
          /\ w \in {0, units} /\ w \in Nat
          /\ w = 0 => \A n \in Worthwhile(Rcv(a)') : units < n \/ units > Rcv(a)'
          /\ Rcv(a)' = r + more
          /\ Cardinality(Booked(a))' = k + IF solid THEN 1 ELSE 0
    <3>1. PICK w : Rest /\ IF solid THEN Outcome(rec, z, credit, w) ELSE Outcome(rec, 0, 0, w)
      BY <2>4
    <3>2. Rcv(a)' = r + more /\ Cardinality(Booked(a))' = k + IF solid THEN 1 ELSE 0
      <4>1. Rest
        BY <3>1
      <4> QED
        BY <4>1
    <3>3. CASE solid
      <4>1. d = recovered /\ units = credit
        BY <3>3
      <4>2. Rest
        BY <3>1
      <4>3. Outcome(rec, z, credit, w)
        BY <3>1, <3>3
      <4>4. /\ rec = order'[o] /\ ledger'[o].shortfall = s + z /\ CreditedAt(a)' = c + w
            /\ w \in {0, credit} /\ w \in Nat
            /\ w = 0 => \A n \in Worthwhile(Rcv(a)') : credit < n \/ credit > Rcv(a)'
        BY <4>3
      <4> HIDE DEF recovered, credit, d, units, Rest, s, c, r, more, k
      <4>5. s + z = s - d
        BY <1>1, <2>2, <2>3, <4>1
      <4> QED
        BY <3>2, <4>1, <4>2, <4>4, <4>5
    <3>4. CASE ~solid
      <4>1. d = 0 /\ units = 0
        BY <3>4
      <4>2. Rest
        BY <3>1
      <4>3. Outcome(rec, 0, 0, w)
        BY <3>1, <3>4
      <4>4. /\ rec = order'[o] /\ ledger'[o].shortfall = s + 0 /\ CreditedAt(a)' = c + w
            /\ w \in {0, 0} /\ w \in Nat
            /\ w = 0 => \A n \in Worthwhile(Rcv(a)') : 0 < n \/ 0 > Rcv(a)'
        BY <4>3
      <4> HIDE DEF d, units, Rest, s, c, r, more, k
      <4>5. s + 0 = s - d
        BY <1>1, <4>1
      <4> QED
        BY <3>2, <4>1, <4>2, <4>4, <4>5
    <3> QED
      BY <3>3, <3>4
  <2>6. (e - s) + c <= r /\ s \in 0 .. Writeoff
    BY <1>4, <2>1
  <2>7. /\ d \in 0 .. s /\ e - (s - d) + c + w <= r + more
        /\ \A j \in Nat : r - (e - s) - c <= j =>
             r + more - (e - (s - d)) - (c + w) <= j + (units - w)
        /\ units <= r + more
    <3>1. CASE solid
      <4>1. d = recovered /\ units = credit /\ more = amt
        BY <3>1
      <4>2. -shortfall = r + amt - e
        <5>1. shortfall = e - (r + more)
          BY <1>3, <2>1, <2>5
        <5> HIDE DEF r, e, more, amt, shortfall
        <5> QED
          BY <1>1, <4>1, <5>1
      <4>3. credit = Least(amt - recovered, Pos(r + amt - e))
        BY <4>2
      <4>4. w \in {0, credit}
        BY <2>5, <4>1
      <4>5. e - s + c <= r
        BY <2>6
      <4>6. recovered = Least(amt, Pos(s))
        OBVIOUS
      <4> HIDE DEF recovered, credit, d, units, more, amt, r, e, s, c, shortfall
      <4>7. r \in Nat /\ c \in Nat /\ e \in Nat /\ s \in Nat /\ amt \in Nat /\ w \in Nat
        BY <1>1, <2>2, <2>5
      <4>8. /\ recovered \in 0 .. s
            /\ e - (s - recovered) + c + w <= r + amt
            /\ \A j \in Nat : r - (e - s) - c <= j =>
                 r + amt - (e - (s - recovered)) - (c + w) <= j + (credit - w)
            /\ credit <= r + amt
        <5>1. PaidAgain(r, c, e, s, amt, recovered, credit, w)
          BY <4>3, <4>4, <4>5, <4>6, <4>7 DEF PaidAgain
        <5> QED
          BY <5>1, PaidArithmetic
      <4> QED
        BY <4>1, <4>8
    <3>2. CASE ~solid
      <4>1. d = 0 /\ units = 0 /\ more = 0 /\ w = 0
        BY <2>5, <3>2
      <4> HIDE DEF d, units, more, r, e, s, c
      <4> QED
        BY <1>1, <2>2, <2>6, <4>1
    <3> QED
      BY <3>1, <3>2
  <2> HIDE DEF d, units, more, Rest, e, s, c, r, k, dust
  <2>8. ledger'[o].shortfall = s - d /\ s - d \in 0 .. Writeoff
    BY <2>2, <2>5, <2>6, <2>7
  <2>9. (e - (s - d)) + (c + w) <= Rcv(a)'
    BY <1>1, <2>2, <2>5, <2>7
  <2>10. ASSUME Alone(a)', NEW n \in Worthwhile(Rcv(a)')
         PROVE  Rcv(a)' - (e - (s - d)) - (c + w) <= dust(Cardinality(Booked(a))', n)
    <3>0. n \in 1 .. Int64Max /\ n \in Worthwhile(r)
      <4>1. r \in Int /\ Rcv(a)' \in Int /\ r <= Rcv(a)'
        BY <1>1, <2>5
      <4> QED
        BY <2>10, <4>1, WorthShrinks
    <3>1. r - (e - s) - c <= dust(k, n)
      BY <1>4, <1>5, <2>1, <2>10, <3>0
    <3>2. /\ dust(k, n) \in Nat /\ n \in Nat \ {0}
          /\ dust(k + 1, n) = dust(k, n) + (n - 1)
      BY <1>1, <1>8, <3>0
    <3>3. Rcv(a)' - (e - (s - d)) - (c + w) <= dust(k, n) + (units - w)
      BY <1>1, <2>2, <2>5, <2>7, <3>1, <3>2
    <3>4. units = w \/ (solid /\ w = 0 /\ units < n)
      <4>1. w = 0 => units < n \/ units > Rcv(a)'
        BY <2>5, <2>10
      <4>2. units <= Rcv(a)' /\ Rcv(a)' \in Int
        BY <1>1, <2>2, <2>5, <2>7
      <4>3. ~solid => units = 0
        BY DEF units
      <4> QED
        BY <2>2, <2>5, <4>1, <4>2, <4>3
    <3>5. CASE units = w
      <4>1. Cardinality(Booked(a))' = k \/ Cardinality(Booked(a))' = k + 1
        BY <1>1, <2>5
      <4>2. dust(k, n) <= dust(Cardinality(Booked(a))', n)
        BY <3>2, <4>1
      <4>3. dust(k, n) + (units - w) = dust(k, n)
        BY <2>2, <3>2, <3>5
      <4> QED
        BY <3>2, <3>3, <4>1, <4>2, <4>3, <1>1, <2>2, <2>5
    <3>6. CASE solid /\ w = 0 /\ units < n
      <4>1. dust(Cardinality(Booked(a))', n) = dust(k, n) + (n - 1)
        BY <2>5, <3>2, <3>6
      <4>2. units - w <= n - 1
        BY <2>2, <3>2, <3>6
      <4> QED
        BY <1>1, <2>2, <2>5, <3>2, <3>3, <4>1, <4>2
    <3> QED
      BY <3>4, <3>5, <3>6
  <2>11. rec.status \notin Payable
    BY <2>1 DEF Payable
  <2>12. Standing(o, a)'
    BY <1>6, <2>1, <2>5, <2>8, <2>9, <2>10, <2>11
  <2> QED
    BY <2>5, <2>12 DEF Rest
<1> QED
  BY <1>9, <1>10, <1>11 DEF Settle

\* The steps that write no payments row: an order may keep its money as it
\* is, be without any, be given a free address, or close while nothing of
\* its address is spent.
Moves(p) ==
  /\ ledger'[p].shortfall = ledger[p].shortfall
  /\ \/ /\ order'[p].addr = order[p].addr /\ order'[p].expected = order[p].expected
        /\ order'[p].status = order[p].status
     \/ order[p].addr = None /\ order'[p].addr = None
     \/ /\ order[p].addr = None /\ order'[p].addr \in FreeAddresses
        /\ order'[p].status \in Payable
     \/ /\ order'[p].addr = order[p].addr
        /\ order[p].status \in Payable /\ order'[p].status \in Closed

\* Steps that bring no payment, if every order moves as one may.
LEMMA MovesStand ==
  ASSUME TypeOK, AllStand, UNCHANGED <<payment, credited>>, \A p \in Orders : Moves(p)
  PROVE  AllStand'
<1>1. ASSUME NEW a
      PROVE  /\ Rcv(a)' = Rcv(a) /\ CreditedAt(a)' = CreditedAt(a)
             /\ Booked(a)' = Booked(a) /\ Alone(a)' = Alone(a)
  BY DEF Rcv, SumReceipts, CreditedAt, Booked, Alone
<1>2. ASSUME NEW p \in Orders, order'[p].addr = None PROVE ledger'[p].shortfall = 0
  <2>1. order[p].addr = None
    BY <1>2 DEF Moves, FreeAddresses
  <2> QED
    BY <2>1 DEF AllStand, Moves
<1>3. ASSUME NEW p \in Orders, NEW a \in Addresses, order'[p].addr = a
      PROVE  Standing(p, a)'
  <2>1. CASE /\ order[p].addr = a /\ order'[p].expected = order[p].expected
             /\ order'[p].status = order[p].status
    <3>1. Standing(p, a)
      BY <2>1 DEF AllStand
    <3> QED
      BY <1>1, <2>1, <3>1, StandsOn DEF Moves
  <2>2. CASE /\ order'[p].status \in Payable \cup Closed
             /\ ledger[p].shortfall = 0 /\ CreditedAt(a) = 0
    <3>1. KeptBy(p)' = 0 /\ order'[p].status # "paid"
      BY <2>2 DEF KeptBy, Payable, Closed
    <3>2. Rcv(a) \in Nat
      BY BookedSum
    <3>3. ledger'[p].shortfall = 0 /\ CreditedAt(a)' = 0 /\ Rcv(a)' \in Nat
      BY <1>1, <2>2, <3>2 DEF Moves
    <3> QED
      BY <3>1, <3>3 DEF Standing
  <2>3. CASE order[p].addr = None /\ a \in FreeAddresses /\ order'[p].status \in Payable
    <3>1. ledger[p].shortfall = 0 /\ CreditedAt(a) = 0
      BY <2>3 DEF AllStand
    <3> QED
      BY <2>2, <2>3, <3>1
  <2>4. CASE /\ order[p].addr = a
             /\ order[p].status \in Payable /\ order'[p].status \in Closed
    <3>1. ledger[p].shortfall = 0 /\ CreditedAt(a) = 0
      BY <2>4 DEF AllStand, Standing
    <3> QED
      BY <2>2, <2>4, <3>1
  <2> QED
    BY <1>3, <2>1, <2>3, <2>4 DEF Moves
<1>4. ASSUME NEW a \in Addresses, \A p \in Orders : order'[p].addr # a
      PROVE  CreditedAt(a)' = 0
  <2>1. a \in FreeAddresses
    BY <1>4 DEF Moves, FreeAddresses
  <2> QED
    BY <1>1, <2>1 DEF AllStand
<1> QED
  BY <1>2, <1>3, <1>4 DEF AllStand, FreeAddresses

\* An order row written with its money left as it is.
LEMMA OneMoves ==
  ASSUME TypeOK, AllStand, NEW o \in Orders, NEW rec, NEW led,
         order' = [order EXCEPT ![o] = rec], ledger' = [ledger EXCEPT ![o] = led],
         led.shortfall = ledger[o].shortfall,
         \/ rec.addr = order[o].addr /\ rec.expected = order[o].expected
            /\ rec.status = order[o].status
         \/ order[o].addr = None /\ rec.addr = None
         \/ order[o].addr = None /\ rec.addr \in FreeAddresses /\ rec.status \in Payable
         \/ rec.addr = order[o].addr /\ order[o].status \in Payable /\ rec.status \in Closed,
         UNCHANGED <<payment, credited>>
  PROVE  AllStand'
<1>1. \A p \in Orders : /\ order'[p] = IF p = o THEN rec ELSE order[p]
                        /\ ledger'[p] = IF p = o THEN led ELSE ledger[p]
  BY DEF TypeOK
<1>2. \A p \in Orders : Moves(p)
  BY <1>1 DEF Moves
<1> QED
  BY <1>2, MovesStand

\* The handlers of createOrder, cancelOrder, payOrder and order-timeout.
LEMMA HandlerStands ==
  ASSUME TypeOK, AddressByStatus, AllStand, NEW o \in Orders,
         CreateOrder(o) \/ CancelOrder(o) \/ PayOrder(o) \/ Timeout(o)
  PROVE  AllStand' /\ UNCHANGED <<payment, credited, chain>>
<1>0. UNCHANGED <<payment, credited, chain>>
  BY DEF CreateOrder, BuildDraft, WriteOrder, RejectDraft, CancelOrder, PayOrder,
         payOrderOnce, payWithBalance, payWithUSDT, Timeout, PassDeadline, WatchEnds,
         runOrderTimeout
<1>1. order[o] \in OrderType /\ ledger[o] \in LedgerType
  BY DEF TypeOK
<1>2. ASSUME NEW rec, order' = [order EXCEPT ![o] = rec], ledger' = ledger,
             order[o].addr = None, rec.addr = None
      PROVE  AllStand'
  <2>1. ledger' = [ledger EXCEPT ![o] = ledger[o]]
    BY <1>2 DEF TypeOK
  <2> QED
    BY <1>0, <1>2, <2>1, OneMoves
<1>3. CASE BuildDraft(o)
  <2>1. PICK rec \in OrderType : rec.addr = None /\ order' = [order EXCEPT ![o] = rec]
    BY <1>3, DraftType
  <2>2. order[o].addr = None /\ ledger' = ledger
    BY <1>3 DEF BuildDraft, AddressByStatus
  <2> QED
    BY <1>2, <1>0, <2>1, <2>2
<1>4. CASE WriteOrder(o)
  <2> DEFINE rec == [order[o] EXCEPT !.status = "pending"]
             led == [ledger[o] EXCEPT !.BALHOLD = @ + order[o].bal]
  <2>1. order' = [order EXCEPT ![o] = rec] /\ ledger' = [ledger EXCEPT ![o] = led]
    BY <1>4 DEF WriteOrder, TypeOK
  <2>2. order[o].addr = None
    BY <1>4 DEF WriteOrder, AddressByStatus
  <2>3. rec.addr = order[o].addr /\ led.shortfall = ledger[o].shortfall
    BY <1>1 DEF OrderType, LedgerType
  <2> HIDE DEF rec, led
  <2> QED
    BY <1>0, <2>1, <2>2, <2>3, OneMoves
<1>5. CASE RejectDraft(o)
  <2>1. order[o].addr = None /\ ledger' = ledger /\ order' = [order EXCEPT ![o] = NoOrder]
    BY <1>5 DEF RejectDraft, AddressByStatus
  <2>2. NoOrder.addr = None
    BY DEF NoOrder
  <2> QED
    BY <1>0, <1>2, <2>1, <2>2
<1>6. CASE CancelOrder(o) \/ runOrderTimeout(o)
  <2>1. PICK rec \in OrderType : /\ SameTerms(order[o], rec) /\ rec.status \in Closed
                                 /\ order' = [order EXCEPT ![o] = rec]
    BY <1>6, OrderCloses
  <2> DEFINE led == [ledger[o] EXCEPT !.BALREL = @ + order[o].bal]
  <2>2. order[o].status \in Open /\ ledger' = [ledger EXCEPT ![o] = led]
    BY <1>6, OrderCloses DEF Release, TypeOK
  <2>3. led.shortfall = ledger[o].shortfall
    BY <1>1 DEF LedgerType
  <2>4. order[o].addr = None \/ order[o].status \in Payable
    BY <2>2 DEF Open, Payable, AddressByStatus
  <2> HIDE DEF led
  <2> QED
    BY <1>0, <2>1, <2>2, <2>3, <2>4, OneMoves DEF SameTerms
<1>7. CASE \E method \in {"balance", "usdt"} : payOrderOnce(o, method)
  BY <1>7, MovesStand DEF payOrderOnce, Moves
<1>8. CASE payWithBalance(o)
  <2> DEFINE rec == [order[o] EXCEPT !.status = "paid"]
             led == [ledger[o] EXCEPT !.PAY = @ + order[o].due]
  <2>1. order' = [order EXCEPT ![o] = rec] /\ ledger' = [ledger EXCEPT ![o] = led]
    BY <1>8 DEF payWithBalance, TypeOK
  <2>2. order[o].addr = None
    BY <1>8 DEF payWithBalance, AddressByStatus
  <2>3. rec.addr = order[o].addr /\ led.shortfall = ledger[o].shortfall
    BY <1>1 DEF OrderType, LedgerType
  <2> HIDE DEF rec, led
  <2> QED
    BY <1>0, <2>1, <2>2, <2>3, OneMoves
<1>9. CASE payWithUSDT(o)
  <2>1. PICK a \in FreeAddresses, rate \in Rates :
          order' = [order EXCEPT ![o].status = "paying", ![o].addr = a,
                                 ![o].watched = TRUE,
                                 ![o].expected = quoteUSDT6(order[o].due, rate),
                                 ![o].fx = rate]
    BY <1>9 DEF payWithUSDT
  <2> DEFINE rec == [order[o] EXCEPT !.status = "paying", !.addr = a, !.watched = TRUE,
                       !.expected = quoteUSDT6(order[o].due, rate), !.fx = rate]
  <2>2. order' = [order EXCEPT ![o] = rec]
    BY <2>1 DEF TypeOK
  <2>3. ledger' = [ledger EXCEPT ![o] = ledger[o]] /\ order[o].addr = None
    BY <1>9 DEF payWithUSDT, TypeOK, AddressByStatus
  <2>4. rec.addr = a /\ rec.status \in Payable
    BY <1>1 DEF OrderType, Payable
  <2> HIDE DEF rec
  <2> QED
    BY <1>0, <2>1, <2>2, <2>3, <2>4, OneMoves
<1>10. CASE PassDeadline(o) \/ WatchEnds(o)
  <2>1. PICK rec \in OrderType : /\ SameTerms(order[o], rec) /\ rec.status = order[o].status
                                 /\ order' = [order EXCEPT ![o] = rec]
    BY <1>10, TimePasses
  <2>2. ledger' = [ledger EXCEPT ![o] = ledger[o]]
    BY <1>10, TimePasses DEF TypeOK
  <2> QED
    BY <1>0, <2>1, <2>2, OneMoves DEF SameTerms
<1> QED
  BY <1>0, <1>3, <1>4, <1>5, <1>6, <1>7, <1>8, <1>9, <1>10
     DEF CreateOrder, PayOrder, Timeout

\* One payments row written as a report or an admin has it: the rows fit.
LEMMA RowFits ==
  ASSUME RowsFit, NEW t \in Transfers, UNCHANGED chain,
         \A u \in Transfers \ {t} : payment'[u] = payment[u] /\ credited'[u] = credited[u],
         payment'[t].addr # None, payment'[t].state \in {"confirming", "paid"},
         \/ /\ payment'[t].by = "scanner" /\ chain[t].st # "absent"
            /\ payment'[t].addr = chain[t].addr /\ payment'[t].amt = chain[t].amt
            /\ payment'[t].state = "paid" => chain[t].st = "solidified"
         \/ payment'[t].by \in Vouched /\ payment'[t].state = "paid"
  PROVE  RowsFit'
<1> SUFFICES ASSUME NEW u \in Transfers
             PROVE  /\ payment'[u].state = "none" =>
                         /\ payment'[u].addr = None /\ payment'[u].by = "none"
                         /\ credited'[u] = 0
                    /\ payment'[u].state # "none" =>
                         payment'[u].addr # None /\ payment'[u].by # "none"
                    /\ payment'[u].state \in {"none", "confirming", "paid"}
                    /\ payment'[u].by = "scanner" =>
                         /\ chain'[u].st # "absent"
                         /\ payment'[u].addr = chain'[u].addr
                         /\ payment'[u].amt = chain'[u].amt
                         /\ payment'[u].state = "paid" => chain'[u].st = "solidified"
                    /\ payment'[u].by \in Vouched => payment'[u].state = "paid"
  BY DEF RowsFit
<1>1. CASE u = t
  BY <1>1 DEF Vouched
<1>2. CASE u # t
  BY <1>2 DEF RowsFit
<1> QED
  BY <1>1, <1>2

\* All orders but the one at the address of the row that is written stand on.
LEMMA OthersStand ==
  ASSUME TypeOK, AllStand, NEW t \in Transfers, NEW a \in Addresses,
         \A p \in Orders : order'[p].addr = order[p].addr,
         \A p \in Orders : order[p].addr # a => order'[p] = order[p] /\ ledger'[p] = ledger[p],
         \A u \in Transfers \ {t} : payment'[u] = payment[u] /\ credited'[u] = credited[u],
         payment[t].addr \in {None, a}, payment'[t].addr = a,
         \A p \in Orders : order[p].addr = a => Standing(p, a)',
         a \in FreeAddresses => CreditedAt(a)' = 0
  PROVE  AllStand'
<1>1. ASSUME NEW b \in Addresses, b # a
      PROVE  /\ Rcv(b)' = Rcv(b) /\ CreditedAt(b)' = CreditedAt(b)
             /\ Booked(b)' = Booked(b) /\ Alone(b)' = Alone(b)
  <2>1. payment[t].addr # b /\ payment'[t].addr # b
    BY <1>1
  <2> QED
    BY <2>1, OtherAddress
<1>2. ASSUME NEW p \in Orders, order'[p].addr = None PROVE ledger'[p].shortfall = 0
  BY <1>2 DEF AllStand
<1>3. ASSUME NEW p \in Orders, NEW b \in Addresses, order'[p].addr = b
      PROVE  Standing(p, b)'
  <2>1. CASE b = a
    BY <1>3, <2>1
  <2>2. CASE b # a
    <3>1. Standing(p, b) /\ order'[p] = order[p] /\ ledger'[p] = ledger[p]
      BY <1>3, <2>2 DEF AllStand
    <3> QED
      BY <1>1, <2>2, <3>1, StandsOn
  <2> QED
    BY <2>1, <2>2
<1>4. ASSUME NEW b \in Addresses, \A p \in Orders : order'[p].addr # b
      PROVE  CreditedAt(b)' = 0
  <2>1. b \in FreeAddresses
    BY <1>4 DEF FreeAddresses
  <2> QED
    BY <1>1, <2>1 DEF AllStand
<1> QED
  BY <1>2, <1>3, <1>4 DEF AllStand, FreeAddresses

\* A Booking gives no order another address.
LEMMA BroughtAddresses ==
  ASSUME TypeOK, Brought, NEW p \in Orders
  PROVE  order'[p].addr = order[p].addr
<1>1. CASE \E o \in Orders : Booking(o)
  <2>1. PICK o \in Orders, rec \in OrderType :
          SameOrder(order[o], rec) /\ order' = [order EXCEPT ![o] = rec]
    BY <1>1 DEF Booking
  <2> QED
    BY <2>1 DEF SameOrder, TypeOK
<1> QED
  BY <1>1 DEF Brought

\* The row of a reported transfer, and its address.
Report(t, solid) ==
  /\ Reported(t, solid)
  /\ chain[t].addr \in Addresses
  /\ UNCHANGED chain
  /\ \A u \in Transfers \ {t} : payment'[u] = payment[u]
  /\ payment[t].addr \in {None, chain[t].addr}
  /\ payment[t].addr = None => credited[t] = 0
  /\ payment[t].addr = chain[t].addr => payment[t].by = "scanner"
  /\ payment[t].state # "paid"
  /\ payment'[t].addr = chain[t].addr /\ payment'[t].amt = chain[t].amt
  /\ payment'[t].state = IF solid THEN "paid" ELSE "confirming"
  /\ payment'[t].by = "scanner"

\* Such a report, when no order has the address.
LEMMA UnclaimedStands ==
  ASSUME IInv, TypeOK', RowsFit, AllStand, NEW t \in Transfers, NEW solid \in BOOLEAN,
         Report(t, solid), chain[t].addr \in FreeAddresses,
         UNCHANGED <<order, ledger, credited>>
  PROVE  RowsFit' /\ AllStand'
<1>9. PICK a \in Addresses : a = chain[t].addr
  BY DEF Report
<1>0. TypeOK /\ a \in Addresses /\ a # None
  BY DEF IInv
<1>1. \A u \in Transfers \ {t} : payment'[u] = payment[u] /\ credited'[u] = credited[u]
  BY DEF Report
<1>2. RowsFit'
  BY <1>0, <1>1, <1>9, RowFits DEF Report, Reported
<1>3. CreditedAt(a)' = 0
  <2>1. CreditedAt(a)' = CreditedAt(a) + credited'[t] - credited[t]
    BY <1>0, <1>1, <1>9, RowWritten DEF Report
  <2>2. CreditedAt(a) = 0 /\ credited[t] \in Nat
    BY <1>0, <1>9 DEF AllStand, TypeOK
  <2> QED
    BY <2>1, <2>2
<1>4. /\ \A p \in Orders : order'[p].addr = order[p].addr
      /\ \A p \in Orders : order[p].addr # a => order'[p] = order[p] /\ ledger'[p] = ledger[p]
      /\ \A p \in Orders : order[p].addr = a => Standing(p, a)'
  BY <1>9 DEF FreeAddresses
<1>5. payment[t].addr \in {None, a} /\ payment'[t].addr = a
  BY <1>9 DEF Report
<1>6. AllStand'
  BY <1>0, <1>1, <1>3, <1>4, <1>5, OthersStand, Zenon
<1> QED
  BY <1>2, <1>6

\* Such a report, when an order is settled by it.
LEMMA ClaimedStands ==
  ASSUME IInv, TypeOK', RowsFit, AllStand, NEW o \in Orders, NEW t \in Transfers,
         NEW solid \in BOOLEAN, Report(t, solid), order[o].addr = chain[t].addr,
         \A p \in Orders : order'[p].addr = order[p].addr,
         NEW rec \in OrderType, NEW led \in LedgerType,
         rec.status = order[o].status, rec.expected = order[o].expected,
         led.shortfall = ledger[o].shortfall,
         Settle(o, t, solid, payment', rec, led)
  PROVE  RowsFit' /\ AllStand'
<1>9. PICK a \in Addresses : a = chain[t].addr
  BY DEF Report
<1>0. TypeOK /\ a \in Addresses /\ a # None
  BY DEF IInv
<1>1. Standing(o, a)
  BY <1>0, <1>9 DEF AllStand
<1>2. /\ Standing(o, a)'
      /\ \A p \in Orders \ {o} : order'[p] = order[p] /\ ledger'[p] = ledger[p]
      /\ \A u \in Transfers \ {t} : credited'[u] = credited[u]
  <2>1. /\ \A u \in Transfers \ {t} : payment'[u] = payment[u]
        /\ payment[t].addr \in {None, a}
        /\ payment[t].addr = None => credited[t] = 0
        /\ payment[t].addr = a => payment[t].by = "scanner"
        /\ payment[t].state # "paid"
        /\ payment'[t].addr = a /\ payment'[t].amt = chain[t].amt
        /\ payment'[t].state = IF solid THEN "paid" ELSE "confirming"
        /\ order[o].addr = a /\ chain[t].addr = a
    BY <1>9 DEF Report
  <2>2. TypeOK /\ a \in Addresses /\ TypeOK' /\ Settle(o, t, solid, payment', rec, led)
    BY <1>0
  <2> QED
    BY <1>1, <2>1, <2>2, SettleStands
<1>3. \A u \in Transfers \ {t} : payment'[u] = payment[u] /\ credited'[u] = credited[u]
  BY <1>2 DEF Report
<1>4. RowsFit'
  BY <1>0, <1>3, <1>9, RowFits DEF Report, Reported
<1>5. /\ \A p \in Orders : order[p].addr # a => order'[p] = order[p] /\ ledger'[p] = ledger[p]
      /\ \A p \in Orders : order[p].addr = a => Standing(p, a)'
  <2>1. \A p \in Orders : order[p].addr = a => p = o
    BY <1>0, <1>9 DEF IInv, AddressNamesOneOrder
  <2> QED
    BY <1>2, <1>9, <2>1
<1>6. payment[t].addr \in {None, a} /\ payment'[t].addr = a /\ a \notin FreeAddresses
  BY <1>9 DEF Report, FreeAddresses
<1>7. AllStand'
  BY <1>0, <1>3, <1>5, <1>6, OthersStand, Zenon
<1> QED
  BY <1>4, <1>7

\* A deposit keeps what was received and credited in balance, at every address.
LEMMA DepositStands ==
  ASSUME IInv, TypeOK', RowsFit, AllStand, NEW t \in Transfers, NEW solid \in BOOLEAN,
         processDeposit(t, solid)
  PROVE  RowsFit' /\ AllStand'
<1>0. TypeOK /\ TransferAddressed
  BY DEF IInv
<1>1. \A p \in Orders : order'[p].addr = order[p].addr
  BY <1>0, DepositBooks, BroughtAddresses
<1>2. chain[t] \in ChainType /\ order \in [Orders -> OrderType]
      /\ ledger \in [Orders -> LedgerType]
      /\ payment \in [Transfers -> PaymentType]
  BY <1>0 DEF TypeOK
<1>3. ASSUME Reported(t, solid) PROVE chain[t].addr \in Addresses
  BY <1>0, <1>2, <1>3 DEF Reported, TransferAddressed, ChainType
<1>4. ASSUME NEW o, Reported(t, solid), payment[t].state = "none", UNCHANGED chain,
             payment' = [payment EXCEPT ![t] =
               [state |-> IF solid THEN "paid" ELSE "confirming", by |-> "scanner",
                addr |-> chain[t].addr, amt |-> chain[t].amt, order |-> o]]
      PROVE  Report(t, solid)
  <2>1. payment[t].addr = None /\ credited[t] = 0
    BY <1>4 DEF RowsFit
  <2>2. chain[t].addr \in Addresses /\ chain[t].addr # None
    BY <1>3, <1>4
  <2> QED
    BY <1>2, <1>4, <2>1, <2>2 DEF Report
<1>5. CASE IngestDeposit(t, solid)
  <2> DEFINE row(o) == [state |-> IF solid THEN "paid" ELSE "confirming", by |-> "scanner",
                        addr |-> chain[t].addr, amt |-> chain[t].amt, order |-> o]
             rows(o) == [payment EXCEPT ![t] = row(o)]
             rec(o) == [order[o] EXCEPT !.ref = IF @ = None THEN TxOf[t] ELSE @]
             cents(o) == usdt6ToCents(chain[t].amt, order[o].fx)
             led(o) == [ledger[o] EXCEPT !.RCV = @ + cents(o)]
  <2>1. PICK o \in Orders : /\ order[o].addr = chain[t].addr
                            /\ payment' = rows(o)
                            /\ Settle(o, t, solid, rows(o), rec(o), led(o))
    BY <1>5 DEF IngestDeposit
  <2>2. Report(t, solid)
    BY <1>4, <1>5, <2>1 DEF IngestDeposit
  <2>3. /\ rec(o) \in OrderType /\ rec(o).status = order[o].status
        /\ rec(o).expected = order[o].expected
    <3>1. order[o] \in OrderType /\ TxOf[t] \in Txids
      BY <1>2 DEF Txids
    <3> QED
      BY <3>1 DEF OrderType
  <2>4. led(o) \in LedgerType /\ led(o).shortfall = ledger[o].shortfall
    <3>1. ledger[o] \in LedgerType /\ order[o] \in OrderType
      BY <1>2
    <3>2. cents(o) \in Nat
      <4>1. chain[t].amt \in Int /\ order[o].fx \in Nat
        BY <1>2, <3>1 DEF ChainType, OrderType
      <4> QED
        BY <4>1, CentsInNat
    <3>3. ledger[o].RCV + cents(o) \in Nat
      BY <3>1, <3>2 DEF LedgerType
    <3> HIDE DEF cents
    <3> QED
      BY <3>1, <3>3 DEF LedgerType
  <2>5. Settle(o, t, solid, payment', rec(o), led(o))
    BY <2>1
  <2> HIDE DEF rec, led, rows
  <2> QED
    BY <1>1, <2>1, <2>2, <2>3, <2>4, <2>5, ClaimedStands
<1>6. CASE QuarantineDeposit(t, solid)
  <2>1. Report(t, solid)
    BY <1>4, <1>6 DEF QuarantineDeposit
  <2> QED
    BY <1>6, <2>1, UnclaimedStands DEF QuarantineDeposit
<1>7. CASE solid /\ promoteSolidifiedDeposit(t)
  <2> DEFINE rows == [payment EXCEPT ![t].state = "paid"]
  <2>1. /\ Reported(t, solid) /\ solid = TRUE /\ payment[t].state = "confirming"
        /\ payment' = rows /\ UNCHANGED chain
    BY <1>7 DEF promoteSolidifiedDeposit
  <2>2. /\ payment[t].by = "scanner" /\ payment[t].addr = chain[t].addr
        /\ payment[t].amt = chain[t].amt
    <3>1. payment[t].by # "none" /\ payment[t].by \notin Vouched
      BY <2>1 DEF RowsFit
    <3>2. payment[t].by = "scanner"
      BY <1>2, <3>1 DEF PaymentType, Vouched
    <3> QED
      BY <3>2 DEF RowsFit
  <2>3. Report(t, solid)
    <3>1. chain[t].addr \in Addresses /\ chain[t].addr # None
      BY <1>3, <2>1
    <3>2. payment'[t] = [payment[t] EXCEPT !.state = "paid"] /\ payment[t] \in PaymentType
      BY <1>2, <2>1
    <3>3. /\ payment'[t].addr = chain[t].addr /\ payment'[t].amt = chain[t].amt
          /\ payment'[t].state = "paid" /\ payment'[t].by = "scanner"
      BY <2>2, <3>2 DEF PaymentType
    <3>4. \A u \in Transfers \ {t} : payment'[u] = payment[u]
      BY <1>2, <2>1
    <3> QED
      BY <2>1, <2>2, <3>1, <3>3, <3>4 DEF Report
  <2>4. CASE chain[t].addr \in FreeAddresses /\ UNCHANGED <<order, wallet, ledger, credited>>
    BY <2>3, <2>4, UnclaimedStands
  <2>5. ASSUME NEW o \in Orders, order[o].addr = chain[t].addr,
               Settle(o, t, TRUE, rows, order[o], ledger[o])
        PROVE  RowsFit' /\ AllStand'
    <3>1. order[o] \in OrderType /\ ledger[o] \in LedgerType
      BY <1>2
    <3>2. Settle(o, t, solid, payment', order[o], ledger[o])
      BY <2>1, <2>5
    <3> HIDE DEF rows
    <3>3. PICK rec \in OrderType, led \in LedgerType : rec = order[o] /\ led = ledger[o]
      BY <3>1
    <3> QED
      BY <1>1, <2>3, <2>5, <3>2, <3>3, ClaimedStands
  <2> QED
    BY <1>7, <2>4, <2>5 DEF promoteSolidifiedDeposit
<1>8. CASE AppendScanner(t, solid)
  <2>1. payment[t].by = "admin" /\ payment' = [payment EXCEPT ![t].by = "admin+scanner"]
        /\ UNCHANGED <<order, ledger, credited, chain>>
    BY <1>8 DEF AppendScanner
  <2>2. payment'[t] = [payment[t] EXCEPT !.by = "admin+scanner"] /\ payment[t] \in PaymentType
        /\ \A u \in Transfers \ {t} : payment'[u] = payment[u]
    BY <1>2, <2>1
  <2>3. /\ payment'[t].addr = payment[t].addr /\ payment'[t].amt = payment[t].amt
        /\ payment'[t].state = payment[t].state /\ payment'[t].by = "admin+scanner"
    BY <2>2 DEF PaymentType
  <2>4. payment[t].state = "paid" /\ payment[t].addr # None
    BY <2>1 DEF RowsFit, Vouched
  <2>5. RowsFit'
    BY <2>1, <2>2, <2>3, <2>4, RowFits DEF Vouched
  <2>6. \A u \in Transfers : /\ payment'[u].addr = payment[u].addr
                             /\ payment'[u].amt = payment[u].amt
                             /\ payment'[u].state = payment[u].state
                             /\ payment'[u].by = "scanner" <=> payment[u].by = "scanner"
    BY <2>1, <2>2, <2>3
  <2>7. ASSUME NEW a
        PROVE  /\ Rcv(a)' = Rcv(a) /\ CreditedAt(a)' = CreditedAt(a)
               /\ Booked(a)' = Booked(a) /\ Alone(a)' = Alone(a)
    <3>1. [u \in Transfers |-> payment'[u].amt] = [u \in Transfers |-> payment[u].amt]
      BY <2>6
    <3>2. Booked(a)' = Booked(a) /\ Alone(a)' = Alone(a)
      BY <2>6 DEF Booked, Alone
    <3>3. Rcv(a)' = SumFunctionOnSet([u \in Transfers |-> payment'[u].amt], Booked(a)')
          /\ Rcv(a) = SumFunctionOnSet([u \in Transfers |-> payment[u].amt], Booked(a))
      BY DEF Rcv, SumReceipts, Booked
    <3>4. CreditedAt(a)' = CreditedAt(a)
      <4>1. {u \in Transfers : payment'[u].addr = a} = {u \in Transfers : payment[u].addr = a}
        BY <2>6
      <4> QED
        BY <2>1, <4>1 DEF CreditedAt
    <3> QED
      BY <3>1, <3>2, <3>3, <3>4
  <2>8. \A p \in Orders, a \in Addresses : Standing(p, a) => Standing(p, a)'
    BY <2>1, <2>7, StandsOn
  <2>9. AllStand'
    <3>1. FreeAddresses' = FreeAddresses
      BY <2>1 DEF FreeAddresses
    <3> QED
      BY <2>1, <2>7, <2>8, <3>1 DEF AllStand
  <2> QED
    BY <2>5, <2>9
<1> QED
  BY <1>5, <1>6, <1>7, <1>8 DEF processDeposit

\* D6: what an admin vouches for is what the order expects.
LEMMA MarkPaidStands ==
  ASSUME IInv, TypeOK', RowsFit, AllStand, NEW o \in Orders, NEW t \in Transfers,
         adminMarkOrderPaid(o, t)
  PROVE  RowsFit' /\ AllStand'
<1> DEFINE cents == usdt6ToCents(order[o].expected, order[o].fx)
<1>0. TypeOK /\ AddressByStatus /\ order[o] \in OrderType /\ ledger[o] \in LedgerType
  BY DEF IInv, TypeOK
<1>1. PICK a \in Addresses : a = order[o].addr /\ a # None
  BY <1>0 DEF adminMarkOrderPaid, AddressByStatus, OrderType
<1>2. \A p \in Orders : order'[p].addr = order[p].addr
  BY <1>0, MarkPaidBooks, BroughtAddresses
<1>3. /\ payment' = [payment EXCEPT ![t] =
           [state |-> "paid", by |-> "admin", addr |-> order[o].addr,
            amt |-> order[o].expected, order |-> o]]
      /\ payment[t].state = "none" /\ order[o].status \in Payable
      /\ UNCHANGED <<credited, chain>>
  BY DEF adminMarkOrderPaid
<1>4. /\ payment'[t].state = "paid" /\ payment'[t].by = "admin" /\ payment'[t].addr = a
      /\ payment'[t].amt = order[o].expected
      /\ \A u \in Transfers \ {t} : payment'[u] = payment[u] /\ credited'[u] = credited[u]
  BY <1>0, <1>1, <1>3 DEF TypeOK
<1>5. payment[t].addr = None /\ credited[t] = 0 /\ payment[t].state # "paid"
  BY <1>3 DEF RowsFit
<1>6. RowsFit'
  BY <1>1, <1>3, <1>4, RowFits DEF Vouched
<1>7. /\ order'[o].status = "paid" /\ order'[o].expected = order[o].expected
      /\ ledger'[o].shortfall = ledger[o].shortfall
      /\ \A p \in Orders \ {o} : order'[p] = order[p] /\ ledger'[p] = ledger[p]
  BY <1>0 DEF adminMarkOrderPaid, TypeOK, OrderType, LedgerType
<1>8. Standing(o, a)'
  <2>1. ledger[o].shortfall = 0 /\ CreditedAt(a) = 0 /\ Rcv(a) \in Nat
        /\ order[o].expected \in Nat
    BY <1>0, <1>1, <1>3, BookedSum DEF AllStand, Standing, OrderType
  <2>2. Rcv(a)' = Rcv(a) + order[o].expected
        /\ CreditedAt(a)' = CreditedAt(a) + credited'[t] - credited[t]
    BY <1>0, <1>1, <1>4, <1>5, RowWritten
  <2>3. CreditedAt(a)' = 0 /\ Rcv(a)' >= order[o].expected
    BY <1>3, <1>5, <2>1, <2>2
  <2>4. KeptBy(o)' = order[o].expected /\ ledger'[o].shortfall = 0
    BY <1>7, <2>1 DEF KeptBy
  <2>5. ~Alone(a)'
    BY <1>4 DEF Alone
  <2>6. order'[o].status \notin Payable
    BY <1>7 DEF Payable
  <2>7. ledger'[o].shortfall \in 0 .. Writeoff /\ KeptBy(o)' + CreditedAt(a)' <= Rcv(a)'
    BY <2>1, <2>2, <2>3, <2>4
  <2> QED
    BY <2>5, <2>6, <2>7 DEF Standing
<1>9. /\ \A p \in Orders : order[p].addr = a => p = o
      /\ a \notin FreeAddresses
  BY <1>1 DEF IInv, AddressNamesOneOrder, FreeAddresses
<1>10. /\ \A p \in Orders : order[p].addr # a => order'[p] = order[p] /\ ledger'[p] = ledger[p]
       /\ \A p \in Orders : order[p].addr = a => Standing(p, a)'
  BY <1>1, <1>7, <1>8, <1>9
<1>11. payment[t].addr \in {None, a}
  BY <1>5
<1>12. AllStand'
  BY <1>0, <1>2, <1>4, <1>9, <1>10, <1>11, OthersStand, Zenon
<1> QED
  BY <1>6, <1>12

\* The chain moves no money of ours, and no row stops fitting by it.
LEMMA ChainStands ==
  ASSUME TypeOK, RowsFit, AllStand, NEW tx \in Txids, Chain(tx)
  PROVE  RowsFit' /\ AllStand'
<1>1. UNCHANGED <<order, ledger, payment, credited>>
  BY DEF Chain, Broadcast, Finalise, Environment
<1>2. AllStand'
  <2>1. \A p \in Orders : Moves(p)
    BY <1>1 DEF Moves
  <2> QED
    BY <1>1, <2>1, MovesStand
<1>3. \A t \in Transfers : chain[t].st # "absent" =>
        /\ chain'[t].st # "absent"
        /\ chain'[t].addr = chain[t].addr /\ chain'[t].amt = chain[t].amt
        /\ chain[t].st = "solidified" => chain'[t].st = "solidified"
  <2> SUFFICES ASSUME NEW t \in Transfers, chain[t].st # "absent"
               PROVE  /\ chain'[t].st # "absent"
                      /\ chain'[t].addr = chain[t].addr /\ chain'[t].amt = chain[t].amt
                      /\ chain[t].st = "solidified" => chain'[t].st = "solidified"
    OBVIOUS
  <2>1. CASE Broadcast(tx)
    BY <2>1 DEF Broadcast, In
  <2>2. ASSUME NEW st \in {"solidified", "orphaned"}, Finalise(tx, st)
        PROVE  /\ chain'[t].st # "absent"
               /\ chain'[t].addr = chain[t].addr /\ chain'[t].amt = chain[t].amt
               /\ chain[t].st = "solidified" => chain'[t].st = "solidified"
    <3>1. CASE t \in In(tx)
      <4>1. chain'[t] = [chain[t] EXCEPT !.st = st] /\ chain[t].st = "confirming"
        BY <2>2, <3>1 DEF Finalise
      <4> QED
        BY <4>1
    <3>2. CASE t \notin In(tx)
      BY <2>2, <3>2 DEF Finalise
    <3> QED
      BY <3>1, <3>2
  <2> QED
    BY <2>1, <2>2 DEF Chain
<1>4. RowsFit'
  BY <1>1, <1>3 DEF RowsFit
<1> QED
  BY <1>2, <1>4

\* Nothing is received at first.
LEMMA StandInit == Init => RowsFit /\ AllStand
<1> SUFFICES ASSUME Init PROVE RowsFit /\ AllStand
  OBVIOUS
<1>1. RowsFit
  BY DEF Init, RowsFit, NoPayment, Vouched
<1>2. ASSUME NEW a \in Addresses PROVE CreditedAt(a) = 0
  <2> DEFINE at == {t \in Transfers : payment[t].addr = a}
  <2>1. IsFiniteSet(at) /\ \A t \in at : credited[t] = 0
    BY FS_Subset DEF Init
  <2>2. SumFunctionOnSet(credited, at) = 0
    <3> HIDE DEF at
    <3> QED
      BY <2>1, SumZero
  <2> QED
    BY <2>2 DEF CreditedAt
<1>3. \A o \in Orders : order[o].addr = None /\ ledger[o].shortfall = 0
  BY DEF Init, NoOrder, NoEntries
<1> QED
  BY <1>1, <1>2, <1>3 DEF AllStand, FreeAddresses

\* Every step keeps it in balance.
LEMMA StandStep ==
  IInv /\ IInv' /\ RowsFit /\ AllStand /\ [Next]_vars => RowsFit' /\ AllStand'
<1> SUFFICES ASSUME IInv, IInv', RowsFit, AllStand, [Next]_vars
             PROVE  RowsFit' /\ AllStand'
  OBVIOUS
<1>0. TypeOK /\ AddressByStatus /\ TypeOK'
  BY DEF IInv
<1>1. ASSUME NEW o \in Orders, CreateOrder(o) \/ CancelOrder(o) \/ PayOrder(o) \/ Timeout(o)
      PROVE  RowsFit' /\ AllStand'
  <2>1. AllStand' /\ UNCHANGED <<payment, credited, chain>>
    BY <1>0, <1>1, HandlerStands
  <2> QED
    BY <2>1 DEF RowsFit
<1>2. ASSUME NEW tx \in Txids, Chain(tx) PROVE RowsFit' /\ AllStand'
  BY <1>0, <1>2, ChainStands
<1>3. ASSUME NEW t \in Transfers, NEW solid \in BOOLEAN, processDeposit(t, solid)
      PROVE  RowsFit' /\ AllStand'
  BY <1>0, <1>3, DepositStands
<1>4. ASSUME NEW o \in Orders, NEW t \in Transfers, adminMarkOrderPaid(o, t)
      PROVE  RowsFit' /\ AllStand'
  BY <1>0, <1>4, MarkPaidStands
<1>5. CASE UNCHANGED vars
  <2>1. \A p \in Orders : Moves(p)
    BY <1>5 DEF vars, Moves
  <2>2. AllStand'
    BY <1>0, <1>5, <2>1, MovesStand DEF vars
  <2> QED
    BY <1>5, <2>2 DEF vars, RowsFit
<1> QED
  BY <1>1, <1>2, <1>3, <1>4, <1>5 DEF Next

\* How the orders stand, taken together, is MoneyInv.
LEMMA StandsMoney == TypeOK /\ RowsFit /\ AllStand => MoneyInv
<1> SUFFICES ASSUME TypeOK, RowsFit, AllStand PROVE MoneyInv
  OBVIOUS
<1>0. \A o \in Orders : order[o] \in OrderType
  BY DEF TypeOK
<1>1. ASSUME NEW a \in Addresses, \A o \in Orders : order[o].addr = a => order[o].status \in Payable
      PROVE  CreditedAt(a) = 0
  <2>1. CASE a \in FreeAddresses
    BY <2>1 DEF AllStand
  <2>2. ASSUME NEW o \in Orders, order[o].addr = a PROVE CreditedAt(a) = 0
    BY <1>1, <2>2 DEF AllStand, Standing
  <2> QED
    BY <2>1, <2>2 DEF FreeAddresses
<1>2. ASSUME NEW o \in Orders, order[o].addr # None
      PROVE  \E a \in Addresses : a = order[o].addr /\ Standing(o, a)
  <2>1. order[o].addr \in Addresses
    BY <1>0, <1>2 DEF OrderType
  <2> QED
    BY <2>1 DEF AllStand
<1>3. NothingEarly
  <2>1. \A o \in Orders : order[o].addr = None \/ order[o].status \in Payable
                            => ledger[o].shortfall = 0
    BY <1>2 DEF AllStand, Standing
  <2> QED
    BY <1>1, <2>1 DEF NothingEarly
<1>4. Covered
  BY <1>2 DEF Covered, Standing, Rcv
<1>5. OverpayReturned
  <2> SUFFICES ASSUME NEW o \in Orders,
                      order[o].status = "paid", order[o].addr # None,
                      \A t \in Transfers : payment[t].addr = order[o].addr
                                             => payment[t].by = "scanner"
               PROVE  \A n \in Worthwhile(SumReceipts(payment, order[o].addr, "paid")) :
                        SumReceipts(payment, order[o].addr, "paid")
                          - KeptBy(o) - CreditedAt(order[o].addr)
                        <= OverpayIgnore + Cardinality(Booked(order[o].addr)) * (n - 1)
    BY DEF OverpayReturned
  <2>1. PICK a \in Addresses : a = order[o].addr /\ Standing(o, a)
    BY <1>2
  <2>2. Alone(a)
    BY <2>1 DEF Alone
  <2>3. \A n \in Worthwhile(Rcv(a)) : Rcv(a) - KeptBy(o) - CreditedAt(a)
                                <= OverpayIgnore + Cardinality(Booked(a)) * (n - 1)
    BY <2>1, <2>2 DEF Standing
  <2> QED
    BY <2>1, <2>3 DEF Rcv
<1> QED
  BY <1>3, <1>4, <1>5 DEF MoneyInv

\* What is booked as received really arrived, or an admin vouched for it.
LEMMA BookedIsReal ==
  ASSUME TypeOK, RowsFit, NEW a
  PROVE  Rcv(a) <= RealReceipts(a)
<1> DEFINE amt == [t \in Transfers |-> payment[t].amt]
           sent == [t \in Transfers |-> chain[t].amt]
           seen == {t \in Booked(a) : payment[t].by = "scanner"}
           told == {t \in Transfers : payment[t].addr = a /\ payment[t].by \in Vouched}
           solid == {t \in Transfers : chain[t].st = "solidified" /\ chain[t].addr = a
                                       /\ payment[t].by \in {"none", "scanner"}}
<1>0. \A t \in Transfers : amt[t] \in Nat /\ sent[t] \in Nat /\ payment[t] \in PaymentType
  BY DEF TypeOK, PaymentType, ChainType
<1>1. Booked(a) = seen \cup told /\ seen \cap told = {}
  <2>1. \A t \in Booked(a) : payment[t].by \in {"scanner"} \cup Vouched
    BY <1>0 DEF Booked, RowsFit, PaymentType, Vouched
  <2>2. told \subseteq Booked(a) /\ "scanner" \notin Vouched
    BY DEF Booked, RowsFit, Vouched
  <2> QED
    BY <2>1, <2>2 DEF Booked
<1>2. seen \subseteq solid /\ solid \subseteq Transfers /\ told \subseteq Transfers
      /\ \A t \in seen : amt[t] = sent[t]
  BY DEF Booked, RowsFit
<1>3. IsFiniteSet(seen) /\ IsFiniteSet(told) /\ IsFiniteSet(solid)
  <2>1. seen \subseteq Transfers
    BY <1>2
  <2> QED
    BY <1>2, <2>1, FS_Subset
<1>4. Rcv(a) = SumFunctionOnSet(amt, Booked(a))
  BY DEF Rcv, SumReceipts, Booked
<1>5. RealReceipts(a) = SumFunctionOnSet(sent, solid) + SumFunctionOnSet(amt, told)
  BY DEF RealReceipts
<1> HIDE DEF amt, sent, seen, told, solid
<1>6. SumFunctionOnSet(amt, Booked(a)) = SumFunctionOnSet(amt, seen) + SumFunctionOnSet(amt, told)
  <2>1. \A t \in seen \cup told : amt[t] \in Int
    BY <1>0, <1>2
  <2> QED
    BY <1>1, <1>3, <2>1, SumUnion
<1>7. SumFunctionOnSet(amt, seen) = SumFunctionOnSet(sent, seen)
  BY <1>2, <1>3, SumAgree
<1>8. SumFunctionOnSet(sent, seen) <= SumFunctionOnSet(sent, solid)
  <2>1. \A t \in solid : sent[t] \in Nat /\ sent[t] <= sent[t]
    BY <1>0, <1>2
  <2> QED
    BY <1>2, <1>3, <2>1, SumMonotone
<1>9. /\ SumFunctionOnSet(sent, seen) \in Nat /\ SumFunctionOnSet(sent, solid) \in Nat
      /\ SumFunctionOnSet(amt, told) \in Nat
  <2>1. /\ \A t \in seen : sent[t] \in Nat
        /\ \A t \in solid : sent[t] \in Nat
        /\ \A t \in told : amt[t] \in Nat
    BY <1>0, <1>2
  <2> QED
    BY <1>3, <2>1, SumNat
<1> QED
  BY <1>4, <1>5, <1>6, <1>7, <1>8, <1>9

\* In balance, no unit of a transfer is spent twice.
LEMMA MoneyUnspent == TypeOK /\ RowsFit /\ AllStand => NoUnitSpentTwice
<1> SUFFICES ASSUME TypeOK, RowsFit, AllStand, NEW o \in Orders, order[o].addr # None
             PROVE  /\ KeptBy(o) + CreditedAt(order[o].addr) <= RealReceipts(order[o].addr)
                    /\ ledger[o].shortfall \in 0 .. Writeoff
  BY DEF NoUnitSpentTwice
<1>1. PICK a \in Addresses : a = order[o].addr
  BY DEF TypeOK, OrderType
<1>2. /\ KeptBy(o) + CreditedAt(a) <= Rcv(a) /\ ledger[o].shortfall \in 0 .. Writeoff
  BY <1>1 DEF AllStand, Standing
<1>3. Rcv(a) <= RealReceipts(a)
  BY BookedIsReal
<1>4. KeptBy(o) \in Int /\ CreditedAt(a) \in Int /\ Rcv(a) \in Int
  <2>1. order[o].expected \in Int /\ ledger[o].shortfall \in Int
    BY DEF TypeOK, OrderType, LedgerType
  <2>2. KeptBy(o) \in Int
    BY <2>1 DEF KeptBy
  <2>3. CreditedAt(a) \in Nat /\ Rcv(a) \in Nat
    BY BookedSum
  <2> QED
    BY <2>2, <2>3
<1>5. RealReceipts(a) \in Int
  <2> DEFINE amt == [t \in Transfers |-> payment[t].amt]
             sent == [t \in Transfers |-> chain[t].amt]
             told == {t \in Transfers : payment[t].addr = a /\ payment[t].by \in Vouched}
             solid == {t \in Transfers : chain[t].st = "solidified" /\ chain[t].addr = a
                                         /\ payment[t].by \in {"none", "scanner"}}
  <2>1. IsFiniteSet(told) /\ IsFiniteSet(solid)
    BY FS_Subset
  <2>2. (\A t \in told : amt[t] \in Int) /\ (\A t \in solid : sent[t] \in Int)
    BY DEF TypeOK, PaymentType, ChainType
  <2>3. RealReceipts(a) = SumFunctionOnSet(sent, solid) + SumFunctionOnSet(amt, told)
    BY DEF RealReceipts
  <2> HIDE DEF amt, sent, told, solid
  <2>4. SumFunctionOnSet(sent, solid) \in Int /\ SumFunctionOnSet(amt, told) \in Int
    BY <2>1, <2>2, SumInt
  <2> QED
    BY <2>3, <2>4
<1> QED
  BY <1>1, <1>2, <1>3, <1>4, <1>5

\* MoneyInv, and behind it how every order stands, holds throughout.
THEOREM MoneyStands == Spec => [](IInv /\ RowsFit /\ AllStand)
<1>1. Spec => []IInv
  BY Invariance
<1>2. IInv /\ IInv' /\ RowsFit /\ AllStand /\ [Next]_vars => RowsFit' /\ AllStand'
  BY StandStep
<1> QED
  BY <1>1, <1>2, StandInit, PTL DEF Spec

\* However reports are repeated, late or overtaken by a reorganisation, and
\* whatever the order goes through meanwhile, what it consumed and what was
\* credited to a wallet never exceed what really reached its address.
THEOREM NothingSpentTwice == Spec => []NoUnitSpentTwice
<1>1. IInv /\ RowsFit /\ AllStand => NoUnitSpentTwice
  BY MoneyUnspent DEF IInv
<1> QED
  BY <1>1, MoneyStands, PTL

\* What exceeds the amount a paid order is due goes back to its owner's
\* wallet, but for the ignored excess and less than a cent per receipt.
THEOREM ExcessReturned == Spec => []OverpayReturned
<1>1. IInv /\ RowsFit /\ AllStand => OverpayReturned
  BY StandsMoney DEF IInv, MoneyInv
<1> QED
  BY <1>1, MoneyStands, PTL

-----------------------------------------------------------------------------
(***************************************************************************)
(* Payments implements Escrow, for every value of its constants: every     *)
(* step of a handler is a step of Escrow or leaves its variables alone.    *)
(***************************************************************************)

\* A step that writes one order and its entries moves Escrow's view of that
\* order and of no other.
LEMMA ViewOfOne ==
  ASSUME TypeOK, NEW o \in Orders, NEW rec, NEW led,
         order' = [order EXCEPT ![o] = rec], ledger' = [ledger EXCEPT ![o] = led]
  PROVE  /\ phase' = [phase EXCEPT ![o] = Phase(rec.status)]
         /\ held' = [held EXCEPT ![o] = Held(led)]
BY DEF TypeOK, phase, held

\* One that leaves the entries and the phase alone changes nothing of it.
LEMMA ViewKept ==
  ASSUME TypeOK, NEW o \in Orders, NEW rec,
         order' = [order EXCEPT ![o] = rec], UNCHANGED <<wallet, ledger>>,
         Phase(rec.status) = Phase(order[o].status)
  PROVE  UNCHANGED <<wallet, phase, held>>
<1>1. \A p \in Orders : Phase(order'[p].status) = Phase(order[p].status)
  BY DEF TypeOK
<1> QED
  BY <1>1 DEF phase, held

\* The phases of the abstract escrow, by status.
LEMMA PhaseCases ==
  ASSUME NEW status
  PROVE  /\ status \in {"none", "draft"} => Phase(status) = "none"
         /\ status \in Open => Phase(status) = "open"
         /\ status \in Closed => Phase(status) = "returned"
         /\ status = "paid" => Phase(status) = "kept"
BY DEF Phase, Open, Closed

\* What an order holds: its balance while it is open, and nothing once it
\* was given back.
LEMMA HeldByPhase ==
  ASSUME TypeOK, HoldSettledOnce, AddressByStatus, NEW o \in Orders
  PROVE  /\ order[o].status \in {"none", "draft"} => held[o] = 0
         /\ order[o].status \in Open => held[o] = order[o].bal
<1>1. HoldSettled(order[o], ledger[o]) /\ order[o] \in OrderType /\ ledger[o] \in LedgerType
  BY HoldPerOrder DEF TypeOK
<1>2. held[o] = ledger[o].BALHOLD - ledger[o].BALREL + ledger[o].PAY
  BY DEF held, Held
<1>3. order[o].bal \in Nat
  BY <1>1 DEF OrderType
<1> QED
  BY <1>1, <1>2, <1>3 DEF HoldSettled, Open, Closed

\* The first state is a first state of the escrow.
LEMMA ViewInit == Init => Abstract!Init
<1> SUFFICES ASSUME Init PROVE Abstract!Init
  OBVIOUS
<1>1. phase = [o \in Orders |-> "none"]
  BY PhaseCases DEF Init, phase, NoOrder
<1>2. held = [o \in Orders |-> 0]
  BY DEF Init, held, Held, NoEntries
<1> QED
  BY <1>1, <1>2 DEF Init, Abstract!Init

\* Bookings are deposits: the order may become kept, its wallet may grow.
LEMMA BookingDeposits ==
  ASSUME TypeOK, AddressByStatus, NEW o \in Orders, Booking(o)
  PROVE  \E n \in 0 .. Int64Max : Abstract!Deposit(o, n)
<1>1. PICK rec \in OrderType, led \in LedgerType, n \in 0 .. Int64Max :
        /\ SameOrder(order[o], rec) /\ SameHolds(ledger[o], led)
        /\ order[o].addr # None
        /\ order' = [order EXCEPT ![o] = rec]
        /\ ledger' = [ledger EXCEPT ![o] = led]
        /\ wallet' = [wallet EXCEPT ![Owner[o]] = @ + n]
  BY DEF Booking
<1>2. /\ phase' = [phase EXCEPT ![o] = Phase(rec.status)]
      /\ held' = [held EXCEPT ![o] = Held(led)]
  BY <1>1, ViewOfOne
<1>3. phase[o] = Phase(order[o].status) /\ held[o] = Held(ledger[o])
  BY DEF phase, held
<1>4. held' = held
  BY <1>1, <1>2, <1>3 DEF SameHolds, Held, held
<1>5. phase[o] # "none"
  <2>1. order[o].status \in Open \cup Closed \cup {"paid"}
    BY <1>1 DEF AddressByStatus, TypeOK, OrderType, Statuses
  <2> QED
    BY <1>3, <2>1, PhaseCases
<1>6. phase' = phase \/ (phase[o] = "open" /\ phase' = [phase EXCEPT ![o] = "kept"])
  <2>1. CASE rec.status = order[o].status
    BY <1>2, <1>3, <2>1 DEF phase
  <2>2. CASE order[o].status \in Payable /\ rec.status = "underpaid"
    <3>1. Phase(rec.status) = "open" /\ phase[o] = "open"
      BY <1>3, <2>2, PhaseCases DEF Open, Payable
    <3> QED
      BY <1>2, <3>1 DEF phase
  <2>3. CASE order[o].status \in Payable /\ rec.status = "paid"
    <3>1. Phase(rec.status) = "kept" /\ phase[o] = "open"
      BY <1>3, <2>3, PhaseCases DEF Open, Payable
    <3> QED
      BY <1>2, <3>1
  <2> QED
    BY <1>1, <2>1, <2>2, <2>3 DEF SameOrder
<1> QED
  BY <1>1, <1>4, <1>5, <1>6 DEF Abstract!Deposit

\* Every step is one of the escrow, or none that it sees.
LEMMA ViewStep ==
  IInv /\ [Next]_vars => [Abstract!Next]_(Abstract!vars)
<1> SUFFICES ASSUME IInv, [Next]_vars
             PROVE  Abstract!Next \/ UNCHANGED <<wallet, phase, held>>
  BY DEF Abstract!vars
<1> USE DEF IInv
<1>0. \A o \in Orders : /\ order[o] \in OrderType /\ ledger[o] \in LedgerType
                        /\ wallet[Owner[o]] \in Nat
                        /\ phase[o] = Phase(order[o].status)
                        /\ held[o] = Held(ledger[o])
  BY DEF TypeOK, phase, held
<1>1. ASSUME NEW o \in Orders, CreateOrder(o)
      PROVE  Abstract!Next \/ UNCHANGED <<wallet, phase, held>>
  <2>1. CASE BuildDraft(o)
    <3>1. PICK rec \in OrderType : rec.status = "draft" /\ order' = [order EXCEPT ![o] = rec]
      BY <2>1, DraftType
    <3>2. order[o].status \in {"none", "draft"} /\ UNCHANGED <<wallet, ledger>>
      BY <2>1 DEF BuildDraft
    <3>3. Phase(rec.status) = Phase(order[o].status)
      BY <3>1, <3>2, PhaseCases
    <3> QED
      BY <3>1, <3>2, <3>3, ViewKept
  <2>2. CASE WriteOrder(o)
    <3> DEFINE rec == [order[o] EXCEPT !.status = "pending"]
               led == [ledger[o] EXCEPT !.BALHOLD = @ + order[o].bal]
    <3>1. /\ order' = [order EXCEPT ![o] = rec] /\ ledger' = [ledger EXCEPT ![o] = led]
          /\ wallet' = [wallet EXCEPT ![Owner[o]] = @ - order[o].bal]
      BY <2>2 DEF WriteOrder, TypeOK
    <3>2. order[o].bal \in Nat /\ order[o].bal \in 0 .. wallet[Owner[o]]
      BY <1>0, <2>2 DEF WriteOrder, OrderType
    <3>3. Phase(rec.status) = "open" /\ phase[o] = "none"
      BY <1>0, <2>2, PhaseCases DEF WriteOrder, Open, OrderType
    <3>4. Held(led) = held[o] + order[o].bal
      BY <1>0, <3>2 DEF Held, LedgerType
    <3> HIDE DEF rec, led
    <3>5. /\ phase' = [phase EXCEPT ![o] = "open"]
          /\ held' = [held EXCEPT ![o] = held[o] + order[o].bal]
      BY <3>1, <3>3, <3>4, ViewOfOne
    <3>6. Abstract!Create(o, order[o].bal)
      BY <3>1, <3>2, <3>3, <3>5 DEF Abstract!Create, Abstract!Take
    <3> QED
      BY <3>2, <3>6 DEF Abstract!Next
  <2>3. CASE RejectDraft(o)
    <3>1. NoOrder.status \in {"none", "draft"}
      BY DEF NoOrder
    <3>2. /\ order[o].status \in {"none", "draft"} /\ UNCHANGED <<wallet, ledger>>
          /\ order' = [order EXCEPT ![o] = NoOrder]
      BY <2>3 DEF RejectDraft
    <3>3. Phase(NoOrder.status) = Phase(order[o].status)
      BY <3>1, <3>2, PhaseCases
    <3> QED
      BY <3>2, <3>3, ViewKept
  <2> QED
    BY <1>1, <2>1, <2>2, <2>3 DEF CreateOrder
<1>2. ASSUME NEW o \in Orders, CancelOrder(o) \/ runOrderTimeout(o)
      PROVE  Abstract!Next
  <2>1. PICK rec \in OrderType : rec.status \in Closed /\ order' = [order EXCEPT ![o] = rec]
    BY <1>2, OrderCloses
  <2> DEFINE led == [ledger[o] EXCEPT !.BALREL = @ + order[o].bal]
  <2>2. /\ order[o].status \in Open /\ ledger' = [ledger EXCEPT ![o] = led]
        /\ wallet' = [wallet EXCEPT ![Owner[o]] = @ + order[o].bal]
    BY <1>2, OrderCloses DEF Release, TypeOK
  <2>3. order[o].bal \in Nat /\ held[o] = order[o].bal
    BY <1>0, <2>2, HeldByPhase DEF OrderType
  <2>4. Phase(rec.status) = "returned" /\ phase[o] = "open"
    BY <1>0, <2>1, <2>2, PhaseCases DEF OrderType
  <2>5. Held(led) = 0
    BY <1>0, <2>3 DEF Held, LedgerType
  <2> HIDE DEF led
  <2>6. phase' = [phase EXCEPT ![o] = "returned"] /\ held' = [held EXCEPT ![o] = 0]
    BY <2>1, <2>2, <2>4, <2>5, ViewOfOne
  <2> QED
    BY <2>2, <2>3, <2>4, <2>6 DEF Abstract!Next, Abstract!Return
<1>3. ASSUME NEW o \in Orders, PayOrder(o)
      PROVE  Abstract!Next \/ UNCHANGED <<wallet, phase, held>>
  <2>1. CASE \E method \in {"balance", "usdt"} : payOrderOnce(o, method)
    BY <2>1 DEF payOrderOnce, phase, held
  <2>2. CASE payWithBalance(o)
    <3> DEFINE rec == [order[o] EXCEPT !.status = "paid"]
               led == [ledger[o] EXCEPT !.PAY = @ + order[o].due]
    <3>1. /\ order' = [order EXCEPT ![o] = rec] /\ ledger' = [ledger EXCEPT ![o] = led]
          /\ wallet' = [wallet EXCEPT ![Owner[o]] = @ - order[o].due]
      BY <2>2 DEF payWithBalance, TypeOK
    <3>2. order[o].due \in Nat /\ order[o].due \in 0 .. wallet[Owner[o]]
      BY <1>0, <2>2 DEF payWithBalance, OrderType
    <3>3. Phase(rec.status) = "kept" /\ phase[o] = "open"
      BY <1>0, <2>2, PhaseCases DEF payWithBalance, Open, OrderType
    <3>4. Held(led) = held[o] + order[o].due
      BY <1>0, <3>2 DEF Held, LedgerType
    <3> HIDE DEF rec, led
    <3>5. /\ phase' = [phase EXCEPT ![o] = "kept"]
          /\ held' = [held EXCEPT ![o] = held[o] + order[o].due]
      BY <3>1, <3>3, <3>4, ViewOfOne
    <3>6. Abstract!Pay(o, order[o].due)
      BY <3>1, <3>2, <3>3, <3>5 DEF Abstract!Pay, Abstract!Take
    <3> QED
      BY <3>2, <3>6 DEF Abstract!Next
  <2>3. CASE payWithUSDT(o)
    <3>1. PICK a \in Addresses, rate \in Rates :
            order' = [order EXCEPT ![o].status = "paying", ![o].addr = a,
                                   ![o].watched = TRUE,
                                   ![o].expected = quoteUSDT6(order[o].due, rate),
                                   ![o].fx = rate]
      BY <2>3 DEF payWithUSDT, FreeAddresses
    <3> DEFINE rec == [order[o] EXCEPT !.status = "paying", !.addr = a, !.watched = TRUE,
                         !.expected = quoteUSDT6(order[o].due, rate), !.fx = rate]
    <3>2. order' = [order EXCEPT ![o] = rec] /\ UNCHANGED <<wallet, ledger>>
      BY <2>3, <3>1 DEF payWithUSDT, TypeOK
    <3>3. Phase(rec.status) = Phase(order[o].status)
      BY <1>0, <2>3, PhaseCases DEF payWithUSDT, Open, OrderType
    <3> HIDE DEF rec
    <3> QED
      BY <3>2, <3>3, ViewKept
  <2> QED
    BY <1>3, <2>1, <2>2, <2>3 DEF PayOrder
<1>4. ASSUME NEW o \in Orders, PassDeadline(o) \/ WatchEnds(o)
      PROVE  UNCHANGED <<wallet, phase, held>>
  <2>1. PICK rec \in OrderType : rec.status = order[o].status /\ order' = [order EXCEPT ![o] = rec]
    BY <1>4, TimePasses
  <2>2. Phase(rec.status) = Phase(order[o].status) /\ UNCHANGED <<wallet, ledger>>
    BY <1>4, <2>1, TimePasses
  <2> QED
    BY <2>1, <2>2, ViewKept
<1>5. ASSUME NEW tx \in Txids, Chain(tx) PROVE UNCHANGED <<wallet, phase, held>>
  BY <1>5 DEF Chain, Broadcast, Finalise, Environment, phase, held
<1>6. ASSUME Brought PROVE Abstract!Next \/ UNCHANGED <<wallet, phase, held>>
  <2>1. CASE \E o \in Orders : Booking(o)
    BY <2>1, BookingDeposits DEF Abstract!Next
  <2>2. CASE UNCHANGED <<order, ledger, wallet>>
    BY <2>2 DEF phase, held
  <2> QED
    BY <1>6, <2>1, <2>2 DEF Brought
<1>7. ASSUME NEW t \in Transfers, NEW solid \in BOOLEAN, processDeposit(t, solid)
      PROVE  Abstract!Next \/ UNCHANGED <<wallet, phase, held>>
  BY <1>6, <1>7, DepositBooks
<1>8. ASSUME NEW o \in Orders, NEW t \in Transfers, adminMarkOrderPaid(o, t)
      PROVE  Abstract!Next \/ UNCHANGED <<wallet, phase, held>>
  BY <1>6, <1>8, MarkPaidBooks
<1>9. CASE UNCHANGED vars
  BY <1>9 DEF vars, phase, held
<1> QED
  BY <1>1, <1>2, <1>3, <1>4, <1>5, <1>7, <1>8, <1>9 DEF Next, Timeout

\* The handlers of orders, deposits and the timeout task together keep the
\* promise of Escrow: an order's money is kept or given back whole, once.
THEOREM ImplementsEscrow == Spec => KeepsEscrow
<1>1. Init => Abstract!Init
  BY ViewInit
<1>2. Spec => []IInv
  BY Invariance
<1>3. IInv /\ [Next]_vars => [Abstract!Next]_(Abstract!vars)
  BY ViewStep
<1> QED
  BY <1>1, <1>2, <1>3, PTL DEF Spec, KeepsEscrow, Abstract!Spec
-----------------------------------------------------------------------------
(* The promise of Inbox. It sees the chain and the payments rows; a row    *)
(* that an admin vouched for stays one, whatever reports of it come later. *)

\* Where one row changes, only what it says does.
LEMMA SaidOfOne ==
  ASSUME TypeOK, NEW t \in Transfers, NEW r, payment' = [payment EXCEPT ![t] = r]
  PROVE  said' = [said EXCEPT ![t] = IF r.by \in Vouched THEN "vouched" ELSE r.state]
BY DEF said, TypeOK

\* What a row says before it is there, and while it is confirming.
LEMMA SaidBefore ==
  ASSUME TypeOK, RowsFit, NEW t \in Transfers
  PROVE  /\ payment[t].state \in {"none", "confirming"} => said[t] = payment[t].state
         /\ payment[t].by = "admin" => said[t] = "vouched"
<1>1. payment[t].by \in Vouched => payment[t].state = "paid"
  BY DEF RowsFit
<1> QED
  BY <1>1 DEF said, Vouched

\* The transfers of a transaction move together.
LEMMA ChainIsInbox ==
  ASSUME TypeOK, NEW tx \in Txids, Chain(tx)
  PROVE  Bookings!Next
<1>1. said' = said
  BY DEF Chain, Broadcast, Finalise, Environment, said
<1>2. In(tx) \in SUBSET Transfers /\ \A u \in Transfers : fate[u] = chain[u].st
  BY DEF In, fate
<1>3. CASE Broadcast(tx)
  <2>1. fate' = [u \in Transfers |-> IF u \in In(tx) THEN "confirming" ELSE fate[u]]
    BY <1>2, <1>3 DEF Broadcast, fate
  <2>2. \A u \in In(tx) : fate[u] = "absent"
    BY <1>2, <1>3 DEF Broadcast
  <2> QED
    BY <1>1, <1>2, <2>1, <2>2 DEF Bookings!Next, Bookings!Move
<1>4. ASSUME NEW st \in {"solidified", "orphaned"}, Finalise(tx, st)
      PROVE  Bookings!Next
  <2>1. fate' = [u \in Transfers |-> IF u \in In(tx) THEN st ELSE fate[u]]
    <3>1. \A u \in Transfers : chain'[u].st = IF u \in In(tx) THEN st ELSE chain[u].st
      <4> SUFFICES ASSUME NEW u \in Transfers
                   PROVE  chain'[u].st = IF u \in In(tx) THEN st ELSE chain[u].st
        OBVIOUS
      <4>1. chain[u] \in ChainType
        BY DEF TypeOK
      <4>2. chain'[u] = IF u \in In(tx) THEN [chain[u] EXCEPT !.st = st] ELSE chain[u]
        BY <1>4 DEF Finalise
      <4> QED
        BY <4>1, <4>2 DEF ChainType
    <3> QED
      BY <1>2, <3>1 DEF fate
  <2>2. \A u \in In(tx) : fate[u] = "confirming"
    BY <1>2, <1>4 DEF Finalise
  <2> QED
    BY <1>1, <1>2, <1>4, <2>1, <2>2 DEF Bookings!Next, Bookings!Move
<1> QED
  BY <1>3, <1>4 DEF Chain

\* A first report hears of a transfer or receives it.
LEMMA ReportIsInbox ==
  ASSUME TypeOK, RowsFit, NEW t \in Transfers, NEW solid \in BOOLEAN, NEW r,
         Reported(t, solid), payment[t].state = "none",
         r.by = "scanner", r.state = IF solid THEN "paid" ELSE "confirming",
         payment' = [payment EXCEPT ![t] = r], chain' = chain
  PROVE  Bookings!Next
<1>1. fate' = fate /\ fate[t] = chain[t].st
  BY DEF fate
<1>2. said' = [said EXCEPT ![t] = IF solid THEN "paid" ELSE "confirming"]
  BY SaidOfOne DEF Vouched
<1>3. said[t] = "none"
  BY SaidBefore
<1>4. CASE solid
  BY <1>1, <1>2, <1>3, <1>4 DEF Reported, Bookings!Next, Bookings!Receive, Bookings!Book
<1>5. CASE ~solid
  BY <1>1, <1>2, <1>3, <1>5 DEF Reported, Bookings!Next, Bookings!Hear, Bookings!Book
<1> QED
  BY <1>4, <1>5

\* Every report, first or repeated, is a step of the inbox or none it sees.
LEMMA DepositIsInbox ==
  ASSUME TypeOK, RowsFit, NEW t \in Transfers, NEW solid \in BOOLEAN, processDeposit(t, solid)
  PROVE  Bookings!Next \/ UNCHANGED <<fate, said>>
<1>1. fate' = fate /\ fate[t] = chain[t].st /\ chain' = chain
  BY DEF processDeposit, IngestDeposit, QuarantineDeposit, promoteSolidifiedDeposit,
         AppendScanner, fate
<1>2. CASE IngestDeposit(t, solid)
  <2>1. PICK o \in Orders :
          payment' = [payment EXCEPT ![t] =
            [state |-> IF solid THEN "paid" ELSE "confirming", by |-> "scanner",
             addr |-> chain[t].addr, amt |-> chain[t].amt, order |-> o]]
    BY <1>2 DEF IngestDeposit
  <2>2. Reported(t, solid) /\ payment[t].state = "none"
    BY <1>2 DEF IngestDeposit
  <2> QED
    BY <1>1, <2>1, <2>2, ReportIsInbox
<1>3. CASE QuarantineDeposit(t, solid)
  BY <1>1, <1>3, ReportIsInbox DEF QuarantineDeposit
<1>4. CASE solid /\ promoteSolidifiedDeposit(t)
  <2>1. Reported(t, TRUE) /\ payment[t].state = "confirming"
        /\ payment' = [payment EXCEPT ![t].state = "paid"]
    BY <1>4 DEF promoteSolidifiedDeposit
  <2>2. payment[t] \in PaymentType /\ payment[t].by \notin Vouched
    BY <2>1 DEF TypeOK, RowsFit
  <2> DEFINE r == [payment[t] EXCEPT !.state = "paid"]
  <2>3. r.by = payment[t].by /\ r.state = "paid" /\ payment' = [payment EXCEPT ![t] = r]
    BY <2>1, <2>2 DEF PaymentType
  <2> HIDE DEF r
  <2>4. said' = [said EXCEPT ![t] = "paid"]
    BY <2>2, <2>3, SaidOfOne
  <2>5. said[t] = "confirming"
    BY <2>1, SaidBefore
  <2> QED
    BY <1>1, <2>1, <2>4, <2>5 DEF Reported, Bookings!Next, Bookings!Receive, Bookings!Book
<1>5. CASE AppendScanner(t, solid)
  <2>1. payment[t] \in PaymentType /\ payment[t].by = "admin"
        /\ payment' = [payment EXCEPT ![t].by = "admin+scanner"]
    BY <1>5 DEF AppendScanner, TypeOK
  <2> DEFINE r == [payment[t] EXCEPT !.by = "admin+scanner"]
  <2>2. r.by = "admin+scanner" /\ payment' = [payment EXCEPT ![t] = r]
    BY <2>1 DEF PaymentType
  <2> HIDE DEF r
  <2>3. said' = [said EXCEPT ![t] = "vouched"]
    BY <2>2, SaidOfOne DEF Vouched
  <2>4. said[t] = "vouched"
    BY <2>1, SaidBefore
  <2>5. [said EXCEPT ![t] = said[t]] = said
    BY DEF said
  <2> QED
    BY <1>1, <2>3, <2>4, <2>5
<1> QED
  BY <1>2, <1>3, <1>4, <1>5 DEF processDeposit

\* D6 vouches for a transfer no report was heard of.
LEMMA MarkPaidIsInbox ==
  ASSUME TypeOK, RowsFit, NEW o \in Orders, NEW t \in Transfers, adminMarkOrderPaid(o, t)
  PROVE  Bookings!Next
<1>1. /\ payment[t].state = "none" /\ chain' = chain
      /\ payment' = [payment EXCEPT ![t] =
           [state |-> "paid", by |-> "admin", addr |-> order[o].addr,
            amt |-> order[o].expected, order |-> o]]
  BY DEF adminMarkOrderPaid
<1>2. said' = [said EXCEPT ![t] = "vouched"]
  <2>1. PICK r : r.by = "admin" /\ payment' = [payment EXCEPT ![t] = r]
    BY <1>1
  <2> QED
    BY <2>1, SaidOfOne DEF Vouched
<1>3. said[t] = "none" /\ fate' = fate
  BY <1>1, SaidBefore DEF fate
<1> QED
  BY <1>2, <1>3 DEF Bookings!Next, Bookings!Vouch, Bookings!Book

\* Every step is one of the inbox, or none that it sees.
LEMMA InboxStep ==
  TypeOK /\ RowsFit /\ [Next]_vars => [Bookings!Next]_(Bookings!vars)
<1> SUFFICES ASSUME TypeOK, RowsFit, [Next]_vars
             PROVE  Bookings!Next \/ UNCHANGED <<fate, said>>
  BY DEF Bookings!vars
<1>1. ASSUME UNCHANGED <<payment, chain>>
      PROVE  UNCHANGED <<fate, said>>
  BY <1>1 DEF fate, said
<1>2. ASSUME NEW o \in Orders, CreateOrder(o) \/ CancelOrder(o) \/ PayOrder(o) \/ Timeout(o)
      PROVE  UNCHANGED <<fate, said>>
  BY <1>1, <1>2
     DEF CreateOrder, BuildDraft, WriteOrder, RejectDraft, CancelOrder, PayOrder, payOrderOnce,
         payWithBalance, payWithUSDT, Timeout, PassDeadline, WatchEnds, runOrderTimeout
<1>3. CASE UNCHANGED vars
  BY <1>1, <1>3 DEF vars
<1> QED
  BY <1>2, <1>3, ChainIsInbox, DepositIsInbox, MarkPaidIsInbox DEF Next

\* However late, often or contradictory the reports of a transfer are, it is
\* booked as received only when it is final or an admin vouched for it, and
\* no booking is taken back.
THEOREM ImplementsInbox == Spec => KeepsInbox
<1>1. Init => Bookings!Init
  BY DEF Init, NoPayment, NoTransfer, fate, said, Vouched, Bookings!Init
<1>2. TypeOK /\ RowsFit /\ [Next]_vars => [Bookings!Next]_(Bookings!vars)
  BY InboxStep
<1>3. IInv => TypeOK
  BY DEF IInv
<1> QED
  BY <1>1, <1>2, <1>3, MoneyStands, PTL DEF Spec, KeepsInbox, Bookings!Spec
-----------------------------------------------------------------------------
(* Edits by hand. D13 may put any row of payments into any state, at any   *)
(* time, and scans go on from what it says.                                *)

\* Neither orders, wallets nor entries are read off the rows that D13 edits.
LEMMA EditKeeps ==
  ASSUME IInv, WalletReconciles, CouponCounted, NEW t \in Transfers,
         NEW state \in PaymentStates, adminUpdatePayment(t, state)
  PROVE  IInv' /\ WalletReconciles' /\ CouponCounted'
<1>1. UNCHANGED <<order, asked, wallet, couponUsed, ledger, credited, chain>>
  BY DEF adminUpdatePayment
<1>2. payment' \in [Transfers -> PaymentType]
  <2>1. payment \in [Transfers -> PaymentType]
    BY DEF IInv, TypeOK
  <2>2. payment' = [payment EXCEPT ![t] = [payment[t] EXCEPT !.state = state]]
    BY DEF adminUpdatePayment
  <2>3. [payment[t] EXCEPT !.state = state] \in PaymentType
    BY <2>1 DEF PaymentType
  <2> QED
    BY <2>1, <2>2, <2>3
<1>3. TypeOK' /\ AddressByStatus' /\ TransferAddressed'
  BY <1>1, <1>2 DEF IInv, TypeOK, AddressByStatus, TransferAddressed
<1>4. HoldSettledOnce' /\ AddressNamesOneOrder'
  BY <1>1 DEF IInv, HoldSettledOnce, IsRow, AddressNamesOneOrder
<1>5. WalletReconciles'
  BY <1>1 DEF WalletReconciles, Moved
<1>6. CouponCounted'
  BY <1>1 DEF CouponCounted, CouponOrders, IsRow
<1> QED
  BY <1>3, <1>4, <1>5, <1>6 DEF IInv

\* With edits and whatever the deposits do after them, the invariant holds.
LEMMA EditsInvariant == EditSpec => [](IInv /\ WalletReconciles /\ CouponCounted)
<1> DEFINE Inv == IInv /\ WalletReconciles /\ CouponCounted
<1>1. Init => Inv
  BY IInvInit, ReconcileInit, CountInit
<1>2. Inv /\ [EditNext]_vars => Inv'
  <2> SUFFICES ASSUME Inv, [EditNext]_vars PROVE Inv'
    OBVIOUS
  <2>1. CASE [Next]_vars
    BY <2>1, IInvStep, ReconcileStep, CountStep DEF IInv
  <2>2. CASE \E t \in Transfers, state \in PaymentStates : adminUpdatePayment(t, state)
    BY <2>2, EditKeeps
  <2> QED
    BY <2>1, <2>2 DEF EditNext
<1> QED
  BY <1>1, <1>2, PTL DEF EditSpec

\* However payments rows are edited by hand, and however often deposits are
\* settled again for it: each hold is settled once, wallets reconcile with the
\* ledger, addresses name one order, and the coupon is not oversold
\* (adminUpdatePayment writes a row and nothing else).
THEOREM EditsKeepBooks ==
  EditSpec => [](HoldSettledOnce /\ WalletReconciles /\ AddressNamesOneOrder
                 /\ CouponNotOversold)
<1>1. IInv /\ WalletReconciles /\ CouponCounted =>
        HoldSettledOnce /\ WalletReconciles /\ AddressNamesOneOrder /\ CouponNotOversold
  BY CountFits DEF IInv
<1> QED
  BY <1>1, EditsInvariant, PTL

\* Edits by hand keep the promise of Escrow: what they may set off is one more
\* deposit, and no order is paid, closed or given back twice for it.
THEOREM EditsKeepEscrow == EditSpec => KeepsEscrow
<1>1. IInv /\ [EditNext]_vars => [Abstract!Next]_(Abstract!vars)
  <2> SUFFICES ASSUME IInv, [EditNext]_vars PROVE [Abstract!Next]_(Abstract!vars)
    OBVIOUS
  <2>1. CASE [Next]_vars
    BY <2>1, ViewStep
  <2>2. ASSUME NEW t \in Transfers, NEW state \in PaymentStates, adminUpdatePayment(t, state)
        PROVE  [Abstract!Next]_(Abstract!vars)
    BY <2>2 DEF adminUpdatePayment, Abstract!vars, phase, held
  <2> QED
    BY <2>1, <2>2 DEF EditNext
<1> QED
  BY <1>1, ViewInit, EditsInvariant, PTL DEF EditSpec, KeepsEscrow, Abstract!Spec
=============================================================================
