--------------------------- MODULE RefundsProofs ----------------------------
(***************************************************************************)
(* Proofs about the refunds: what they may give back in all, and what they *)
(* do to the commission of the order.                                      *)
(***************************************************************************)
EXTENDS Refunds, Sums

USE RefundsAssumption

-----------------------------------------------------------------------------
(* Payments and what they add up to.                                       *)

\* What was paid for orders, and for more of them, is a natural number.
LEMMA PaidType ==
  ASSUME TypeOK
  PROVE  /\ \A p \in Orders : Paid[p] \in Nat
         /\ \A os \in SUBSET Orders : WindowValue(os) \in Nat
<1>1. \A p \in Orders : Paid[p] \in Nat
  BY DEF TypeOK, OrderRows, Paid
<1>2. ASSUME NEW os \in SUBSET Orders
      PROVE  WindowValue(os) \in Nat
  <2>1. IsFiniteSet(os)
    BY FS_Subset
  <2> HIDE DEF Paid
  <2> QED
    BY <1>1, <2>1, SumNat DEF WindowValue
<1> QED
  BY <1>1, <1>2

\* GetRefundBasis goes back through orders that were taken over.
LEMMA WindowInAncestry ==
  ASSUME TypeOK, NEW o \in Orders
  PROVE  Window(o) \subseteq Ancestry(o) /\ WindowValue(Window(o)) <= WindowValue(Ancestry(o))
<1>1. \A os \in SUBSET Orders : Closed(os, Orders) => Closed(os, In({"completed"}))
  BY DEF Closed, In
<1>2. Window(o) \subseteq Ancestry(o) /\ Ancestry(o) \in SUBSET Orders
  BY <1>1 DEF Window, Ancestry, Behind
<1>3. IsFiniteSet(Ancestry(o)) /\ \A p \in Orders : Paid[p] \in Nat
  BY <1>2, FS_Subset, PaidType
<1>4. \A p \in Ancestry(o) : Paid[p] \in Nat /\ Paid[p] <= Paid[p]
  BY <1>2, <1>3
<1> QED
  BY <1>2, <1>3, <1>4, SumMonotone DEF WindowValue

\* The payments behind an order only grow, if those of each order do and no
\* order is put behind another once it has been created.
LEMMA AncestryGrows ==
  ASSUME TypeOK, TypeOK',
         \A p \in Orders : /\ order[p].paid <= order'[p].paid
                           /\ order[p].balance <= order'[p].balance
                           /\ order[p].prev \in Orders => order'[p].prev = order[p].prev,
         NEW o \in Orders
  PROVE  /\ WindowValue(Ancestry(o)) <= WindowValue(Ancestry(o))'
         /\ WindowValue(Ancestry(o)) \in Nat /\ WindowValue(Ancestry(o))' \in Nat
<1>1. \A os \in SUBSET Orders : Closed(os, Orders)' => Closed(os, Orders)
  BY DEF Closed
<1>2. /\ Ancestry(o) \in SUBSET Ancestry(o)'
      /\ Ancestry(o)' \in SUBSET Orders
  BY <1>1 DEF Ancestry, Behind
<1>3. IsFiniteSet(Ancestry(o)') /\ IsFiniteSet(Ancestry(o))
  BY <1>2, FS_Subset
<1>4. \A p \in Ancestry(o)' : Paid[p] \in Nat /\ Paid'[p] \in Nat /\ Paid[p] <= Paid'[p]
  BY <1>2 DEF Paid, TypeOK, OrderRows
<1> HIDE DEF Paid
<1> QED
  BY <1>2, <1>3, <1>4, SumMonotone, SumNat DEF WindowValue

\* A share of a commission is a natural number, and no less than in proportion.
LEMMA ShareCovers ==
  ASSUME TypeOK, NEW o \in Orders, NEW amount \in Nat
  PROVE  /\ Share(o, amount) \in Nat
         /\ \/ Share(o, amount) = commission[o].amount
            \/ /\ order[o].paid > 0
               /\ Share(o, amount) * order[o].paid >= commission[o].amount * amount
<1> DEFINE c == commission[o].amount
           n == order[o].paid
           m == c * amount
<1>1. c \in Nat /\ n \in Nat /\ m \in Nat
  BY DEF TypeOK, CommissionRows, OrderRows
<1>2. CASE n = 0
  BY <1>1, <1>2 DEF Share
<1>3. CASE n # 0
  <2>1. /\ CeilDiv(m, n) \in Nat
        /\ CeilDiv(m, n) * n >= m
    <3> HIDE DEF c, n, m
    <3> QED
      BY <1>1, <1>3 DEF CeilDiv
  <2>2. Share(o, amount) = AtMost(c, CeilDiv(m, n))
    BY <1>3 DEF Share
  <2> QED
    <3> HIDE DEF m
    <3>1. CASE c < CeilDiv(m, n)
      BY <1>1, <2>1, <2>2, <3>1 DEF AtMost
    <3>2. CASE ~ (c < CeilDiv(m, n))
      <4>1. Share(o, amount) = CeilDiv(m, n)
        BY <2>2, <3>2 DEF AtMost
      <4> QED
        BY <1>1, <1>3, <2>1, <4>1 DEF m
    <3> QED
      BY <3>1, <3>2
<1> QED
  BY <1>2, <1>3
-----------------------------------------------------------------------------
(* The invariant.                                                          *)

\* Nothing has been ordered, promised or refunded.
LEMMA RefundsInit == Init => RefundsInv
<1> SUFFICES ASSUME Init PROVE RefundsInv
  OBVIOUS
<1>1. TypeOK
  BY DEF Init, TypeOK, OrderRows, CommissionRows, Parties
<1>2. \A o \in Orders : /\ order[o].status = "none" /\ order[o].prev = None
                        /\ order[o].balance = 0
                        /\ commission[o].status = "none" /\ commission[o].credited = 0
                        /\ refund[o].sum = 0
  BY DEF Init
<1>3. StatusAhead /\ CreditedOnce /\ ClaimedInStep /\ FromTheStart /\ CommissionStopped
  BY <1>2 DEF StatusAhead, CreditedOnce, ClaimedInStep, FromTheStart, CommissionStopped
<1>4. OneHolds /\ JudgedStands /\ AloneWithin
  BY DEF Init, OneHolds, JudgedStands, AloneWithin, Holding
<1>5. RefundsWithinPayments
  <2>1. ASSUME NEW o \in Orders
        PROVE  refund[o].sum <= WindowValue(Ancestry(o))
    <3>1. Ancestry(o) \in SUBSET Orders
      BY DEF Ancestry, Behind
    <3>2. WindowValue(Ancestry(o)) \in Nat
      BY <1>1, <3>1, PaidType
    <3> QED
      BY <1>2, <3>2
  <2> QED
    BY <2>1 DEF RefundsWithinPayments
<1> QED
  BY <1>1, <1>3, <1>4, <1>5 DEF RefundsInv

\* What an order gains, and what it never loses.
Onward(o) ==
  /\ order[o].paid <= order'[o].paid
  /\ order[o].balance <= order'[o].balance
  /\ order[o].prev \in Orders => order'[o].prev = order[o].prev
\* What stays of the order of a refund that holds it.
Untouched(o) ==
  /\ Refundable(o)'
  /\ order'[o].paid = order[o].paid
  /\ commission'[o] = commission[o]

\* A step of no refund, that minds the locks, leaves the refunds right.
LEMMA RefundsStand ==
  ASSUME RefundsInv, TypeOK', UNCHANGED <<refund, d7, overlapped>>,
         \A o \in Orders : Onward(o) /\ (Held(o) /\ Refundable(o) => Untouched(o))
  PROVE  OneHolds' /\ JudgedStands' /\ AloneWithin' /\ RefundsWithinPayments'
<1>1. OneHolds'
  BY DEF RefundsInv, OneHolds, Holding
<1>2. ASSUME NEW o \in Orders
      PROVE  /\ WindowValue(Ancestry(o)) <= WindowValue(Ancestry(o))'
             /\ WindowValue(Ancestry(o)) \in Nat /\ WindowValue(Ancestry(o))' \in Nat
  BY AncestryGrows DEF RefundsInv, Onward
<1>3. RefundsWithinPayments'
  <2>1. ASSUME NEW o \in Orders, o \notin overlapped'
        PROVE  refund'[o].sum <= WindowValue(Ancestry(o))'
    <3>1. refund[o].sum <= WindowValue(Ancestry(o)) /\ refund[o].sum \in Nat
      BY <2>1 DEF RefundsInv, RefundsWithinPayments, TypeOK
    <3> QED
      BY <1>2, <3>1
  <2> QED
    BY <2>1 DEF RefundsWithinPayments
<1>4. JudgedStands'
  <2>1. ASSUME NEW a \in Admins, Holding(a)
        PROVE  LET q == d7[a] IN
               /\ Refundable(q.order)' /\ q.amount > 0
               /\ (q.claw.act = "void") <=>
                    (commission'[q.order].status \in {"pending", "confirmed"})
               /\ commission'[q.order].status = "transferred" =>
                    q.claw.recover + q.claw.shortfall = Share(q.order, q.amount)'
    <3> DEFINE q == d7[a]
    <3>1. q.order \in Orders /\ Held(q.order)
      BY <2>1 DEF RefundsInv, TypeOK, Operations, Holding, Held
    <3>2. Refundable(q.order)
      BY <2>1 DEF RefundsInv, JudgedStands
    <3>3. Untouched(q.order)
      BY <3>1, <3>2
    <3>4. Share(q.order, q.amount)' = Share(q.order, q.amount)
      BY <3>3 DEF Share, Untouched
    <3> QED
      BY <2>1, <3>3, <3>4 DEF RefundsInv, JudgedStands, Untouched
  <2> QED
    BY <2>1 DEF JudgedStands, Holding
<1>5. AloneWithin'
  <2>1. ASSUME NEW a \in Admins, d7[a] # None, d7[a].order \notin overlapped
        PROVE  /\ d7[a].refunded = refund[d7[a].order].sum
               /\ \A b \in Admins : d7[b] # None /\ d7[b].order = d7[a].order => a = b
               /\ d7[a].phase = "holding" =>
                    d7[a].refunded + d7[a].amount <= WindowValue(Ancestry(d7[a].order))'
    <3>1. /\ d7[a].order \in Orders /\ d7[a].refunded \in Nat /\ d7[a].amount \in Nat
      BY <2>1 DEF RefundsInv, TypeOK, Operations
    <3> QED
      BY <1>2, <2>1, <3>1 DEF RefundsInv, AloneWithin
  <2> QED
    BY <2>1 DEF AloneWithin
<1> QED
  BY <1>1, <1>3, <1>4, <1>5
\* The rest of the invariant: the orders and their commissions by themselves.
RowsInv == StatusAhead /\ CreditedOnce /\ ClaimedInStep /\ FromTheStart /\ CommissionStopped

\* A step of an order that moves no commission and no refund.
LEMMA OrderStep ==
  ASSUME RefundsInv, TypeOK', UNCHANGED <<commission, refund>>,
         \A o \in Orders :
           \/ order'[o] = order[o]
           \/ /\ order[o].status \in {"none", "pending"}
              /\ order'[o].status \in {"pending", "paid"}
  PROVE  RowsInv'
<1>1. ASSUME NEW o \in Orders
      PROVE  /\ order'[o].status \in {"none", "pending", "paid"} => commission[o].status = "none"
             /\ refund[o].sum > 0 => order'[o].status \in Stopped
             /\ order'[o].status \in Stopped => commission[o].status \notin {"pending", "confirmed"}
             /\ order'[o].status = "none" => order'[o] = order[o]
             /\ commission[o].status = "transferred" => order'[o] = order[o]
  BY DEF RefundsInv, StatusAhead, CommissionStopped, Stopped
<1>2. StatusAhead' /\ FromTheStart' /\ CommissionStopped' /\ CreditedOnce'
  BY <1>1 DEF RefundsInv, StatusAhead, FromTheStart, CommissionStopped, CreditedOnce, Stopped
<1>3. ClaimedInStep'
  <2>1. ASSUME NEW o \in Orders, commission[o].status = "transferred"
        PROVE  \/ ClaimedBack(o)' >= commission[o].amount
               \/ refund[o].sum = 0
               \/ /\ order'[o].paid > 0
                  /\ ClaimedBack(o)' * order'[o].paid >= commission[o].amount * refund[o].sum
    <3>1. ClaimedBack(o)' = ClaimedBack(o) /\ order'[o] = order[o]
      BY <1>1, <2>1 DEF ClaimedBack
    <3> QED
      BY <2>1, <3>1 DEF RefundsInv, ClaimedInStep
  <2> QED
    BY <2>1 DEF ClaimedInStep
<1> QED
  BY <1>2, <1>3 DEF RowsInv

\* An order is written, as a purchase or an upgrade.
LEMMA WriteKeeps ==
  ASSUME RefundsInv, NEW o \in Orders, NEW price \in Prices, NEW balanceToo \in BOOLEAN,
         NEW src \in Orders \cup {None}, NEW surplus \in Nat,
         WriteOrder(o, price, balanceToo, src, surplus)
  PROVE  RefundsInv'
<1> DEFINE hold == Hold(price, balanceToo)
<1>1. TypeOK
  BY DEF RefundsInv
<1>2. /\ hold \in Nat /\ price - hold \in Nat /\ wallet["buyer"] - hold \in Nat
      /\ wallet \in [Parties -> Nat]
  BY <1>1 DEF Hold, AtMost, TypeOK, Parties
<1> HIDE DEF hold
<1>3. /\ order[o].status = "none"
      /\ order' = [order EXCEPT ![o] =
           [@ EXCEPT !.status = "pending", !.due = price - hold, !.balance = hold,
                     !.prev = src, !.surplus = surplus]]
      /\ wallet' = [wallet EXCEPT !["buyer"] = @ - hold]
      /\ UNCHANGED <<commission, refund, active, d7, overlapped>>
  BY DEF WriteOrder, hold
<1>4. TypeOK'
  <2>1. order' \in [Orders -> OrderRows]
    <3>1. order[o] \in OrderRows
      BY <1>1 DEF TypeOK
    <3>2. [order[o] EXCEPT !.status = "pending", !.due = price - hold, !.balance = hold,
                           !.prev = src, !.surplus = surplus] \in OrderRows
      BY <1>2, <3>1 DEF OrderRows
    <3> QED
      BY <1>1, <1>3, <3>2 DEF TypeOK
  <2>2. wallet' \in [Parties -> Nat]
    BY <1>2, <1>3
  <2> QED
    BY <1>1, <1>3, <2>1, <2>2 DEF TypeOK
<1>5. RowsInv'
  <2>1. \A p \in Orders : \/ order'[p] = order[p]
                          \/ order[p].status = "none" /\ order'[p].status = "pending"
    BY <1>1, <1>3 DEF TypeOK
  <2> QED
    BY <1>3, <1>4, <2>1, OrderStep
<1>6. ASSUME NEW p \in Orders
      PROVE  Onward(p) /\ (Held(p) /\ Refundable(p) => Untouched(p))
  <2>1. CASE p = o
    <3>1. order[p].prev = None /\ order[p].balance = 0 /\ ~ Refundable(p)
      BY <1>3, <2>1 DEF RefundsInv, FromTheStart, Refundable
    <3> QED
      BY <1>1, <1>2, <1>3, <2>1, <3>1 DEF Onward, TypeOK, OrderRows
  <2>2. CASE p # o
    <3>1. order'[p] = order[p] /\ commission'[p] = commission[p]
      BY <1>1, <1>3, <2>2 DEF TypeOK
    <3> QED
      BY <1>1, <3>1 DEF Onward, Untouched, Refundable, TypeOK, OrderRows
  <2> QED
    BY <2>1, <2>2
<1> QED
  BY <1>3, <1>4, <1>5, <1>6, RefundsStand DEF RowsInv, RefundsInv

\* A deposit settles it.
LEMMA SettleKeeps ==
  ASSUME RefundsInv, NEW o \in Orders, SettleDeposit(o)
  PROVE  RefundsInv'
<1>1. TypeOK /\ order[o] \in OrderRows
  BY DEF RefundsInv, TypeOK
<1>2. TypeOK'
  <2>1. order[o].paid + order[o].due \in Nat
    BY <1>1 DEF OrderRows
  <2>2. [order[o] EXCEPT !.status = "paid", !.paid = order[o].paid + order[o].due] \in OrderRows
    BY <1>1, <2>1 DEF OrderRows
  <2> QED
    BY <1>1, <2>2 DEF SettleDeposit, TypeOK
<1>3. ASSUME NEW p \in Orders
      PROVE  \/ order'[p] = order[p]
             \/ /\ order[p].status = "pending" /\ order'[p].status = "paid"
                /\ order'[p].paid = order[p].paid + order[p].due
                /\ order'[p].balance = order[p].balance /\ order'[p].prev = order[p].prev
  BY <1>1 DEF SettleDeposit, TypeOK, OrderRows
<1>4. RowsInv'
  BY <1>2, <1>3, OrderStep DEF SettleDeposit
<1>5. ASSUME NEW p \in Orders
      PROVE  Onward(p) /\ (Held(p) /\ Refundable(p) => Untouched(p))
  BY <1>1, <1>3 DEF Onward, Untouched, Refundable, TypeOK, OrderRows, SettleDeposit
<1> QED
  BY <1>2, <1>4, <1>5, RefundsStand DEF RowsInv, RefundsInv, SettleDeposit

\* The wallet pays it.
LEMMA PayKeeps ==
  ASSUME RefundsInv, NEW o \in Orders, PayWithBalance(o)
  PROVE  RefundsInv'
<1>1. TypeOK /\ order[o] \in OrderRows
  BY DEF RefundsInv, TypeOK
<1>2. TypeOK'
  <2>1. wallet["buyer"] - order[o].due \in Nat
    BY <1>1 DEF PayWithBalance, TypeOK, Parties, OrderRows
  <2>2. [order[o] EXCEPT !.status = "paid"] \in OrderRows
    BY <1>1 DEF OrderRows
  <2> QED
    BY <1>1, <2>1, <2>2 DEF PayWithBalance, TypeOK
<1>3. ASSUME NEW p \in Orders
      PROVE  \/ order'[p] = order[p]
             \/ /\ order[p].status = "pending" /\ order'[p].status = "paid"
                /\ order'[p].balance = order[p].balance
                /\ order'[p].paid = order[p].paid /\ order'[p].prev = order[p].prev
  BY <1>1 DEF PayWithBalance, TypeOK, OrderRows
<1>4. RowsInv'
  BY <1>2, <1>3, OrderStep DEF PayWithBalance
<1>5. ASSUME NEW p \in Orders
      PROVE  Onward(p) /\ (Held(p) /\ Refundable(p) => Untouched(p))
  BY <1>1, <1>3 DEF Onward, Untouched, Refundable, TypeOK, OrderRows, PayWithBalance
<1> QED
  BY <1>2, <1>4, <1>5, RefundsStand DEF RowsInv, RefundsInv, PayWithBalance

\* The commission of an order begins with its completion, which waits for a
\* refund that holds the order.
LEMMA CompleteKeeps ==
  ASSUME RefundsInv, NEW o \in Orders, CompleteOrder(o)
  PROVE  RefundsInv'
<1>1. TypeOK /\ order[o] \in OrderRows /\ commission[o] \in CommissionRows
  BY DEF RefundsInv, TypeOK
<1>2. /\ order[o].status = "paid" /\ ~ Held(o) /\ refund[o].sum = 0
      /\ commission[o].status = "none" /\ commission[o].credited = 0
  BY <1>1 DEF CompleteOrder, RefundsInv, StatusAhead, CreditedOnce, TypeOK, Stopped
<1> DEFINE n == 1 + Cardinality({p \in Orders : order[p].since > 0})
<1>3. n \in Nat
  <2>1. IsFiniteSet({p \in Orders : order[p].since > 0})
    BY FS_Subset
  <2> QED
    BY <2>1, FS_CardinalityType
<1> HIDE DEF n
<1>4. TypeOK'
  <2>1. [order[o] EXCEPT !.status = "completed", !.since = n] \in OrderRows
    BY <1>1, <1>3 DEF OrderRows
  <2>2. order' \in [Orders -> OrderRows]
    BY <1>1, <2>1 DEF CompleteOrder, TypeOK, n
  <2>3. [commission[o] EXCEPT !.status = "pending", !.amount = Commission] \in CommissionRows
    BY <1>1 DEF CommissionRows
  <2>4. commission' \in [Orders -> CommissionRows]
    BY <1>1, <2>3 DEF CompleteOrder, TypeOK
  <2> QED
    BY <1>1, <2>2, <2>4 DEF CompleteOrder, TypeOK
<1>5. /\ order'[o].status = "completed" /\ order'[o].paid = order[o].paid
      /\ order'[o].balance = order[o].balance /\ order'[o].prev = order[o].prev
      /\ commission'[o].status \in {"none", "pending"} /\ commission'[o].credited = 0
  BY <1>1, <1>2 DEF CompleteOrder, TypeOK, OrderRows, CommissionRows
<1>6. \A p \in Orders : p # o => order'[p] = order[p] /\ commission'[p] = commission[p]
  BY <1>1 DEF CompleteOrder, TypeOK
<1>7. StatusAhead' /\ CreditedOnce' /\ FromTheStart' /\ CommissionStopped'
  <2>1. refund' = refund
    BY DEF CompleteOrder
  <2> QED
    BY <1>2, <1>5, <1>6, <2>1 DEF RefundsInv, StatusAhead, CreditedOnce, FromTheStart,
      CommissionStopped, Stopped
<1>8. ClaimedInStep'
  BY <1>5, <1>6 DEF RefundsInv, ClaimedInStep, ClaimedBack, CompleteOrder
<1>9. ASSUME NEW p \in Orders
      PROVE  Onward(p) /\ (Held(p) /\ Refundable(p) => Untouched(p))
  BY <1>1, <1>2, <1>5, <1>6 DEF Onward, Untouched, Refundable, TypeOK, OrderRows
<1> QED
  BY <1>4, <1>7, <1>8, <1>9, RefundsStand DEF RefundsInv, CompleteOrder

\* A step of a commission of an order that no refund holds: it stays what its
\* order allows, and what is credited is its amount.
LEMMA CommissionStep ==
  ASSUME RefundsInv, TypeOK', UNCHANGED <<order, refund, d7, overlapped>>,
         NEW o \in Orders, ~ Held(o),
         commission[o].status \in {"pending", "confirmed"},
         \A p \in Orders : p # o => commission'[p] = commission[p],
         commission'[o].status \in {"pending", "confirmed", "transferred"},
         commission'[o].credited =
           IF commission'[o].status = "transferred" THEN commission'[o].amount ELSE 0
  PROVE  RefundsInv'
<1>1. refund[o].sum = 0 /\ order[o].status \notin {"none", "pending", "paid"} \cup Stopped
  BY DEF RefundsInv, StatusAhead, CommissionStopped, TypeOK, Stopped
<1>2. StatusAhead' /\ CreditedOnce' /\ FromTheStart' /\ CommissionStopped'
  BY <1>1 DEF RefundsInv, StatusAhead, CreditedOnce, FromTheStart, CommissionStopped, Stopped
<1>3. ClaimedInStep'
  BY <1>1 DEF RefundsInv, ClaimedInStep, ClaimedBack
<1>4. ASSUME NEW p \in Orders
      PROVE  Onward(p) /\ (Held(p) /\ Refundable(p) => Untouched(p))
  BY DEF Onward, Untouched, Refundable, RefundsInv, TypeOK, OrderRows
<1> QED
  BY <1>2, <1>3, <1>4, RefundsStand DEF RefundsInv

\* A commission is confirmed,
LEMMA ConfirmKeeps ==
  ASSUME RefundsInv, NEW o \in Orders, ConfirmCommission(o)
  PROVE  RefundsInv'
<1>1. TypeOK /\ commission[o] \in CommissionRows
  BY DEF RefundsInv, TypeOK
<1>2. TypeOK'
  BY <1>1 DEF ConfirmCommission, TypeOK, CommissionRows
<1>3. /\ commission'[o].status = "confirmed"
      /\ commission'[o].credited = commission[o].credited
      /\ \A p \in Orders : p # o => commission'[p] = commission[p]
  BY <1>1 DEF ConfirmCommission, TypeOK, CommissionRows
<1> QED
  BY <1>2, <1>3, CommissionStep DEF ConfirmCommission, RefundsInv, CreditedOnce

\* transferred to the wallet of the inviter,
LEMMA TransferKeeps ==
  ASSUME RefundsInv, NEW o \in Orders, TransferCommission(o)
  PROVE  RefundsInv'
<1>1. TypeOK /\ commission[o] \in CommissionRows /\ commission[o].credited = 0
  BY DEF RefundsInv, TypeOK, CreditedOnce, TransferCommission
<1>2. TypeOK'
  <2>1. /\ commission[o].credited + commission[o].amount \in Nat
        /\ wallet["inviter"] + commission[o].amount \in Nat
    BY <1>1 DEF TypeOK, Parties, CommissionRows
  <2>2. [commission[o] EXCEPT !.status = "transferred",
           !.credited = commission[o].credited + commission[o].amount] \in CommissionRows
    BY <1>1, <2>1 DEF CommissionRows
  <2> QED
    BY <1>1, <2>1, <2>2 DEF TransferCommission, TypeOK
<1>3. /\ commission'[o].status = "transferred"
      /\ commission'[o].amount = commission[o].amount
      /\ commission'[o].credited = commission[o].amount
      /\ \A p \in Orders : p # o => commission'[p] = commission[p]
  BY <1>1 DEF TransferCommission, TypeOK, CommissionRows
<1> QED
  BY <1>2, <1>3, CommissionStep DEF TransferCommission

\* or adjusted by an admin.
LEMMA AdjustKeeps ==
  ASSUME RefundsInv, NEW o \in Orders, NEW delta \in Adjustments,
         AdjustAdminCommission(o, delta)
  PROVE  RefundsInv'
<1>1. TypeOK /\ commission[o] \in CommissionRows
  BY DEF RefundsInv, TypeOK
<1>2. TypeOK'
  <2>1. commission[o].amount + delta \in Nat
    BY <1>1 DEF AdjustAdminCommission, CommissionRows
  <2> QED
    BY <1>1, <2>1 DEF AdjustAdminCommission, TypeOK, CommissionRows
<1>3. /\ commission'[o].status = commission[o].status
      /\ commission'[o].credited = commission[o].credited
      /\ \A p \in Orders : p # o => commission'[p] = commission[p]
  BY <1>1 DEF AdjustAdminCommission, TypeOK, CommissionRows
<1> QED
  BY <1>2, <1>3, CommissionStep DEF AdjustAdminCommission, RefundsInv, CreditedOnce

\* What only concerns the wallets and the subscription.
LEMMA RestKeeps ==
  ASSUME RefundsInv, TypeOK', UNCHANGED <<order, commission, refund, d7, overlapped>>
  PROVE  RefundsInv'
<1>1. RowsInv'
  BY OrderStep
<1>2. ASSUME NEW p \in Orders
      PROVE  Onward(p) /\ (Held(p) /\ Refundable(p) => Untouched(p))
  BY DEF Onward, Untouched, Refundable, RefundsInv, TypeOK, OrderRows
<1> QED
  BY <1>1, <1>2, RefundsStand DEF RowsInv, RefundsInv

\* Counts and the sum of earlier refunds are read without the lock.
LEMMA GetKeeps ==
  ASSUME RefundsInv, NEW a \in Admins, NEW o \in Orders, AdminGetOrderForRefund(a, o)
  PROVE  RefundsInv'
<1> DEFINE first == Cardinality(In({"paid", "completed"})) <= 1
           cooled == \E p \in Orders : refund[p].cooling > 0
           also == IF \E b \in Admins : d7[b] # None /\ d7[b].order = o THEN {o} ELSE {}
           q == [order |-> o, phase |-> "waiting", first |-> first, cooled |-> cooled,
                 refunded |-> refund[o].sum, amount |-> 0, rule |-> "prorated",
                 all |-> FALSE, claw |-> NoClawback]
<1>1. TypeOK
  BY DEF RefundsInv
<1>2. /\ d7[a] = None /\ d7' = [d7 EXCEPT ![a] = q]
      /\ overlapped' = overlapped \cup also
      /\ UNCHANGED <<order, commission, wallet, refund, active>>
  BY DEF AdminGetOrderForRefund
<1>3. q \in Operations /\ q # None
  <2>1. first \in BOOLEAN /\ cooled \in BOOLEAN
    OBVIOUS
  <2>2. refund[o].sum \in Nat
    BY <1>1 DEF TypeOK
  <2> HIDE DEF first, cooled
  <2>3. q \in Operations
    BY <2>1, <2>2 DEF Operations, Clawbacks, NoClawback
  <2> QED
    BY <2>3
<1>4. q.order = o /\ q.phase = "waiting" /\ q.refunded = refund[o].sum
  OBVIOUS
<1>5. also \subseteq Orders
  OBVIOUS
<1>6. /\ d7'[a] = q
      /\ \A b \in Admins : b # a => d7'[b] = d7[b]
  BY <1>1, <1>2 DEF TypeOK
<1>7. \A b \in Admins : b # a /\ d7[b] # None /\ d7[b].order = o => o \in overlapped'
  BY <1>2
<1> HIDE DEF q, first, cooled, also
<1>8. TypeOK'
  BY <1>1, <1>2, <1>3, <1>5 DEF TypeOK
<1>9. RowsInv'
  BY <1>2, <1>8, OrderStep
<1>10. \A b \in Admins : Holding(b)' => b # a /\ Holding(b) /\ d7'[b] = d7[b]
  BY <1>4, <1>6 DEF Holding
<1>11. OneHolds' /\ JudgedStands'
  <2>1. OneHolds'
    BY <1>10 DEF RefundsInv, OneHolds
  <2>2. JudgedStands'
    BY <1>2, <1>10 DEF RefundsInv, JudgedStands, Refundable, Share
  <2> QED
    BY <2>1, <2>2
<1>12. \A p \in Orders : WindowValue(Ancestry(p))' = WindowValue(Ancestry(p))
  BY <1>2 DEF WindowValue, Paid, Ancestry, Behind, Closed
<1>13. AloneWithin'
  <2>1. ASSUME NEW b \in Admins, d7'[b] # None, d7'[b].order \notin overlapped'
        PROVE  /\ d7'[b].refunded = refund'[d7'[b].order].sum
               /\ \A c \in Admins : d7'[c] # None /\ d7'[c].order = d7'[b].order => b = c
               /\ d7'[b].phase = "holding" =>
                    d7'[b].refunded + d7'[b].amount <= WindowValue(Ancestry(d7[b].order))'
    <3>1. CASE b = a
      BY <1>2, <1>4, <1>6, <1>7, <2>1, <3>1
    <3>2. CASE b # a
      <4>1. d7'[b] = d7[b] /\ d7[b].order \notin overlapped /\ d7[b].order # o
        BY <1>2, <1>6, <1>7, <2>1, <3>2
      <4>2. d7[b].order \in Orders
        BY <1>1, <2>1, <4>1 DEF TypeOK, Operations
      <4>3. \A c \in Admins : d7'[c] # None /\ d7'[c].order = d7'[b].order => b = c
        BY <1>4, <1>6, <2>1, <4>1 DEF RefundsInv, AloneWithin
      <4> QED
        BY <1>2, <1>12, <2>1, <4>1, <4>2, <4>3 DEF RefundsInv, AloneWithin
    <3> QED
      BY <3>1, <3>2
  <2> QED
    BY <2>1 DEF AloneWithin
<1>14. RefundsWithinPayments'
  BY <1>2, <1>12 DEF RefundsInv, RefundsWithinPayments
<1> QED
  BY <1>8, <1>9, <1>11, <1>13, <1>14 DEF RowsInv, RefundsInv

\* A refund ends without effect.
LEMMA RollBackKeeps ==
  ASSUME RefundsInv, NEW a \in Admins, RollBack(a)
  PROVE  RefundsInv'
<1>1. TypeOK
  BY DEF RefundsInv
<1>2. /\ d7' = [d7 EXCEPT ![a] = None]
      /\ UNCHANGED <<order, commission, wallet, refund, active, overlapped>>
  BY DEF RollBack
<1>3. TypeOK'
  BY <1>1, <1>2 DEF TypeOK
<1>4. RowsInv'
  BY <1>2, <1>3, OrderStep
<1>5. \A b \in Admins : d7'[b] # None => d7'[b] = d7[b]
  BY <1>1, <1>2 DEF TypeOK
<1>6. \A p \in Orders : WindowValue(Ancestry(p))' = WindowValue(Ancestry(p))
  BY <1>2 DEF WindowValue, Paid, Ancestry, Behind, Closed
<1>7. OneHolds' /\ RefundsWithinPayments'
  BY <1>2, <1>5, <1>6 DEF RefundsInv, OneHolds, Holding, RefundsWithinPayments
<1>8. JudgedStands'
  BY <1>2, <1>5 DEF RefundsInv, JudgedStands, Holding, Refundable, Share
<1>9. AloneWithin'
  <2>1. \A b \in Admins : d7'[b] # None => d7'[b].order \in Orders
    BY <1>1, <1>5 DEF TypeOK, Operations
  <2> QED
    BY <1>2, <1>5, <1>6, <2>1 DEF RefundsInv, AloneWithin
<1> QED
  BY <1>3, <1>4, <1>7, <1>8, <1>9 DEF RowsInv, RefundsInv

\* What classifyRefund lets through is within the payments.
LEMMA MostIsPaid ==
  ASSUME TypeOK, NEW q \in Operations, NEW rule, NEW consumed \in Nat
  PROVE  /\ MaxAmount(q, rule, consumed) \in Int
         /\ q.refunded + MaxAmount(q, rule, consumed) <= WindowValue(Ancestry(q.order))
<1>1. /\ WindowValue(Window(q.order)) <= WindowValue(Ancestry(q.order))
      /\ WindowValue(Window(q.order)) \in Nat /\ WindowValue(Ancestry(q.order)) \in Nat
      /\ q.refunded \in Nat
  <2>1. q.order \in Orders /\ q.refunded \in Nat
    BY DEF Operations
  <2>2. Window(q.order) \in SUBSET Orders /\ Ancestry(q.order) \in SUBSET Orders
    BY DEF Window, Ancestry, Behind
  <2> QED
    BY <2>1, <2>2, WindowInAncestry, PaidType
<1> DEFINE v == WindowValue(Window(q.order))
           most == IF rule = "cooling_off" THEN v
                   ELSE IF consumed < v THEN v - consumed ELSE 0
<1>2. MaxAmount(q, rule, consumed) = most - q.refunded
  BY DEF MaxAmount
<1>3. most \in Nat /\ most <= v
  <2> HIDE DEF v
  <2> v \in Nat
    BY <1>1 DEF v
  <2> QED
    OBVIOUS
<1> HIDE DEF most
<1> QED
  BY <1>1, <1>2, <1>3

\* What is claimed back of the commission.
LEMMA ClawbackType ==
  ASSUME TypeOK, NEW o \in Orders, NEW amount \in Nat
  PROVE  LET claw == planClawback(o, amount) IN
         /\ claw \in Clawbacks
         /\ claw.act = "void" <=> commission[o].status \in {"pending", "confirmed"}
         /\ commission[o].status = "transferred" =>
              claw.recover + claw.shortfall = Share(o, amount)
<1> DEFINE back == AtMost(Share(o, amount), wallet["inviter"])
<1>1. /\ Share(o, amount) \in Nat /\ wallet["inviter"] \in Nat
      /\ commission[o].status \in {"none", "pending", "confirmed", "transferred", "voided"}
  BY ShareCovers DEF TypeOK, Parties, CommissionRows
<1>2. back \in Nat /\ Share(o, amount) - back \in Nat
      /\ back + (Share(o, amount) - back) = Share(o, amount)
  BY <1>1 DEF AtMost
<1> HIDE DEF back
<1>3. CASE commission[o].status \in {"pending", "confirmed"}
  <2>1. planClawback(o, amount) = [NoClawback EXCEPT !.act = "void"]
    BY <1>3 DEF planClawback
  <2> QED
    BY <1>3, <2>1 DEF NoClawback, Clawbacks
<1>4. CASE commission[o].status = "transferred"
  <2>1. planClawback(o, amount) =
          [act |-> "recover", recover |-> back, shortfall |-> Share(o, amount) - back]
    BY <1>4 DEF planClawback, back
  <2> QED
    BY <1>2, <1>4, <2>1 DEF Clawbacks
<1>5. CASE commission[o].status \in {"none", "voided"}
  <2>1. planClawback(o, amount) = NoClawback
    BY <1>5 DEF planClawback
  <2> QED
    BY <1>5, <2>1 DEF NoClawback, Clawbacks
<1> QED
  BY <1>1, <1>3, <1>4, <1>5

\* The decision under the lock.
LEMMA JudgeKeeps ==
  ASSUME RefundsInv, NEW a \in Admins, NEW young \in BOOLEAN,
         NEW consumed \in Nat, NEW amount, JudgeRefund(a, young, consumed, amount)
  PROVE  RefundsInv'
<1> DEFINE o == d7[a].order
           rule == IF young /\ d7[a].first /\ ~ d7[a].cooled THEN "cooling_off" ELSE "prorated"
           most == MaxAmount(d7[a], rule, consumed)
           q == [d7[a] EXCEPT !.phase = "holding", !.amount = amount, !.rule = rule,
                              !.all = (amount = most), !.claw = planClawback(o, amount)]
<1>1. TypeOK /\ d7[a] \in Operations /\ d7[a] # None /\ o \in Orders
  BY DEF JudgeRefund, RefundsInv, TypeOK, Operations
<1>2. /\ d7[a].phase = "waiting" /\ ~ Held(o) /\ Refundable(o)
      /\ amount \in 1..most
      /\ d7' = [d7 EXCEPT ![a] = q]
      /\ UNCHANGED <<order, commission, wallet, refund, active, overlapped>>
  BY DEF JudgeRefund
<1>3. /\ most \in Int /\ d7[a].refunded + most <= WindowValue(Ancestry(o))
  BY <1>1, MostIsPaid
<1> HIDE DEF most
<1>4. amount \in Nat /\ amount > 0 /\ amount <= most
  BY <1>2, <1>3
<1>5. rule \in {"cooling_off", "prorated"} /\ (amount = most) \in BOOLEAN
  OBVIOUS
<1> HIDE DEF rule
<1>6. /\ planClawback(o, amount) \in Clawbacks
      /\ planClawback(o, amount).act = "void"
           <=> commission[o].status \in {"pending", "confirmed"}
      /\ commission[o].status = "transferred" =>
           planClawback(o, amount).recover + planClawback(o, amount).shortfall = Share(o, amount)
  BY <1>1, <1>4, ClawbackType
<1>7. q \in Operations
  <2> DEFINE all == amount = most
             claw == planClawback(o, amount)
  <2> all \in BOOLEAN /\ claw \in Clawbacks
    BY <1>6
  <2> HIDE DEF all, claw
  <2>1. [d7[a] EXCEPT !.phase = "holding", !.amount = amount, !.rule = rule,
                      !.all = all, !.claw = claw] \in Operations
    BY <1>1, <1>4, <1>5 DEF Operations
  <2> QED
    BY <2>1 DEF all, claw
<1>8. /\ q.order = o /\ q.phase = "holding" /\ q.amount = amount
      /\ q.refunded = d7[a].refunded /\ q.claw = planClawback(o, amount)
  BY <1>1 DEF Operations
<1>9. /\ d7'[a] = q /\ q # None
      /\ \A b \in Admins : b # a => d7'[b] = d7[b]
  BY <1>1, <1>2, <1>7 DEF TypeOK
<1> HIDE DEF q
<1>10. TypeOK'
  BY <1>1, <1>2, <1>7 DEF TypeOK
<1>11. RowsInv'
  BY <1>2, <1>10, OrderStep
<1>12. OneHolds'
  <2>1. \A b \in Admins : b # a /\ Holding(b)' => d7'[b].order # o
    BY <1>2, <1>9 DEF Holding, Held
  <2> QED
    BY <1>8, <1>9, <2>1 DEF RefundsInv, OneHolds, Holding
<1>13. JudgedStands'
  <2>1. \A p \in Orders : \A n : Refundable(p)' = Refundable(p) /\ Share(p, n)' = Share(p, n)
    BY <1>2 DEF Refundable, Share
  <2>2. ASSUME NEW b \in Admins, Holding(b)'
        PROVE  /\ Refundable(d7'[b].order) /\ d7'[b].amount > 0
               /\ (d7'[b].claw.act = "void")
                    <=> (commission[d7'[b].order].status \in {"pending", "confirmed"})
               /\ commission[d7'[b].order].status = "transferred" =>
                    d7'[b].claw.recover + d7'[b].claw.shortfall
                      = Share(d7'[b].order, d7'[b].amount)
    <3>1. CASE b = a
      BY <1>2, <1>4, <1>6, <1>8, <1>9, <3>1
    <3>2. CASE b # a
      BY <1>9, <2>2, <3>2 DEF RefundsInv, JudgedStands, Holding
    <3> QED
      BY <3>1, <3>2
  <2> QED
    BY <1>2, <2>2 DEF JudgedStands, Refundable, Share
<1>14. \A p \in Orders : WindowValue(Ancestry(p))' = WindowValue(Ancestry(p))
  BY <1>2 DEF WindowValue, Paid, Ancestry, Behind, Closed
<1>15. RefundsWithinPayments'
  BY <1>2, <1>14 DEF RefundsInv, RefundsWithinPayments
<1>16. AloneWithin'
  <2>1. ASSUME NEW b \in Admins, d7'[b] # None, d7'[b].order \notin overlapped'
        PROVE  /\ d7'[b].refunded = refund'[d7'[b].order].sum
               /\ \A c \in Admins : d7'[c] # None /\ d7'[c].order = d7'[b].order => b = c
               /\ d7'[b].phase = "holding" =>
                    d7'[b].refunded + d7'[b].amount <= WindowValue(Ancestry(d7[b].order))'
    <3>1. /\ d7[b] # None /\ d7[b].order = d7'[b].order /\ d7[b].order \in Orders
          /\ d7[b].refunded = d7'[b].refunded
      BY <1>1, <1>8, <1>9, <2>1 DEF TypeOK, Operations
    <3>2. \A c \in Admins : d7'[c] # None /\ d7'[c].order = d7'[b].order => b = c
      BY <1>1, <1>2, <1>8, <1>9, <2>1, <3>1 DEF RefundsInv, AloneWithin
    <3>3. d7'[b].phase = "holding" =>
            d7'[b].refunded + d7'[b].amount <= WindowValue(Ancestry(d7[b].order))
      <4>1. CASE b = a
        <5>1. d7[a].refunded \in Nat /\ WindowValue(Ancestry(o)) \in Nat
          <6>1. Ancestry(o) \in SUBSET Orders
            BY DEF Ancestry, Behind
          <6> QED
            BY <1>1, <6>1, PaidType DEF Operations
        <5> QED
          BY <1>3, <1>4, <1>8, <1>9, <4>1, <5>1
      <4>2. CASE b # a
        BY <1>2, <1>9, <2>1, <4>2 DEF RefundsInv, AloneWithin
      <4> QED
        BY <4>1, <4>2
    <3> QED
      BY <1>2, <1>14, <2>1, <3>1, <3>2, <3>3 DEF RefundsInv, AloneWithin
  <2> QED
    BY <2>1 DEF AloneWithin
<1> QED
  BY <1>10, <1>11, <1>12, <1>13, <1>15, <1>16 DEF RowsInv, RefundsInv

\* Each refund claims the share that the refunds so far and this one are due.
LEMMA ClaimAddsUp ==
  ASSUME NEW c \in Nat, NEW n \in Nat, NEW sum \in Nat, NEW back \in Nat,
         NEW amount \in Nat, NEW share \in Nat, amount > 0,
         back >= c \/ sum = 0 \/ (n > 0 /\ back * n >= c * sum),
         share = c \/ (n > 0 /\ share * n >= c * amount)
  PROVE  back + share >= c \/ (n > 0 /\ (back + share) * n >= c * (sum + amount))
<1>1. CASE back >= c \/ share = c
  BY <1>1
<1>2. CASE sum = 0 /\ n > 0 /\ share * n >= c * amount
  <2>1. back * n \in Nat /\ (back + share) * n = back * n + share * n
    OBVIOUS
  <2> QED
    BY <1>2, <2>1
<1>3. CASE n > 0 /\ back * n >= c * sum /\ share * n >= c * amount
  <2>1. /\ (back + share) * n = back * n + share * n
        /\ c * (sum + amount) = c * sum + c * amount
    OBVIOUS
  <2>2. back * n \in Nat /\ share * n \in Nat /\ c * sum \in Nat /\ c * amount \in Nat
    OBVIOUS
  <2> QED
    BY <1>3, <2>1, <2>2
<1> QED
  BY <1>1, <1>2, <1>3

\* All of a refund at once.
LEMMA CommitKeeps ==
  ASSUME RefundsInv, NEW a \in Admins, CommitRefund(a)
  PROVE  RefundsInv'
<1> DEFINE q == d7[a]
           o == q.order
           com == IF q.claw.act = "void" THEN [commission[o] EXCEPT !.status = "voided"]
                  ELSE [commission[o] EXCEPT
                          !.recovered = commission[o].recovered + q.claw.recover,
                          !.shortfall = commission[o].shortfall + q.claw.shortfall]
           status == IF q.all THEN "refunded" ELSE "partially_refunded"
           more == IF q.rule = "cooling_off" THEN 1 ELSE 0
           ref == [sum |-> refund[o].sum + q.amount, cooling |-> refund[o].cooling + more]
<1>1. /\ TypeOK /\ q \in Operations /\ q # None /\ o \in Orders /\ Holding(a)
      /\ commission[o] \in CommissionRows /\ order[o] \in OrderRows
      /\ refund[o] \in [sum : Nat, cooling : Nat]
  BY DEF CommitRefund, RefundsInv, TypeOK, Operations, Holding
<1>2. /\ d7' = [d7 EXCEPT ![a] = None] /\ overlapped' = overlapped /\ active' = FALSE
      /\ refund' = [refund EXCEPT ![o] = ref]
      /\ commission' = [commission EXCEPT ![o] = com]
      /\ order' = [order EXCEPT ![o].status = status]
      /\ wallet' = [wallet EXCEPT !["buyer"] = @ + q.amount, !["inviter"] = @ - q.claw.recover]
      /\ q.claw.recover <= wallet["inviter"]
  BY DEF CommitRefund, WalletBears
<1>3. /\ q.amount \in Nat /\ q.claw \in Clawbacks
      /\ q.claw.recover \in Nat /\ q.claw.shortfall \in Nat
  BY <1>1 DEF Operations, Clawbacks
<1>4. status \in Stopped /\ more \in Nat
  BY DEF Stopped
<1>5. com \in CommissionRows
  <2>1. /\ commission[o].recovered + q.claw.recover \in Nat
        /\ commission[o].shortfall + q.claw.shortfall \in Nat
    BY <1>1, <1>3 DEF CommissionRows
  <2> QED
    BY <1>1, <2>1 DEF CommissionRows
<1>6. ref \in [sum : Nat, cooling : Nat] /\ ref.sum = refund[o].sum + q.amount
  BY <1>1, <1>3, <1>4
<1>7. /\ com.amount = commission[o].amount /\ com.credited = commission[o].credited
      /\ com.status = IF q.claw.act = "void" THEN "voided" ELSE commission[o].status
      /\ q.claw.act # "void" =>
           /\ com.recovered = commission[o].recovered + q.claw.recover
           /\ com.shortfall = commission[o].shortfall + q.claw.shortfall
  BY <1>1 DEF CommissionRows
<1> HIDE DEF com, status, more, ref
<1>8. TypeOK'
  <2>1. order' \in [Orders -> OrderRows]
    BY <1>1, <1>2, <1>4 DEF TypeOK, OrderRows, Stopped
  <2>2. wallet' \in [Parties -> Nat]
    <3>1. /\ wallet["buyer"] + q.amount \in Nat /\ wallet["inviter"] - q.claw.recover \in Nat
      BY <1>1, <1>2, <1>3 DEF TypeOK, Parties
    <3> HIDE DEF q
    <3> QED
      BY <1>1, <1>2, <3>1 DEF TypeOK, Parties
  <2>3. commission' \in [Orders -> CommissionRows] /\ refund' \in [Orders -> [sum : Nat, cooling : Nat]]
    BY <1>1, <1>2, <1>5, <1>6 DEF TypeOK
  <2>4. d7' \in [Admins -> Operations \cup {None}]
    BY <1>1, <1>2 DEF TypeOK
  <2> QED
    BY <1>1, <1>2, <2>1, <2>2, <2>3, <2>4 DEF TypeOK
<1>9. /\ order'[o].status = status /\ order'[o].paid = order[o].paid
      /\ order'[o].balance = order[o].balance /\ order'[o].prev = order[o].prev
      /\ commission'[o] = com /\ refund'[o] = ref
  BY <1>1, <1>2 DEF TypeOK, OrderRows
<1>10. \A p \in Orders : p # o =>
         order'[p] = order[p] /\ commission'[p] = commission[p] /\ refund'[p] = refund[p]
  BY <1>1, <1>2 DEF TypeOK
<1>11. /\ (q.claw.act = "void") <=> (commission[o].status \in {"pending", "confirmed"})
       /\ q.amount > 0
       /\ commission[o].status = "transferred" =>
            q.claw.recover + q.claw.shortfall = Share(o, q.amount)
  BY <1>1 DEF RefundsInv, JudgedStands
<1> HIDE DEF q
<1>12. StatusAhead' /\ CreditedOnce' /\ FromTheStart' /\ CommissionStopped'
  <2>1. /\ order'[o].status \in Stopped
        /\ commission'[o].status \notin {"pending", "confirmed"}
        /\ commission'[o].status = "voided" => commission'[o].credited = 0
        /\ commission'[o].credited =
             IF commission'[o].status = "transferred" THEN commission'[o].amount ELSE 0
    BY <1>1, <1>4, <1>7, <1>9, <1>11 DEF RefundsInv, CreditedOnce, CommissionRows
  <2> QED
    BY <1>10, <2>1 DEF RefundsInv, StatusAhead, CreditedOnce, FromTheStart, CommissionStopped,
      Stopped
<1>13. ClaimedInStep'
  <2>1. ASSUME NEW p \in Orders, commission'[p].status = "transferred"
        PROVE  \/ ClaimedBack(p)' >= commission'[p].amount
               \/ refund'[p].sum = 0
               \/ /\ order'[p].paid > 0
                  /\ ClaimedBack(p)' * order'[p].paid >= commission'[p].amount * refund'[p].sum
    <3>1. CASE p = o
      <4>1. commission[o].status = "transferred" /\ q.claw.act # "void"
        BY <1>7, <1>9, <1>11, <2>1, <3>1
      <4> DEFINE c == commission[o].amount
                 n == order[o].paid
                 sum == refund[o].sum
                 back == ClaimedBack(o)
                 share == Share(o, q.amount)
      <4>2. c \in Nat /\ n \in Nat /\ sum \in Nat /\ back \in Nat /\ share \in Nat
        BY <1>1, <1>3, ShareCovers DEF CommissionRows, OrderRows, ClaimedBack
      <4>3. back >= c \/ sum = 0 \/ (n > 0 /\ back * n >= c * sum)
        BY <1>1, <4>1 DEF RefundsInv, ClaimedInStep
      <4>4. share = c \/ (n > 0 /\ share * n >= c * q.amount)
        BY <1>1, <1>3, ShareCovers
      <4>5. ClaimedBack(p)' = back + share
        <5>1. ClaimedBack(p)' = com.recovered + com.shortfall
          BY <1>9, <3>1 DEF ClaimedBack
        <5>2. /\ commission[o].recovered \in Nat /\ commission[o].shortfall \in Nat
          BY <1>1 DEF CommissionRows
        <5>3. share = q.claw.recover + q.claw.shortfall
          BY <1>11, <4>1
        <5> QED
          BY <1>3, <1>7, <4>1, <5>1, <5>2, <5>3 DEF ClaimedBack
      <4>6. commission'[o].amount = c /\ order'[o].paid = n /\ refund'[o].sum = sum + q.amount
        BY <1>6, <1>7, <1>9
      <4> HIDE DEF c, n, sum, back, share
      <4>7. back + share >= c \/ (n > 0 /\ (back + share) * n >= c * (sum + q.amount))
        BY <1>3, <1>11, <4>2, <4>3, <4>4, ClaimAddsUp
      <4> QED
        BY <3>1, <4>5, <4>6, <4>7
    <3>2. CASE p # o
      <4>1. /\ commission'[p] = commission[p] /\ order'[p] = order[p] /\ refund'[p] = refund[p]
            /\ ClaimedBack(p)' = ClaimedBack(p)
        BY <1>10, <3>2 DEF ClaimedBack
      <4> QED
        BY <2>1, <4>1 DEF RefundsInv, ClaimedInStep
    <3> QED
      BY <3>1, <3>2
  <2> QED
    BY <2>1 DEF ClaimedInStep
<1>14. \A p \in Orders : /\ WindowValue(Ancestry(p)) <= WindowValue(Ancestry(p))'
                         /\ WindowValue(Ancestry(p)) \in Nat /\ WindowValue(Ancestry(p))' \in Nat
  <2>1. \A p \in Orders : /\ order[p].paid <= order'[p].paid
                          /\ order[p].balance <= order'[p].balance
                          /\ order[p].prev \in Orders => order'[p].prev = order[p].prev
    BY <1>1, <1>9, <1>10 DEF TypeOK, OrderRows
  <2> QED
    BY <1>1, <1>8, <2>1, AncestryGrows
<1>15. \A b \in Admins : d7'[b] # None => b # a /\ d7'[b] = d7[b] /\ d7[b].order \in Orders
  BY <1>1, <1>2 DEF TypeOK, Operations
<1>16. OneHolds'
  BY <1>15 DEF RefundsInv, OneHolds, Holding
<1>17. JudgedStands'
  <2>1. ASSUME NEW b \in Admins, Holding(b)'
        PROVE  LET r == d7[b] IN
               /\ d7'[b] = r
               /\ Refundable(r.order)' /\ r.amount > 0
               /\ (r.claw.act = "void") <=>
                    (commission'[r.order].status \in {"pending", "confirmed"})
               /\ commission'[r.order].status = "transferred" =>
                    r.claw.recover + r.claw.shortfall = Share(r.order, r.amount)'
    <3> DEFINE p == d7[b].order
    <3>1. b # a /\ d7'[b] = d7[b] /\ p \in Orders /\ Holding(b)
      BY <1>15, <2>1 DEF Holding
    <3>2. p # o
      BY <1>1, <3>1 DEF RefundsInv, OneHolds, q
    <3>3. order'[p] = order[p] /\ commission'[p] = commission[p]
      BY <1>10, <3>1, <3>2
    <3>4. Refundable(p)' = Refundable(p) /\ \A n : Share(p, n)' = Share(p, n)
      BY <3>1, <3>3 DEF Refundable, Share
    <3> QED
      BY <3>1, <3>3, <3>4 DEF RefundsInv, JudgedStands
  <2> QED
    BY <2>1 DEF JudgedStands, Holding
<1>18. AloneWithin'
  <2>1. ASSUME NEW b \in Admins, d7'[b] # None, d7'[b].order \notin overlapped'
        PROVE  /\ d7'[b].refunded = refund'[d7'[b].order].sum
               /\ \A c \in Admins : d7'[c] # None /\ d7'[c].order = d7'[b].order => b = c
               /\ d7'[b].phase = "holding" =>
                    d7'[b].refunded + d7'[b].amount <= WindowValue(Ancestry(d7[b].order))'
    <3> DEFINE p == d7[b].order
    <3>1. b # a /\ d7'[b] = d7[b] /\ p \in Orders /\ p \notin overlapped
      BY <1>2, <1>15, <2>1
    <3>2. p # o /\ refund'[p] = refund[p]
      BY <1>1, <1>10, <2>1, <3>1 DEF RefundsInv, AloneWithin, q
    <3>3. /\ d7[b].refunded = refund[p].sum
          /\ \A c \in Admins : d7[c] # None /\ d7[c].order = p => b = c
          /\ d7[b].phase = "holding" =>
               d7[b].refunded + d7[b].amount <= WindowValue(Ancestry(p))
      BY <2>1, <3>1 DEF RefundsInv, AloneWithin
    <3>4. /\ d7[b].refunded \in Nat /\ d7[b].amount \in Nat
      BY <1>1, <2>1, <3>1 DEF TypeOK, Operations
    <3>5. /\ WindowValue(Ancestry(p)) <= WindowValue(Ancestry(p))'
          /\ WindowValue(Ancestry(p)) \in Nat /\ WindowValue(Ancestry(p))' \in Nat
      BY <1>14, <3>1
    <3>6. d7[b].phase = "holding" =>
            d7[b].refunded + d7[b].amount <= WindowValue(Ancestry(d7[b].order))'
      BY <3>3, <3>4, <3>5
    <3>7. \A c \in Admins : d7'[c] # None /\ d7'[c].order = d7'[b].order => b = c
      BY <1>15, <3>1, <3>3
    <3> QED
      BY <3>1, <3>2, <3>3, <3>6, <3>7
  <2> QED
    BY <2>1 DEF AloneWithin
<1>19. RefundsWithinPayments'
  <2>1. ASSUME NEW p \in Orders, p \notin overlapped'
        PROVE  refund'[p].sum <= WindowValue(Ancestry(p))'
    <3>1. CASE p = o
      <4>1. /\ q.refunded = refund[o].sum
            /\ q.refunded + q.amount <= WindowValue(Ancestry(o))
        BY <1>1, <1>2, <2>1, <3>1 DEF RefundsInv, AloneWithin, Holding, q
      <4>2. refund'[o].sum \in Nat /\ refund'[o].sum <= WindowValue(Ancestry(o))
        BY <1>1, <1>3, <1>6, <1>9, <4>1
      <4> QED
        BY <1>1, <1>14, <3>1, <4>2
    <3>2. CASE p # o
      <4>1. refund'[p].sum \in Nat /\ refund'[p].sum <= WindowValue(Ancestry(p))
        BY <1>1, <1>2, <1>10, <2>1, <3>2 DEF RefundsInv, RefundsWithinPayments, TypeOK
      <4> QED
        BY <1>14, <4>1
    <3> QED
      BY <3>1, <3>2
  <2> QED
    BY <2>1 DEF RefundsWithinPayments
<1> QED
  BY <1>8, <1>12, <1>13, <1>16, <1>17, <1>18, <1>19 DEF RefundsInv

\* Every step keeps the invariant.
LEMMA RefundsNext == RefundsInv /\ [Next]_vars => RefundsInv'
<1> SUFFICES ASSUME RefundsInv, [Next]_vars PROVE RefundsInv'
  OBVIOUS
<1>1. ASSUME NEW o \in Orders, Buy(o) PROVE RefundsInv'
  <2>1. ASSUME NEW price \in Prices, NEW balanceToo \in BOOLEAN, CreateOrder(o, price, balanceToo)
        PROVE  RefundsInv'
    BY <2>1, WriteKeeps DEF CreateOrder
  <2>2. ASSUME NEW price \in Prices, NEW balanceToo \in BOOLEAN, NEW src \in Orders,
               NEW surplus \in Surpluses, CreateUpgrade(o, price, balanceToo, src, surplus)
        PROVE  RefundsInv'
    <3>1. surplus \in Nat /\ src \in Orders \cup {None}
      OBVIOUS
    <3> QED
      BY <2>2, <3>1, WriteKeeps DEF CreateUpgrade
  <2> QED
    BY <1>1, <2>1, <2>2, SettleKeeps, PayKeeps, CompleteKeeps DEF Buy
<1>2. ASSUME NEW o \in Orders, Promise(o) PROVE RefundsInv'
  BY <1>2, ConfirmKeeps, TransferKeeps, AdjustKeeps DEF Promise
<1>3. ASSUME SubscriptionEnds PROVE RefundsInv'
  <2>1. TypeOK'
    BY <1>3 DEF SubscriptionEnds, RefundsInv, TypeOK
  <2> QED
    BY <1>3, <2>1, RestKeeps DEF SubscriptionEnds
<1>4. ASSUME NEW amount \in 1..wallet["inviter"], Spend(amount) PROVE RefundsInv'
  <2>1. TypeOK'
    <3>1. wallet["inviter"] - amount \in Nat
      BY <1>4 DEF RefundsInv, TypeOK, Parties
    <3> QED
      BY <1>4, <3>1 DEF Spend, RefundsInv, TypeOK
  <2> QED
    BY <1>4, <2>1, RestKeeps DEF Spend
<1>5. ASSUME NEW a \in Admins, Refund(a) PROVE RefundsInv'
  <2>1. ASSUME NEW young \in BOOLEAN, NEW consumed \in {0} \cup Surpluses,
               NEW amount \in 1..WindowValue(Orders), JudgeRefund(a, young, consumed, amount)
        PROVE  RefundsInv'
    <3>1. consumed \in Nat
      OBVIOUS
    <3> QED
      BY <2>1, <3>1, JudgeKeeps
  <2> QED
    BY <1>5, <2>1, GetKeeps, CommitKeeps, RollBackKeeps DEF Refund
<1>6. CASE UNCHANGED vars
  <2>1. TypeOK'
    BY <1>6 DEF vars, RefundsInv, TypeOK
  <2> QED
    BY <1>6, <2>1, RestKeeps DEF vars
<1> QED
  BY <1>1, <1>2, <1>3, <1>4, <1>5, <1>6 DEF Next

\* Once the refunds reach what was paid, their shares reach the commission.
LEMMA ClaimsSuffice == RefundsInv => ClawbackSuffices
<1> SUFFICES ASSUME RefundsInv, NEW o \in Orders,
                    commission[o].status = "transferred", refund[o].sum > 0,
                    refund[o].sum >= order[o].paid
             PROVE  ClaimedBack(o) >= commission[o].credited
  BY DEF ClawbackSuffices, ClaimedBack
<1> DEFINE c == commission[o].amount
           n == order[o].paid
           sum == refund[o].sum
           back == ClaimedBack(o)
<1>1. c \in Nat /\ n \in Nat /\ sum \in Nat /\ back \in Nat /\ sum > 0 /\ sum >= n
  BY DEF RefundsInv, TypeOK, CommissionRows, OrderRows, ClaimedBack
<1>2. back >= c \/ (n > 0 /\ back * n >= c * sum)
  BY <1>1 DEF RefundsInv, ClaimedInStep
<1>3. commission[o].credited = c
  BY DEF RefundsInv, CreditedOnce
<1> HIDE DEF c, n, sum, back
<1>4. CASE n > 0 /\ back * n >= c * sum
  <2>1. c * sum >= c * n
    BY <1>1
  <2>2. back * n >= c * n
    <3>1. back * n \in Nat /\ c * sum \in Nat /\ c * n \in Nat
      BY <1>1
    <3> QED
      BY <1>4, <2>1, <3>1
  <2>3. ASSUME back < c PROVE FALSE
    <3>1. PICK d \in Nat : d > 0 /\ c = back + d
      <4>1. c - back \in Nat /\ c - back > 0 /\ c = back + (c - back)
        BY <1>1, <2>3
      <4> QED
        BY <4>1
    <3>2. c * n = back * n + d * n /\ d * n > 0 /\ back * n \in Nat /\ d * n \in Nat
      BY <1>1, <1>4, <3>1
    <3> QED
      BY <2>2, <3>2
  <2> QED
    BY <1>1, <1>3, <2>3 DEF back
<1> QED
  BY <1>2, <1>3, <1>4 DEF back

-----------------------------------------------------------------------------
(* The theorems.                                                           *)

\* The invariant of orders, commissions, wallets and the refunds under way
\* (adminRefundOrder with the locks and the CHECK it relies on).
THEOREM RefundsInvariant == Spec => []RefundsInv
BY RefundsInit, RefundsNext, PTL DEF Spec

\* Whatever is ordered, taken over, paid and refunded, by however many admins
\* in whatever parts: the refunds of an order that no two of them refunded at
\* once stay within what the rows of it and of the orders it took over say was
\* paid (classifyRefund, GetRefundBasis).
THEOREM RefundsStayWithin == Spec => []RefundsWithinPayments
BY RefundsInvariant, PTL DEF RefundsInv

\* A refunded order's commission can no longer be paid out, and a voided one
\* never was, although commissions are confirmed, adjusted and transferred
\* while the refund decides (planClawback, TransferCommission).
THEOREM CommissionStops == Spec => []CommissionStopped
BY RefundsInvariant, PTL DEF RefundsInv

\* However a payment is refunded in parts, its commission is claimed back
\* whole with the last of them (AdminListOrderCommissionsForClawback, which
\* rounds each share up).
THEOREM ClawbackIsWhole == Spec => []ClawbackSuffices
BY RefundsInvariant, ClaimsSuffice, PTL

\* Orders, payments, refunds, commissions and the calls of the console keep
\* their types.
THEOREM RefundsTyped == Spec => []TypeOK
<1>1. RefundsInv => TypeOK
  BY DEF RefundsInv
<1> QED
  BY <1>1, RefundsInvariant, PTL
=============================================================================
