------------------------------ MODULE Catalog ------------------------------
(***************************************************************************)
(* The plans and coupons an admin edits while orders are placed on them    *)
(* (handler/admin_catalog.go, handler/order.go).                           *)
(*                                                                         *)
(* An order is judged on what it reads of its plan and coupon before its   *)
(* transaction; the transaction takes one use of the coupon, holding its   *)
(* row, and the foreign key of the order holds the plan's row.             *)
(*                                                                         *)
(* An admin's operation is one transaction whose first statement counts    *)
(* the orders in its snapshot and then waits for the row.  The row itself  *)
(* is seen fresh, the counts are not.                                      *)
(***************************************************************************)
EXTENDS Integers, FiniteSets, Common

CONSTANTS
  Plans, Coupons, Sales, Clerks,
  UseLimits     \* the limits a coupon is given

Kinds == {"cycle", "pack"}
SaleRows ==
  [phase : {"none", "drafted", "writing", "open", "closed"},
   plan : Plans \cup {None}, type : Kinds \cup {None},
   coupon : Coupons \cup {None}, discounted : BOOLEAN]
NoSale == [phase |-> "none", plan |-> None, type |-> None,
           coupon |-> None, discounted |-> FALSE]
\* What an operation found in its snapshot.
DeskWork ==
  [act : {"edit plan", "archive plan"}, on : Plans,
   counted : SUBSET Sales, unsettled : SUBSET Sales]
  \cup
  [act : {"edit coupon", "delete coupon"}, on : Coupons,
   counted : SUBSET Sales, unsettled : SUBSET Sales]

ASSUME CatalogAssumption ==
  /\ None \notin Plans \cup Coupons \cup Kinds
  /\ None \notin DeskWork
  /\ UseLimits \subseteq Nat

VARIABLES
  plan,      \* plans
  coupon,    \* coupons
  sale,      \* orders, as their requests write them
  desk,      \* per admin, the operation under way
  overtaken  \* history: the orders written across a change of their plan or coupon

catalogVars == <<plan, coupon, sale, desk, overtaken>>

CatalogTypeOK ==
  /\ plan \in [Plans -> [state : {"none", "listed", "archived"}, kind : Kinds]]
  /\ coupon \in [Coupons -> [state : {"none", "live", "ended", "deleted"},
                             used : Nat, limit : Nat]]
  /\ sale \in [Sales -> SaleRows]
  /\ desk \in [Clerks -> DeskWork \cup {None}]
  /\ overtaken \in SUBSET Sales

CatalogInit ==
  /\ plan = [p \in Plans |-> [state |-> "none", kind |-> "cycle"]]
  /\ coupon = [c \in Coupons |-> [state |-> "none", used |-> 0, limit |-> 0]]
  /\ sale = [o \in Sales |-> NoSale]
  /\ desk = [a \in Clerks |-> None]
  /\ overtaken = {}

Phase(phases) == {o \in Sales : sale[o].phase \in phases}
Written == Phase({"open", "closed"})
OfPlan(p) == {o \in Sales : sale[o].plan = p}
OfCoupon(c) == {o \in Sales : sale[o].coupon = c}
\* Rows a transaction of an order holds.
PlanHeld(p) == OfPlan(p) \cap Phase({"writing"}) # {}
CouponHeld(c) == OfCoupon(c) \cap Phase({"writing"}) # {}

(***************************************************************************)
(* Orders                                                                  *)
(***************************************************************************)
\* VerifyCouponForUser and evaluateCoupon.
EvaluateCoupon(c) ==
  coupon[c].state = "live" /\ coupon[c].used < coupon[c].limit

\* buildOrderDraft: the plan has to be on sale, and its kind gives the type.
BuildOrderDraft(o, p, c) ==
  /\ sale[o].phase = "none"
  /\ plan[p].state = "listed"
  /\ c # None => EvaluateCoupon(c)
  /\ sale' = [sale EXCEPT ![o] =
       [phase |-> "drafted", plan |-> p, type |-> plan[p].kind,
        coupon |-> c, discounted |-> c # None]]
  /\ UNCHANGED <<plan, coupon, desk, overtaken>>

\* IncrementCouponUse waits for the row and judges it again.
IncrementCouponUse(c) ==
  /\ ~ CouponHeld(c)
  /\ coupon[c].state \in {"live", "ended"} /\ coupon[c].used < coupon[c].limit

\* writeOrder up to its commit; neither row can be had by an admin until then.
WriteOrder(o) ==
  /\ sale[o].phase = "drafted"
  /\ sale[o].coupon # None => IncrementCouponUse(sale[o].coupon)
  /\ sale' = [sale EXCEPT ![o] = [@ EXCEPT !.phase = "writing"]]
  /\ UNCHANGED <<plan, coupon, desk, overtaken>>

\* The commit, or a failure of a later statement (reserveOrderBalance), which
\* takes the use of the coupon back with the order.
CommitOrder(o) ==
  /\ sale[o].phase = "writing"
  /\ sale' = [sale EXCEPT ![o] = [@ EXCEPT !.phase = "open"]]
  /\ coupon' = IF sale[o].coupon = None THEN coupon
               ELSE [coupon EXCEPT ![sale[o].coupon].used = @ + 1]
  /\ UNCHANGED <<plan, desk, overtaken>>

RollBackOrder(o) ==
  /\ sale[o].phase = "writing"
  /\ sale' = [sale EXCEPT ![o] = NoSale]
  /\ overtaken' = overtaken \ {o}
  /\ UNCHANGED <<plan, coupon, desk>>

\* errCouponRaced: the coupon is gone or used up by now.
CouponRaced(o) ==
  LET c == sale[o].coupon IN
  /\ sale[o].phase = "drafted" /\ c # None
  /\ ~ CouponHeld(c) /\ ~ IncrementCouponUse(c)
  /\ sale' = [sale EXCEPT ![o] = NoSale]
  /\ overtaken' = overtaken \ {o}
  /\ UNCHANGED <<plan, coupon, desk>>

\* Paid for or cancelled.
OrderCloses(o) ==
  /\ sale[o].phase = "open"
  /\ sale' = [sale EXCEPT ![o] = [@ EXCEPT !.phase = "closed"]]
  /\ UNCHANGED <<plan, coupon, desk, overtaken>>

(***************************************************************************)
(* Plans                                                                   *)
(***************************************************************************)
CreateAdminPlan(p, kind) ==
  /\ plan[p].state = "none"
  /\ plan' = [plan EXCEPT ![p] = [state |-> "listed", kind |-> kind]]
  /\ UNCHANGED <<coupon, sale, desk, overtaken>>

\* AdminGetPlanForUpdate: the counts, before the row is had.
AdminGetPlanForUpdate(a, p, act) ==
  /\ desk[a] = None
  /\ plan[p].state # "none"
  /\ desk' = [desk EXCEPT ![a] =
       [act |-> act, on |-> p, counted |-> OfPlan(p) \cap Written,
        unsettled |-> OfPlan(p) \cap Phase({"open"})]]
  /\ UNCHANGED <<plan, coupon, sale, overtaken>>

\* The orders that read the plan before its change and were not counted.
PlanMissed(p, counted) == OfPlan(p) \ counted

\* Mutant: the kind of a plan with orders may change.
AdminUpdatePlan_AnyKind(p, kind, counted) ==
  /\ plan' = [plan EXCEPT ![p] = [@ EXCEPT !.kind = kind]]
  /\ overtaken' = IF plan[p].kind = kind THEN overtaken ELSE overtaken \cup PlanMissed(p, counted)

\* updateAdminPlan: no change of kind once there are orders.
AdminUpdatePlan(p, kind, counted) ==
  IF plan[p].kind # kind /\ counted # {} THEN UNCHANGED <<plan, overtaken>>
  ELSE /\ plan' = [plan EXCEPT ![p] = [@ EXCEPT !.kind = kind]]
       /\ overtaken' = IF plan[p].kind = kind THEN overtaken
                       ELSE overtaken \cup PlanMissed(p, counted)

UpdateAdminPlan(a, kind) ==
  /\ desk[a] # None /\ desk[a].act = "edit plan"
  /\ ~ PlanHeld(desk[a].on)
  /\ AdminUpdatePlan(desk[a].on, kind, desk[a].counted)
  /\ desk' = [desk EXCEPT ![a] = None]
  /\ UNCHANGED <<coupon, sale>>

\* deleteAdminPlan: refused while an order is unsettled, or when already done.
AdminArchivePlan(p, work) ==
  IF work.unsettled # {} \/ plan[p].state = "archived" THEN UNCHANGED <<plan, overtaken>>
  ELSE /\ plan' = [plan EXCEPT ![p] = [@ EXCEPT !.state = "archived"]]
       /\ overtaken' = overtaken \cup PlanMissed(p, work.counted)

DeleteAdminPlan(a) ==
  /\ desk[a] # None /\ desk[a].act = "archive plan"
  /\ ~ PlanHeld(desk[a].on)
  /\ AdminArchivePlan(desk[a].on, desk[a])
  /\ desk' = [desk EXCEPT ![a] = None]
  /\ UNCHANGED <<coupon, sale>>

(***************************************************************************)
(* Coupons                                                                 *)
(***************************************************************************)
CreateAdminCoupon(c, limit) ==
  /\ coupon[c].state = "none"
  /\ coupon' = [coupon EXCEPT ![c] = [@ EXCEPT !.state = "live", !.limit = limit]]
  /\ UNCHANGED <<plan, sale, desk, overtaken>>

AdminGetCouponForUpdate(a, c, act) ==
  /\ desk[a] = None
  /\ coupon[c].state \in {"live", "ended"}
  /\ desk' = [desk EXCEPT ![a] =
       [act |-> act, on |-> c, counted |-> OfCoupon(c) \cap Written, unsettled |-> {}]]
  /\ UNCHANGED <<plan, coupon, sale, overtaken>>

\* couponEndsAtForWrite when the request names no end: a request that does not
\* say enabled clears the end of the coupon, even a past one.
CouponEndsAtForWrite(disabled) == IF disabled THEN "ended" ELSE "live"

\* The row may have been deleted while the update waited; uses are not touched.
UpdateAdminCoupon(a, disabled, limit) ==
  /\ desk[a] # None /\ desk[a].act = "edit coupon"
  /\ ~ CouponHeld(desk[a].on)
  /\ coupon' = IF coupon[desk[a].on].state = "deleted" THEN coupon
               ELSE [coupon EXCEPT ![desk[a].on] =
                      [@ EXCEPT !.state = CouponEndsAtForWrite(disabled), !.limit = limit]]
  /\ desk' = [desk EXCEPT ![a] = None]
  /\ UNCHANGED <<plan, sale, overtaken>>

\* ON DELETE SET NULL: what still names the coupon names none.
ForgetCoupon(c) ==
  sale' = [o \in Sales |-> IF o \in OfCoupon(c) \cap Written
                             THEN [sale[o] EXCEPT !.coupon = None] ELSE sale[o]]

\* deleteAdminCoupon: refused once an order refers to it.
AdminDeleteCoupon(c, counted) ==
  IF counted # {} \/ coupon[c].state = "deleted" THEN UNCHANGED <<coupon, sale, overtaken>>
  ELSE /\ coupon' = [coupon EXCEPT ![c] = [@ EXCEPT !.state = "deleted"]]
       /\ ForgetCoupon(c)
       /\ overtaken' = overtaken \cup (OfCoupon(c) \cap Written)

DeleteAdminCoupon(a) ==
  /\ desk[a] # None /\ desk[a].act = "delete coupon"
  /\ ~ CouponHeld(desk[a].on)
  /\ AdminDeleteCoupon(desk[a].on, desk[a].counted)
  /\ desk' = [desk EXCEPT ![a] = None]
  /\ UNCHANGED plan

CatalogNext ==
  \/ \E o \in Sales :
       \/ \E p \in Plans, c \in Coupons \cup {None} : BuildOrderDraft(o, p, c)
       \/ WriteOrder(o) \/ CommitOrder(o) \/ RollBackOrder(o) \/ CouponRaced(o)
       \/ OrderCloses(o)
  \/ \E p \in Plans, kind \in Kinds : CreateAdminPlan(p, kind)
  \/ \E c \in Coupons, limit \in UseLimits : CreateAdminCoupon(c, limit)
  \/ \E a \in Clerks :
       \/ \E p \in Plans, act \in {"edit plan", "archive plan"} : AdminGetPlanForUpdate(a, p, act)
       \/ \E kind \in Kinds : UpdateAdminPlan(a, kind)
       \/ DeleteAdminPlan(a)
       \/ \E c \in Coupons, act \in {"edit coupon", "delete coupon"} :
            AdminGetCouponForUpdate(a, c, act)
       \/ \E disabled \in BOOLEAN, limit \in UseLimits :
            UpdateAdminCoupon(a, disabled, limit)
       \/ DeleteAdminCoupon(a)

CatalogSpec == CatalogInit /\ [][CatalogNext]_catalogVars

(***************************************************************************)
(* What has to hold                                                        *)
(***************************************************************************)
\* A use counted is an order written: an order rolled back leaves none behind.
UsesCounted ==
  \A c \in Coupons : coupon[c].state # "deleted" =>
    coupon[c].used = Cardinality(OfCoupon(c) \cap Written)

\* An order that was not being placed while its plan or coupon was changed can
\* be held against them: unless it is closed its plan is still on sale, its type
\* is the kind of its plan, and a discount names the coupon it came from; and
\* each coupon's count of uses is the number of orders that name it.
SoldAsListed ==
  /\ \A o \in Written \ overtaken :
       /\ sale[o].phase = "open" => plan[sale[o].plan].state = "listed"
       /\ sale[o].type = plan[sale[o].plan].kind
       /\ sale[o].discounted => sale[o].coupon # None
  /\ UsesCounted

(***************************************************************************)
(* The inductive invariant                                                 *)
(***************************************************************************)
\* An order not overtaken agrees with its plan from the draft on.
DraftedAsListed ==
  \A o \in Sales : sale[o].phase # "none" =>
    /\ sale[o].plan \in Plans /\ plan[sale[o].plan].state # "none"
    /\ o \notin overtaken =>
         /\ sale[o].phase # "closed" => plan[sale[o].plan].state = "listed"
         /\ sale[o].type = plan[sale[o].plan].kind
         /\ sale[o].discounted => sale[o].coupon # None

\* An order that was settled when it was counted stays so.
CountedSettled ==
  \A a \in Clerks : (desk[a] # None /\ desk[a].act = "archive plan") =>
    \A o \in desk[a].counted \ desk[a].unsettled : sale[o].phase = "closed"

CatalogInv ==
  CatalogTypeOK /\ IsFiniteSet(Written) /\ DraftedAsListed /\ CountedSettled /\ UsesCounted
=============================================================================
