--------------------------- MODULE MCIdempotency ---------------------------
(***************************************************************************)
(* Instances of Idempotency for TLC: the requests of each run.             *)
(***************************************************************************)
EXTENDS Idempotency

\* Three payOrder requests, one of them for another order, and a createOrder
\* under a second key.
Orders ==
  LET pay(k, trade) ==
        [key |-> k, user |-> "u", op |-> "PayOrder", trade |-> trade, body |-> "usdt"]
  IN  [r1 |-> pay("k1", "A"), r2 |-> pay("k1", "A"), r3 |-> pay("k1", "B"),
       r4 |-> [pay("k2", "") EXCEPT !.op = "CreateOrder"]]

\* One task, delivered three times.
Batch ==
  [r \in {"r1", "r2", "r3"} |->
    [key |-> "k1", user |-> "", op |-> "RunTrafficBatchTask", trade |-> "", body |-> "batch"]]
=============================================================================
