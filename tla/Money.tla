------------------------------- MODULE Money -------------------------------
(***************************************************************************)
(* The integer arithmetic that turns an amount due in CNY cents into an    *)
(* amount of USDT to ask for on the chain, and an amount of USDT received  *)
(* back into cents (api/internal/handler/order.go).                        *)
(*                                                                         *)
(* The code writes the decimal factors out; here they are constants, so    *)
(* that TLC can run the same formulas on small numbers:                    *)
(*   CentScale  10^8: USDT is counted in 10^-6 units and the rate, CNY per *)
(*              USDT, in 10^-4 units, so cents = units * rate / 10^8;      *)
(*   BpsBase    10^4, the base of the exchange buffer;                     *)
(*   FxBuffer   the exchange buffer in basis points (a setting);           *)
(*   Tick       10^4 units = 0.01 USDT, the grain of a quote;              *)
(*   Int64Max   the largest value of a bigint column or an int64.          *)
(***************************************************************************)
EXTENDS Integers

CONSTANTS CentScale, BpsBase, FxBuffer, Tick, Int64Max

ASSUME MoneyAssumption ==
  /\ CentScale \in Nat \ {0}
  /\ BpsBase \in Nat \ {0}
  /\ FxBuffer \in Nat
  /\ Tick \in Nat \ {0}
  /\ Int64Max \in Nat

\* What a bigint column or an int64 can hold. A value outside it makes the
\* code return an error before anything is written.
Int64 == (-Int64Max) .. Int64Max

Pos(n) == IF n > 0 THEN n ELSE 0
Least(m, n) == IF m < n THEN m ELSE n

ceilDivBig(a, b) == (a + b - 1) \div b

\* quoteUSDT6 asks for the exact equivalent plus the buffer, rounded up twice.
quoteUSDT6(due, rate) ==
  LET units == ceilDivBig(due * CentScale * (BpsBase + FxBuffer), rate * BpsBase)
  IN  ceilDivBig(units, Tick) * Tick

\* usdt6ToCents rounds down, for it feeds wallets and must not create money;
\* an amount it cannot represent is dropped to 0.
usdt6ToCents(units, rate) ==
  LET cents == (units * rate) \div CentScale
  IN  IF units <= 0 \/ rate <= 0 \/ cents > Int64Max THEN 0 ELSE cents
=============================================================================
