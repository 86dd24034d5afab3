------------------------------- MODULE Escrow -------------------------------
(***************************************************************************)
(* What the order and wallet handlers promise together, with everything    *)
(* that happens in between left out: an order holds money of its owner's   *)
(* wallet from the moment it exists, and either keeps it or gives all of   *)
(* it back, once; beyond that a wallet only ever grows, when a deposit is  *)
(* settled.                                                                *)
(***************************************************************************)
EXTENDS Integers

CONSTANTS Users, Orders, Owner, Opening,
          Credits   \* what one deposit may add to a wallet, 0 included

VARIABLES wallet, phase, held
vars == <<wallet, phase, held>>

Init ==
  /\ wallet = Opening
  /\ phase = [o \in Orders |-> "none"]
  /\ held = [o \in Orders |-> 0]

\* n leaves the owner's wallet for the order.
Take(o, n) ==
  /\ n <= wallet[Owner[o]]
  /\ wallet' = [wallet EXCEPT ![Owner[o]] = @ - n]
  /\ held' = [held EXCEPT ![o] = @ + n]

Create(o, n) ==
  /\ phase[o] = "none"
  /\ phase' = [phase EXCEPT ![o] = "open"]
  /\ Take(o, n)

\* The order is paid from the wallet.
Pay(o, n) ==
  /\ phase[o] = "open"
  /\ phase' = [phase EXCEPT ![o] = "kept"]
  /\ Take(o, n)

Return(o) ==
  /\ phase[o] = "open"
  /\ phase' = [phase EXCEPT ![o] = "returned"]
  /\ wallet' = [wallet EXCEPT ![Owner[o]] = @ + held[o]]
  /\ held' = [held EXCEPT ![o] = 0]

\* A deposit is settled: it may pay an open order, and it may add to the
\* wallet of the order's owner.
Deposit(o, n) ==
  /\ phase[o] # "none"
  /\ \/ phase' = phase
     \/ phase[o] = "open" /\ phase' = [phase EXCEPT ![o] = "kept"]
  /\ wallet' = [wallet EXCEPT ![Owner[o]] = @ + n]
  /\ held' = held

Next ==
  \E o \in Orders :
    \/ \E n \in 0 .. wallet[Owner[o]] : Create(o, n) \/ Pay(o, n)
    \/ Return(o)
    \/ \E n \in Credits : Deposit(o, n)

Spec == Init /\ [][Next]_vars
=============================================================================
