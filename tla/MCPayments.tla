----------------------------- MODULE MCPayments -----------------------------
(***************************************************************************)
(* Instances of Payments for TLC. The cfg of each run picks how many       *)
(* orders, addresses and transfers there are; the constants that are       *)
(* functions or operators are given here.                                  *)
(***************************************************************************)
EXTENDS Payments, TLC

CONSTANT u1

\* All orders belong to one user: what they share is its wallet.
OneOwner == [o \in Orders |-> u1]
Opening3 == [u \in Users |-> 3]
NoOpening == [u \in Users |-> 0]

\* Every transfer in a transaction of its own, or all in a single one.
OwnTx == [t \in Transfers |-> t]
SharedTx == [t \in Transfers |-> "tx"]

OrderSymmetry == Permutations(Orders) \cup Permutations(Addresses)
TransferSymmetry == Permutations(Transfers)
=============================================================================
