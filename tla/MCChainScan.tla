---------------------------- MODULE MCChainScan ----------------------------
(***************************************************************************)
(* Instances of ChainScan for TLC.                                         *)
(***************************************************************************)
EXTENDS ChainScan, TLC

CONSTANTS a1, a2

\* The addresses were made in order; every transfer goes to a1.
Ids == [a \in Addresses |-> IF a = a1 THEN 1 ELSE IF a = a2 THEN 2 ELSE 3]
AllToOne == [t \in Transfers |-> a1]

TransferSymmetry == Permutations(Transfers)
=============================================================================
