----------------------------- MODULE MCRefunds ------------------------------
(***************************************************************************)
(* Instances of Refunds for TLC.                                           *)
(***************************************************************************)
EXTENDS Refunds, TLC

Cuts == {-1}

AdminSymmetry == Permutations(Admins)
=============================================================================
