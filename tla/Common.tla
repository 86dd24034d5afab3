------------------------------- MODULE Common -------------------------------
(***************************************************************************)
(* What the modules that are checked side by side share.                   *)
(***************************************************************************)
CONSTANT None \* no value: NULL, undefined, nobody
=============================================================================
