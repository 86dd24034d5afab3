----------------------------- MODULE MCNodeSync -----------------------------
(***************************************************************************)
(* Instances of NodeSync for TLC.                                          *)
(*                                                                         *)
(* One subscriber with a plan of one report and a pack of one, with one    *)
(* date of three ahead of him, or expired and swept.  One node serves his  *)
(* group; the other serves it too, with a second group, or is not made     *)
(* yet.                                                                    *)
(***************************************************************************)
EXTENDS NodeSync

CONSTANTS n1, g1, g2, k1

Subscriber ==
  [group |-> g1, key |-> k1, banned |-> FALSE, expiry |-> "never", applied |-> "no",
   planned |-> TRUE, reset |-> "never", plan |-> 1, pack |-> 1, packEnd |-> "never",
   used |-> 0]

Subscribers ==
  {[u \in Users |-> row] :
     row \in {[Subscriber EXCEPT !.expiry = "ahead"],
              [Subscriber EXCEPT !.reset = "ahead"],
              [Subscriber EXCEPT !.packEnd = "ahead"],
              [Subscriber EXCEPT !.expiry = "past", !.applied = "this"]}}

TwoNodes ==
  {[n \in Nodes |-> IF n = n1 THEN [status |-> "on", groups |-> {g1}] ELSE other] :
     other \in {[status |-> "none", groups |-> {}],
                [status |-> "on", groups |-> {g1, g2}]}}
=============================================================================
