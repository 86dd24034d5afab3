------------------------------ MODULE MCParts -------------------------------
(***************************************************************************)
(* Instances of the parts, for TLC.                                        *)
(***************************************************************************)
EXTENDS Parts, TLC

CONSTANT e1 \* one of Emails

OneUpOneDown == {-1, 1}
\* The prices of three tiers, in cents; a period is cheaper than its months.
ByTheMonth == [t \in Tiers |-> <<5, 9, 16>>[t]]
ForThePeriod == [t \in Tiers |-> <<8, 13, 23>>[t]]
ASSUME ListsAgree == PricesAgree

\* What comes in twos is alike.  One permutation that swaps all of them at once
\* will do, since only one part moves.
Twos ==
  {Requests, Keys, Sales, Clerks, Callers, Calls, Sweeps, Revokers, Operations,
   Processes, Ports, Jobs, Kids}
Twin(x) == CHOOSE y \in UNION Twos : y # x /\ \E two \in Twos : {x, y} = two
SameKind == {[x \in UNION Twos |-> IF turned THEN Twin(x) ELSE x] : turned \in BOOLEAN}

\* Fewer beginnings will do.
MCPartsInit ==
  /\ PartsInit
  /\ admin[1].email = e1 \* which address is whose does not matter
  /\ cache = "GoogleJWKS" => part = "keys" \* one of its two beginnings will do for the others

MCPartsSpec == MCPartsInit /\ [][PartsNext]_partsVars
=============================================================================
