---------------------------- MODULE MCAccounts ----------------------------
(***************************************************************************)
(* Instances of Accounts for TLC: two addresses, at most one with an       *)
(* account at the start; a seed code of one use.                           *)
(***************************************************************************)
EXTENDS Accounts, TLC

CONSTANT i1

\* Somebody has an account and no code is made yet; or nobody has one, and
\* there is a seed code.
Made == [NoAccount EXCEPT !.made = TRUE]
Seed == [NotMinted EXCEPT !.minted = TRUE, !.max = 1]

OwnerOrSeed ==
  {[account |-> [e \in Emails |-> IF e = owner THEN Made ELSE NoAccount],
    invite |-> [i \in Invites |-> NotMinted]] : owner \in Emails}
  \cup
  {[account |-> [e \in Emails |-> NoAccount],
    invite |-> [i \in Invites |-> IF i = i1 THEN Seed ELSE NotMinted]]}

SameKind == Permutations(Reqs) \cup Permutations(Emails)
===========================================================================
