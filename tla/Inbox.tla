------------------------------- MODULE Inbox --------------------------------
(***************************************************************************)
(* What whoever reports and whoever books the transfers of a chain promise *)
(* together, orders and addresses left out: a row says that a transfer is  *)
(* on its way or received; it is received only when the chain is final     *)
(* about it, or on an admin's word; and a row never takes back what it     *)
(* said, whatever reports come late, again, or after a reorganisation.     *)
(* Both Payments and ChainScan keep this promise, each from its own side.  *)
(***************************************************************************)

CONSTANT Transfers

VARIABLES
  fate,  \* what the chain says of a transfer
  row    \* what the database does
vars == <<fate, row>>

Init ==
  /\ fate = [t \in Transfers |-> "absent"]
  /\ row = [t \in Transfers |-> "none"]

\* The transfers of one transaction share its fate.
Move(ts, from, to) ==
  /\ \A t \in ts : fate[t] = from
  /\ fate' = [t \in Transfers |-> IF t \in ts THEN to ELSE fate[t]]
  /\ row' = row

Book(t, from, to) ==
  /\ row[t] \in from
  /\ row' = [row EXCEPT ![t] = to]
  /\ fate' = fate

\* A transfer is heard of, received, or vouched for by an admin.
Hear(t) == fate[t] # "absent" /\ Book(t, {"none"}, "confirming")
Receive(t) == fate[t] = "solidified" /\ Book(t, {"none", "confirming"}, "paid")
Vouch(t) == Book(t, {"none"}, "vouched")

Next ==
  \/ \E ts \in SUBSET Transfers :
       \/ Move(ts, "absent", "confirming")
       \/ Move(ts, "confirming", "solidified")
       \/ Move(ts, "confirming", "orphaned")
  \/ \E t \in Transfers : Hear(t) \/ Receive(t) \/ Vouch(t)

Spec == Init /\ [][Next]_vars
=============================================================================
