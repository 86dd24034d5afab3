---------------------------- MODULE Idempotency ----------------------------
(***************************************************************************)
(* The idempotency keys of httpx/idempotency.go, as createOrder, payOrder, *)
(* the traffic push and the traffic-batch task use them: a request claims  *)
(* its key, runs its work, and records the answer for those that repeat it.*)
(*                                                                         *)
(* The claim, the lookup, the work and the record of the answer are each a *)
(* transaction of their own, so other requests, the clean-up and a stop of *)
(* the instance come in between. What the work does is not state here: it  *)
(* is the business of Payments and the node API.                           *)
(***************************************************************************)
EXTENDS Naturals, FiniteSets

CONSTANTS
  Keys,
  Requests,     \* deliveries: a repetition is a request of its own
  Ask,          \* what each request asks for, and under which key
  Users, Ops, Trades, Bodies,
  None

AskType == [key : Keys, user : Users, op : Ops, trade : Trades, body : Bodies]

ASSUME IdempotencyAssumption ==
  /\ Ask \in [Requests -> AskType]
  /\ None \notin Requests

VARIABLES
  row,      \* idempotency_keys, by key
  pc,       \* how far each request is
  answer,   \* what each request was answered
  done,     \* requests whose work was committed
  runs      \* work committed under each key since it last expired

vars == <<row, pc, answer, done, runs>>
-----------------------------------------------------------------------------
KeyOf(r) == Ask[r].key

\* Mutant: the order a payment is for is a path parameter, and left out.
Endpoint_NoTradeNo(r) == <<Ask[r].op, "">>

\* The operation and, for payOrder, the trade number.
Endpoint(r) == <<Ask[r].op, Ask[r].trade>>

Fingerprint(r) == <<Endpoint(r), Ask[r].user, Ask[r].body>>

NoRow == [status |-> "absent", owner |-> None, response |-> None, expired |-> FALSE]
Claimed(r) ==
  [status |-> "in_progress", owner |-> r, response |-> None, expired |-> FALSE]
NoAnswer == [code |-> "none", body |-> None]

RowType ==
  {NoRow}
  \cup [status : {"in_progress"}, owner : Requests, response : {None}, expired : BOOLEAN]
  \cup [status : {"completed"}, owner : Requests, response : Requests, expired : BOOLEAN]

AnswerType ==
  [code : {"first", "replay"}, body : Requests]
  \cup [code : {"none", "conflict", "mismatch", "error", "lost"}, body : {None}]

Init ==
  /\ row = [k \in Keys |-> NoRow]
  /\ pc = [r \in Requests |-> "new"]
  /\ answer = [r \in Requests |-> NoAnswer]
  /\ done = {}
  /\ runs = [k \in Keys |-> 0]

Reply(r, code, body) ==
  /\ pc' = [pc EXCEPT ![r] = "done"]
  /\ answer' = [answer EXCEPT ![r] = [code |-> code, body |-> body]]
-----------------------------------------------------------------------------
(* BeginIdempotent: a claim and, if the key is taken, a lookup.            *)

\* The row is inserted unless there is one, expired or not.
ClaimIdempotencyKey(r) ==
  /\ pc[r] = "new"
  /\ \/ /\ row[KeyOf(r)].status = "absent"
        /\ row' = [row EXCEPT ![KeyOf(r)] = Claimed(r)]
        /\ pc' = [pc EXCEPT ![r] = "executing"]
     \/ /\ row[KeyOf(r)].status # "absent"
        /\ pc' = [pc EXCEPT ![r] = "lookup"]
        /\ UNCHANGED row
  /\ UNCHANGED <<answer, done, runs>>

\* ErrIdempotencyKeyStale: the row expired, or was deleted since the claim.
LookupStale(r) ==
  /\ row[KeyOf(r)].status = "absent" \/ row[KeyOf(r)].expired
  /\ Reply(r, "conflict", None)
  /\ UNCHANGED <<row, done, runs>>

\* ErrIdempotencyMismatch: another user, endpoint or body.
LookupMismatch(r) ==
  /\ Fingerprint(row[KeyOf(r)].owner) # Fingerprint(r)
  /\ Reply(r, "mismatch", None)
  /\ UNCHANGED <<row, done, runs>>

LookupReplay(r) ==
  /\ Fingerprint(row[KeyOf(r)].owner) = Fingerprint(r)
  /\ row[KeyOf(r)].status = "completed"
  /\ Reply(r, "replay", row[KeyOf(r)].response)
  /\ UNCHANGED <<row, done, runs>>

\* ErrIdempotencyInProgress: there is nothing to replay, and to run the work
\* would be to run it twice.
LookupInProgress(r) ==
  /\ Fingerprint(row[KeyOf(r)].owner) = Fingerprint(r)
  /\ row[KeyOf(r)].status = "in_progress"
  /\ Reply(r, "conflict", None)
  /\ UNCHANGED <<row, done, runs>>

GetIdempotencyKey(r) ==
  /\ pc[r] = "lookup"
  /\ \/ LookupStale(r)
     \/ /\ row[KeyOf(r)].status # "absent" /\ ~row[KeyOf(r)].expired
        /\ LookupMismatch(r) \/ LookupReplay(r) \/ LookupInProgress(r)
-----------------------------------------------------------------------------
(* The work of the request that got the key, in its own transaction.       *)

Committed(r) ==
  /\ done' = done \cup {r}
  /\ runs' = [runs EXCEPT ![KeyOf(r)] = @ + 1]

Work(r) ==
  /\ pc[r] = "executing"
  /\ Committed(r)
  /\ pc' = [pc EXCEPT ![r] = "committed"]
  /\ UNCHANGED <<row, answer>>

\* Mutant: a failed request gives its key back.
WorkFails_Releases(r) ==
  /\ pc[r] = "executing"
  /\ \/ Committed(r)
     \/ UNCHANGED <<done, runs>>
  /\ Reply(r, "error", None)
  /\ row' = [row EXCEPT ![KeyOf(r)] = NoRow]

\* The request is refused or its transaction fails; of a commit whose answer
\* was lost nobody knows which. The row stays in progress.
WorkFails(r) ==
  /\ pc[r] = "executing"
  /\ \/ Committed(r)
     \/ UNCHANGED <<done, runs>>
  /\ Reply(r, "error", None)
  /\ UNCHANGED row

\* CompleteIdempotent, or its failure, which is only logged.
CompleteIdempotencyKey(r) ==
  /\ pc[r] = "committed"
  /\ \/ row' = [row EXCEPT ![KeyOf(r)].status = "completed", ![KeyOf(r)].response = r]
     \/ UNCHANGED row
  /\ Reply(r, "first", r)
  /\ UNCHANGED <<done, runs>>

\* The instance stops, and the request with it.
Crash(r) ==
  /\ pc[r] \in {"lookup", "executing", "committed"}
  /\ Reply(r, "lost", None)
  /\ UNCHANGED <<row, done, runs>>
-----------------------------------------------------------------------------
\* expires_at passes. A day outlasts every request: Cloud Run ends one after
\* two minutes, so the one that claimed the row is over by then.
Expire(k) ==
  /\ row[k].status # "absent"
  /\ ~row[k].expired
  /\ pc[row[k].owner] = "done"
  /\ row' = [row EXCEPT ![k].expired = TRUE]
  /\ UNCHANGED <<pc, answer, done, runs>>

\* Mutant: only keys with an answer are deleted.
CleanupExpiredIdempotencyKeys_Completed ==
  /\ \E k \in Keys : row[k].expired /\ row[k].status = "completed"
  /\ row' = [k \in Keys |->
       IF row[k].expired /\ row[k].status = "completed" THEN NoRow ELSE row[k]]
  /\ runs' = [k \in Keys |-> IF row[k].expired THEN 0 ELSE runs[k]]
  /\ UNCHANGED <<pc, answer, done>>

CleanupExpiredIdempotencyKeys ==
  /\ \E k \in Keys : row[k].expired
  /\ row' = [k \in Keys |-> IF row[k].expired THEN NoRow ELSE row[k]]
  /\ runs' = [k \in Keys |-> IF row[k].expired THEN 0 ELSE runs[k]]
  /\ UNCHANGED <<pc, answer, done>>
-----------------------------------------------------------------------------
Handle(r) ==
  \/ ClaimIdempotencyKey(r) \/ GetIdempotencyKey(r)
  \/ Work(r) \/ WorkFails(r)
  \/ CompleteIdempotencyKey(r)

Next ==
  \/ \E r \in Requests : Handle(r) \/ Crash(r)
  \/ \E k \in Keys : Expire(k)
  \/ CleanupExpiredIdempotencyKeys

Spec == Init /\ [][Next]_vars

\* A request that arrived is worked on or stops with its instance; the clock
\* goes on; alive-gc runs every few minutes. No request need arrive.
Fairness ==
  /\ \A r \in Requests : WF_vars(pc[r] # "new" /\ Handle(r))
  /\ \A k \in Keys : WF_vars(Expire(k))
  /\ WF_vars(CleanupExpiredIdempotencyKeys)

FairSpec == Spec /\ Fairness
-----------------------------------------------------------------------------
(* Properties.                                                             *)

\* Every variable keeps its type: in particular, a completed row holds an
\* answer, and whoever is answered with one gets one.
TypeOK ==
  /\ row \in [Keys -> RowType]
  /\ pc \in [Requests -> {"new", "lookup", "executing", "committed", "done"}]
  /\ answer \in [Requests -> AnswerType]
  /\ done \subseteq Requests
  /\ runs \in [Keys -> Nat]

\* Until a key expires, work is committed under it at most once, whatever is
\* repeated, in whatever order, wherever an instance stops, and whether or
\* not the request that ran the work learnt that it was committed.
AtMostOnce == \A k \in Keys : runs[k] <= 1

\* What is replayed is the answer to work that was committed, and that was
\* asked for by the same user in the same terms: for payOrder, the same order.
ReplayFaithful ==
  \A r \in Requests : answer[r].code = "replay" =>
    /\ answer[r].body \in done
    /\ Ask[answer[r].body] = Ask[r]

\* A key does not stay taken for ever, even if the request that claimed it
\* never came back.
KeyFreed == \A k \in Keys : row[k].status # "absent" ~> row[k].status = "absent"
-----------------------------------------------------------------------------
(* The inductive invariant the proofs rest on (IdempotencyProofs).         *)

\* Whoever runs or has run its work holds the key, and holds it alone.
Holds ==
  \A r \in Requests : pc[r] \in {"executing", "committed"} =>
    /\ row[KeyOf(r)].status = "in_progress"
    /\ row[KeyOf(r)].owner = r
    /\ ~row[KeyOf(r)].expired

ExecutingFirst ==
  \A r \in Requests :
    /\ pc[r] = "executing" => runs[KeyOf(r)] = 0
    /\ pc[r] = "committed" => r \in done

\* A row is its owner's, and so is the answer in it; without a row nothing
\* was committed since the key last expired.
RowFaithful ==
  \A k \in Keys :
    /\ row[k].status = "absent" => runs[k] = 0
    /\ row[k].status # "absent" => KeyOf(row[k].owner) = k
    /\ row[k].status = "completed" => row[k].response = row[k].owner /\ row[k].owner \in done

IInv ==
  /\ TypeOK
  /\ Holds
  /\ ExecutingFirst
  /\ RowFaithful
  /\ AtMostOnce
  /\ ReplayFaithful
-----------------------------------------------------------------------------
(* What comments of the repository say, and the code does not do.          *)

\* "Do not answer 200 as if it were finished: that execution may fail, and a
\* 200 drops the delivery": a delivery of the traffic-batch task that is
\* acknowledged leaves its work done, or somebody still at it.
AckedWorkDone ==
  \A r \in Requests :
    Ask[r].op = "RunTrafficBatchTask" /\ answer[r].code \in {"first", "replay", "conflict"} =>
      \E q \in Requests :
        KeyOf(q) = KeyOf(r) /\ (q \in done \/ pc[q] \in {"executing", "committed"})
=============================================================================
