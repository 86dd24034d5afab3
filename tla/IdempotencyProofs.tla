------------------------- MODULE IdempotencyProofs -------------------------
(***************************************************************************)
(* Proofs about Idempotency: until a key expires its work is committed at  *)
(* most once, and what is replayed is the answer to the same request.      *)
(*                                                                         *)
(* Both rest on one fact (Holds): a request that executes, or has executed *)
(* and not yet recorded its answer, holds the row of its key, in progress  *)
(* and not expired. So no second request gets to execute under the key,    *)
(* and nobody but the owner of a row writes an answer into it.             *)
(***************************************************************************)
EXTENDS Idempotency, TLAPS

\* A request's key is one of the keys.
LEMMA KeyTyped == \A r \in Requests : KeyOf(r) \in Keys
  BY IdempotencyAssumption DEF AskType, KeyOf

\* Two requests under one key with the same fingerprint ask for the same.
LEMMA SameFingerprint ==
  ASSUME NEW q \in Requests, NEW r \in Requests,
         KeyOf(q) = KeyOf(r), Fingerprint(q) = Fingerprint(r)
  PROVE  Ask[q] = Ask[r]
<1>1. Ask[q] \in AskType /\ Ask[r] \in AskType
  BY IdempotencyAssumption
<1>2. /\ Ask[q].op = Ask[r].op /\ Ask[q].trade = Ask[r].trade
      /\ Ask[q].user = Ask[r].user /\ Ask[q].body = Ask[r].body
  BY DEF Fingerprint, Endpoint
<1>3. Ask[q].key = Ask[r].key
  BY DEF KeyOf
<1>4. QED
  BY <1>1, <1>2, <1>3 DEF AskType

\* No key is claimed at first.
LEMMA InitHolds == Init => IInv
<1> SUFFICES ASSUME Init PROVE IInv
  OBVIOUS
<1>1. TypeOK
  BY DEF Init, TypeOK, RowType, AnswerType, NoAnswer
<1>2. Holds /\ ExecutingFirst /\ AtMostOnce
  BY KeyTyped DEF Init, Holds, ExecutingFirst, AtMostOnce
<1>3. RowFaithful
  BY DEF Init, RowFaithful, NoRow
<1>4. ReplayFaithful
  BY DEF Init, ReplayFaithful, NoAnswer
<1>5. QED
  BY <1>1, <1>2, <1>3, <1>4 DEF IInv

\* What a row may be, field by field.
LEMMA RowFields ==
  ASSUME TypeOK, NEW k \in Keys
  PROVE  /\ row[k].status \in {"absent", "in_progress", "completed"}
         /\ row[k].expired \in BOOLEAN
         /\ row[k].status = "absent" => row[k] = NoRow
         /\ row[k].status # "absent" => row[k].owner \in Requests
         /\ row[k].status = "in_progress" => row[k].response = None
         /\ row[k].status = "completed" => row[k].response \in Requests
         /\ row[k].status # "absent" =>
              row[k] = [status |-> row[k].status, owner |-> row[k].owner,
                        response |-> row[k].response, expired |-> row[k].expired]
<1>1. row[k] \in RowType
  BY DEF TypeOK
<1>2. CASE row[k] = NoRow
  BY <1>2 DEF NoRow
<1>3. CASE row[k] \in [status : {"in_progress"}, owner : Requests,
                      response : {None}, expired : BOOLEAN]
  BY <1>3
<1>4. CASE row[k] \in [status : {"completed"}, owner : Requests,
                      response : Requests, expired : BOOLEAN]
  BY <1>4
<1>5. QED
  BY <1>1, <1>2, <1>3, <1>4 DEF RowType

\* An answer keeps its type.
LEMMA ReplyTyped ==
  ASSUME TypeOK, NEW r \in Requests, NEW code, NEW body,
         [code |-> code, body |-> body] \in AnswerType,
         Reply(r, code, body)
  PROVE  /\ pc' \in [Requests -> {"new", "lookup", "executing", "committed", "done"}]
         /\ answer' \in [Requests -> AnswerType]
  BY DEF TypeOK, Reply
-----------------------------------------------------------------------------
(* One lemma per action: it keeps the invariant.                           *)

\* The claim: a row is inserted where there was none, or nothing but pc moves.
LEMMA ClaimKeeps ==
  ASSUME IInv, NEW r \in Requests, ClaimIdempotencyKey(r)
  PROVE  IInv'
<1> DEFINE k == KeyOf(r)
<1>k. k \in Keys
  BY KeyTyped
<1> USE DEF IInv
<1>1. CASE row[k].status = "absent"
  <2>1. /\ row' = [row EXCEPT ![k] = Claimed(r)]
        /\ pc' = [pc EXCEPT ![r] = "executing"]
        /\ UNCHANGED <<answer, done, runs>>
    BY <1>1 DEF ClaimIdempotencyKey
  <2>2. Claimed(r) \in RowType
    BY DEF Claimed, RowType
  <2>3. TypeOK'
    BY <1>k, <2>1, <2>2 DEF TypeOK
  <2>4. runs[k] = 0
    BY <1>1, <1>k DEF RowFaithful
  <2>5. Holds'
    BY <1>1, <1>k, <2>1, KeyTyped DEF Holds, TypeOK, Claimed
  <2>6. ExecutingFirst'
    BY <2>1, <2>4 DEF ExecutingFirst, TypeOK
  <2>7. RowFaithful'
    BY <1>k, <2>1 DEF RowFaithful, TypeOK, Claimed
  <2>8. AtMostOnce' /\ ReplayFaithful'
    BY <2>1 DEF AtMostOnce, ReplayFaithful
  <2>9. QED
    BY <2>3, <2>5, <2>6, <2>7, <2>8
<1>2. CASE row[k].status # "absent"
  <2>1. pc' = [pc EXCEPT ![r] = "lookup"] /\ UNCHANGED <<row, answer, done, runs>>
    BY <1>2 DEF ClaimIdempotencyKey
  <2>2. TypeOK'
    BY <2>1 DEF TypeOK
  <2>3. Holds' /\ ExecutingFirst'
    BY <2>1 DEF Holds, ExecutingFirst, TypeOK
  <2>4. RowFaithful' /\ AtMostOnce' /\ ReplayFaithful'
    BY <2>1 DEF RowFaithful, AtMostOnce, ReplayFaithful
  <2>5. QED
    BY <2>2, <2>3, <2>4
<1>3. QED
  BY <1>1, <1>2

\* A reply that leaves everything else alone: the lookups and a stop.
LEMMA ReplyKeeps ==
  ASSUME IInv, NEW r \in Requests, NEW code, NEW body,
         [code |-> code, body |-> body] \in AnswerType,
         code = "replay" => body \in done /\ Ask[body] = Ask[r],
         Reply(r, code, body), UNCHANGED <<row, done, runs>>
  PROVE  IInv'
<1> USE DEF IInv
<1>1. TypeOK'
  BY ReplyTyped DEF TypeOK
<1>2. pc' = [pc EXCEPT ![r] = "done"] /\ answer' = [answer EXCEPT ![r] = [code |-> code, body |-> body]]
  BY DEF Reply
<1>3. Holds' /\ ExecutingFirst'
  BY <1>2 DEF Holds, ExecutingFirst, TypeOK
<1>4. RowFaithful' /\ AtMostOnce'
  BY DEF RowFaithful, AtMostOnce
<1>5. ReplayFaithful'
  BY <1>2 DEF ReplayFaithful, TypeOK
<1>6. QED
  BY <1>1, <1>3, <1>4, <1>5

\* The lookup of a claimed key: it replays, refuses or waits.
LEMMA LookupKeeps ==
  ASSUME IInv, NEW r \in Requests, GetIdempotencyKey(r)
  PROVE  IInv'
<1> DEFINE k == KeyOf(r)
<1>k. k \in Keys
  BY KeyTyped
<1>t. TypeOK /\ RowFaithful
  BY DEF IInv
<1>1. CASE LookupStale(r) \/ LookupInProgress(r)
  <2>1. Reply(r, "conflict", None) /\ UNCHANGED <<row, done, runs>>
    BY <1>1 DEF LookupStale, LookupInProgress
  <2>2. [code |-> "conflict", body |-> None] \in AnswerType
    BY DEF AnswerType
  <2>3. QED
    BY <2>1, <2>2, ReplyKeeps
<1>2. CASE LookupMismatch(r)
  <2>1. Reply(r, "mismatch", None) /\ UNCHANGED <<row, done, runs>>
    BY <1>2 DEF LookupMismatch
  <2>2. [code |-> "mismatch", body |-> None] \in AnswerType
    BY DEF AnswerType
  <2>3. QED
    BY <2>1, <2>2, ReplyKeeps
<1>3. CASE LookupReplay(r)
  <2> DEFINE b == row[k].response
  <2>1. Reply(r, "replay", b) /\ UNCHANGED <<row, done, runs>>
    BY <1>3 DEF LookupReplay
  <2>2. row[k].status = "completed" /\ Fingerprint(row[k].owner) = Fingerprint(r)
    BY <1>3 DEF LookupReplay
  <2>3. b = row[k].owner /\ b \in done /\ b \in Requests /\ KeyOf(b) = k
    BY <1>k, <1>t, <2>2, RowFields DEF RowFaithful
  <2>4. Ask[b] = Ask[r]
    BY <2>2, <2>3, SameFingerprint
  <2>5. [code |-> "replay", body |-> b] \in AnswerType
    BY <2>3 DEF AnswerType
  <2> HIDE DEF b
  <2>6. QED
    BY <2>1, <2>3, <2>4, <2>5, ReplyKeeps
<1>4. QED
  BY <1>1, <1>2, <1>3 DEF GetIdempotencyKey

\* Nobody else executes under the key of one who does.
LEMMA Alone ==
  ASSUME IInv, NEW r \in Requests, NEW q \in Requests,
         pc[r] \in {"executing", "committed"}, pc[q] \in {"executing", "committed"},
         KeyOf(q) = KeyOf(r)
  PROVE  q = r
  BY DEF IInv, Holds

\* The counter after a commit.
LEMMA CommittedKeeps ==
  ASSUME IInv, NEW r \in Requests, pc[r] = "executing", Committed(r)
  PROVE  /\ done' \subseteq Requests /\ done \subseteq done' /\ r \in done'
         /\ runs' \in [Keys -> Nat]
         /\ AtMostOnce'
         /\ \A k \in Keys : k # KeyOf(r) => runs'[k] = runs[k]
         /\ row[KeyOf(r)].status = "in_progress"
<1>1. KeyOf(r) \in Keys /\ runs[KeyOf(r)] = 0 /\ row[KeyOf(r)].status = "in_progress"
  BY KeyTyped DEF IInv, ExecutingFirst, Holds
<1>2. QED
  BY <1>1 DEF IInv, TypeOK, Committed, AtMostOnce

\* The work of a request is committed.
LEMMA WorkKeeps ==
  ASSUME IInv, NEW r \in Requests, Work(r)
  PROVE  IInv'
<1>1. pc[r] = "executing" /\ Committed(r)
  BY DEF Work
<1>2. pc' = [pc EXCEPT ![r] = "committed"] /\ UNCHANGED <<row, answer>>
  BY DEF Work
<1>c. /\ done' \subseteq Requests /\ done \subseteq done' /\ r \in done'
      /\ runs' \in [Keys -> Nat]
      /\ AtMostOnce'
      /\ \A k \in Keys : k # KeyOf(r) => runs'[k] = runs[k]
      /\ row[KeyOf(r)].status = "in_progress"
  BY <1>1, CommittedKeeps
<1>3. TypeOK'
  BY <1>2, <1>c DEF IInv, TypeOK
<1>4. Holds'
  BY <1>1, <1>2 DEF IInv, TypeOK, Holds
<1>5. ExecutingFirst'
  BY <1>1, <1>2, <1>c, Alone, KeyTyped DEF IInv, TypeOK, ExecutingFirst
<1>6. RowFaithful'
  BY <1>2, <1>c DEF IInv, RowFaithful
<1>7. ReplayFaithful'
  BY <1>2, <1>c DEF IInv, ReplayFaithful
<1>8. QED
  BY <1>3, <1>4, <1>5, <1>6, <1>7, <1>c DEF IInv

\* The work fails: the key stays claimed.
LEMMA WorkFailsKeeps ==
  ASSUME IInv, NEW r \in Requests, WorkFails(r)
  PROVE  IInv'
<1>1. pc[r] = "executing" /\ Reply(r, "error", None) /\ UNCHANGED row
  BY DEF WorkFails
<1>2. [code |-> "error", body |-> None] \in AnswerType
  BY DEF AnswerType
<1>3. CASE UNCHANGED <<done, runs>>
  BY <1>1, <1>2, <1>3, ReplyKeeps
<1>4. CASE Committed(r)
  <2>c. /\ done' \subseteq Requests /\ done \subseteq done' /\ r \in done'
        /\ runs' \in [Keys -> Nat]
        /\ AtMostOnce'
        /\ \A k \in Keys : k # KeyOf(r) => runs'[k] = runs[k]
        /\ row[KeyOf(r)].status = "in_progress"
    BY <1>1, <1>4, CommittedKeeps
  <2>1. /\ pc' = [pc EXCEPT ![r] = "done"]
        /\ answer' = [answer EXCEPT ![r] = [code |-> "error", body |-> None]]
    BY <1>1 DEF Reply
  <2>2. TypeOK'
    BY <1>1, <1>2, <2>c, ReplyTyped DEF IInv, TypeOK
  <2>3. Holds'
    BY <1>1, <2>1 DEF IInv, TypeOK, Holds
  <2>4. ExecutingFirst'
    BY <1>1, <2>1, <2>c, Alone, KeyTyped DEF IInv, TypeOK, ExecutingFirst
  <2>5. RowFaithful'
    BY <1>1, <2>c DEF IInv, RowFaithful
  <2>6. ReplayFaithful'
    BY <2>1, <2>c DEF IInv, TypeOK, ReplayFaithful
  <2>7. QED
    BY <2>2, <2>3, <2>4, <2>5, <2>6, <2>c DEF IInv
<1>5. QED
  BY <1>3, <1>4 DEF WorkFails

\* The answer is written into the row.
LEMMA CompleteKeeps ==
  ASSUME IInv, NEW r \in Requests, CompleteIdempotencyKey(r)
  PROVE  IInv'
<1> DEFINE k == KeyOf(r)
<1>1. pc[r] = "committed" /\ Reply(r, "first", r) /\ UNCHANGED <<done, runs>>
  BY DEF CompleteIdempotencyKey
<1>2. [code |-> "first", body |-> r] \in AnswerType
  BY DEF AnswerType
<1>3. CASE UNCHANGED row
  BY <1>1, <1>2, <1>3, ReplyKeeps
<1>4. CASE row' = [row EXCEPT ![k].status = "completed", ![k].response = r]
  <2>1. /\ k \in Keys /\ r \in done
        /\ row[k].status = "in_progress" /\ row[k].owner = r /\ ~row[k].expired
    BY <1>1, KeyTyped DEF IInv, Holds, ExecutingFirst
  <2>2. row'[k] = [status |-> "completed", owner |-> r, response |-> r, expired |-> FALSE]
    <3>1. row[k] \in [status : {"in_progress"}, owner : Requests,
                     response : {None}, expired : BOOLEAN]
      BY <2>1 DEF IInv, TypeOK, RowType, NoRow
    <3>2. row'[k] = [row[k] EXCEPT !.status = "completed", !.response = r]
      BY <1>4, <2>1 DEF IInv, TypeOK
    <3>3. row[k].expired = FALSE
      BY <2>1, <3>1
    <3>4. QED
      BY <2>1, <3>1, <3>2, <3>3
  <2>3. \A j \in Keys : j # k => row'[j] = row[j]
    BY <1>4, <2>1 DEF IInv, TypeOK
  <2>4. row' \in [Keys -> RowType]
    <3>1. row'[k] \in RowType
      BY <2>2 DEF RowType
    <3>2. DOMAIN row' = Keys /\ row' = [j \in DOMAIN row' |-> row'[j]]
      BY <1>4 DEF IInv, TypeOK
    <3>3. QED
      BY <2>3, <3>1, <3>2 DEF IInv, TypeOK
  <2>5. pc' = [pc EXCEPT ![r] = "done"] /\ answer' = [answer EXCEPT ![r] = [code |-> "first", body |-> r]]
    BY <1>1 DEF Reply
  <2>6. TypeOK'
    BY <1>1, <1>2, <2>4, ReplyTyped DEF IInv, TypeOK
  <2>7. Holds'
    BY <1>1, <2>3, <2>5, Alone, KeyTyped DEF IInv, TypeOK, Holds
  <2>8. ExecutingFirst'
    BY <1>1, <2>5 DEF IInv, TypeOK, ExecutingFirst
  <2>9. RowFaithful'
    BY <1>1, <2>1, <2>2, <2>3 DEF IInv, RowFaithful
  <2>10. ReplayFaithful' /\ AtMostOnce'
    BY <1>1, <2>5 DEF IInv, TypeOK, ReplayFaithful, AtMostOnce
  <2>11. QED
    BY <2>6, <2>7, <2>8, <2>9, <2>10 DEF IInv
<1>5. QED
  BY <1>3, <1>4 DEF CompleteIdempotencyKey

\* The server stops in the middle of a request.
LEMMA CrashKeeps ==
  ASSUME IInv, NEW r \in Requests, Crash(r)
  PROVE  IInv'
<1>1. Reply(r, "lost", None) /\ UNCHANGED <<row, done, runs>>
  BY DEF Crash
<1>2. [code |-> "lost", body |-> None] \in AnswerType
  BY DEF AnswerType
<1>3. QED
  BY <1>1, <1>2, ReplyKeeps

\* A row expires only when its owner is done, so nobody who holds it notices.
LEMMA ExpireKeeps ==
  ASSUME IInv, NEW k \in Keys, Expire(k)
  PROVE  IInv'
<1>1. /\ row[k].status # "absent" /\ pc[row[k].owner] = "done"
      /\ row' = [row EXCEPT ![k].expired = TRUE]
      /\ UNCHANGED <<pc, answer, done, runs>>
  BY DEF Expire
<1>2. row'[k] = [row[k] EXCEPT !.expired = TRUE]
  BY <1>1 DEF IInv, TypeOK
<1>3. \A j \in Keys : j # k => row'[j] = row[j]
  BY <1>1 DEF IInv, TypeOK
<1>4. row'[k] \in RowType
  <2>1. row[k] \in RowType /\ row[k] # NoRow
    BY <1>1 DEF IInv, TypeOK, NoRow
  <2>2. CASE row[k] \in [status : {"in_progress"}, owner : Requests,
                        response : {None}, expired : BOOLEAN]
    BY <1>2, <2>2 DEF RowType
  <2>3. CASE row[k] \in [status : {"completed"}, owner : Requests,
                        response : Requests, expired : BOOLEAN]
    BY <1>2, <2>3 DEF RowType
  <2>4. QED
    BY <2>1, <2>2, <2>3 DEF RowType
<1>5. TypeOK'
  BY <1>1, <1>3, <1>4 DEF IInv, TypeOK
<1>6. Holds'
  BY <1>1, <1>3, KeyTyped DEF IInv, Holds
<1>7. ExecutingFirst' /\ AtMostOnce' /\ ReplayFaithful'
  BY <1>1 DEF IInv, ExecutingFirst, AtMostOnce, ReplayFaithful
<1>8. /\ row'[k].status = row[k].status /\ row'[k].owner = row[k].owner
      /\ row'[k].response = row[k].response
  BY <1>1, <1>2 DEF IInv, TypeOK, RowType, NoRow
<1>9. RowFaithful'
  BY <1>1, <1>3, <1>8 DEF IInv, RowFaithful
<1>10. QED
  BY <1>5, <1>6, <1>7, <1>9 DEF IInv

\* Rows that have expired are deleted.
LEMMA CleanupKeeps ==
  ASSUME IInv, CleanupExpiredIdempotencyKeys
  PROVE  IInv'
<1>1. /\ row' = [k \in Keys |-> IF row[k].expired THEN NoRow ELSE row[k]]
      /\ runs' = [k \in Keys |-> IF row[k].expired THEN 0 ELSE runs[k]]
      /\ UNCHANGED <<pc, answer, done>>
  BY DEF CleanupExpiredIdempotencyKeys
<1>2. TypeOK'
  BY <1>1 DEF IInv, TypeOK, RowType
<1>3. Holds' /\ ExecutingFirst'
  BY <1>1, KeyTyped DEF IInv, Holds, ExecutingFirst
<1>4. RowFaithful'
  BY <1>1 DEF IInv, RowFaithful, NoRow
<1>5. AtMostOnce' /\ ReplayFaithful'
  BY <1>1 DEF IInv, AtMostOnce, ReplayFaithful
<1>6. QED
  BY <1>2, <1>3, <1>4, <1>5 DEF IInv
-----------------------------------------------------------------------------
(* The theorems.                                                           *)

\* IInv is inductive.
LEMMA NextKeeps == IInv /\ [Next]_vars => IInv'
<1> SUFFICES ASSUME IInv, [Next]_vars PROVE IInv'
  OBVIOUS
<1>1. CASE UNCHANGED vars
  BY <1>1 DEF vars, IInv, TypeOK, Holds, ExecutingFirst, RowFaithful, AtMostOnce, ReplayFaithful
<1>2. ASSUME NEW r \in Requests, Handle(r) \/ Crash(r) PROVE IInv'
  BY <1>2, ClaimKeeps, LookupKeeps, WorkKeeps, WorkFailsKeeps, CompleteKeeps, CrashKeeps DEF Handle
<1>3. ASSUME NEW k \in Keys, Expire(k) PROVE IInv'
  BY <1>3, ExpireKeeps
<1>4. QED
  BY <1>1, <1>2, <1>3, CleanupKeeps DEF Next

\* The invariant of keys and requests, whatever fails or stops.
THEOREM Invariance == Spec => []IInv
  BY InitHolds, NextKeeps, PTL DEF Spec

\* Every variable keeps its type, for any keys, requests and payloads.
THEOREM TypeCorrect == Spec => []TypeOK
<1>1. IInv => TypeOK
  BY DEF IInv
<1>2. QED
  BY <1>1, Invariance, PTL

\* The work of a key is committed at most once before the key expires: the
\* promise createOrder, payOrder and the traffic push rely on.
THEOREM WorkOnce == Spec => []AtMostOnce
<1>1. IInv => AtMostOnce
  BY DEF IInv
<1>2. QED
  BY <1>1, Invariance, PTL

\* A replayed answer is that of committed work, asked for in the same terms.
THEOREM RepliesFaithful == Spec => []ReplayFaithful
<1>1. IInv => ReplayFaithful
  BY DEF IInv
<1>2. QED
  BY <1>1, Invariance, PTL
=============================================================================
