-------------------------------- MODULE Mail --------------------------------
(***************************************************************************)
(* email_log as a queue, and who fills and empties it                      *)
(* (handler/task.go: remind-sweep and mail-send; handler/admin_catalog.go: *)
(* broadcasts; handler/auth.go: codes).                                    *)
(*                                                                         *)
(* mail-send is delivered by Cloud Tasks at least once per row, so any     *)
(* number of calls may be under way for one row.  A row is claimed before  *)
(* the message is handed over, and a call may stop anywhere after that.    *)
(***************************************************************************)
EXTENDS Integers, FiniteSets, Common

CONSTANTS
  Mails,      \* rows of email_log
  People,     \* users
  Calls,      \* mail-send calls
  Sweeps,     \* remind-sweep calls
  LastDay     \* bound on time

Templates == {"verify_code", "expire_remind", "domain_broadcast"}
MailRows ==
  [status : {"none", "queued", "sent", "failed"},
   template : Templates \cup {None}, to : People \cup {None}, day : 0..LastDay]

ASSUME MailAssumption ==
  /\ None \notin People \cup Templates
  /\ LastDay \in Nat

VARIABLES
  mail,       \* email_log
  delivered,  \* how often the ESP took each of them
  call,       \* per mail-send call, the row it claimed and how far it is
  sweep,      \* per remind-sweep transaction, the users it found
  wired,      \* an ESP is configured
  today,
  doubled     \* history: who was found by two sweeps of a day at once

mailVars == <<mail, delivered, call, sweep, wired, today, doubled>>

CallRows == [row : Mails, phase : {"claimed", "done", "refused"}]

MailTypeOK ==
  /\ mail \in [Mails -> MailRows]
  /\ delivered \in [Mails -> Nat]
  /\ call \in [Calls -> CallRows \cup {None}]
  /\ sweep \in [Sweeps -> SUBSET People]
  /\ wired \in BOOLEAN
  /\ today \in 0..LastDay
  /\ doubled \in SUBSET (People \X (0..LastDay))

MailInit ==
  /\ mail = [m \in Mails |-> [status |-> "none", template |-> None, to |-> None, day |-> 0]]
  /\ delivered = [m \in Mails |-> 0]
  /\ call = [c \in Calls |-> None]
  /\ sweep = [s \in Sweeps |-> {}]
  /\ wired = FALSE
  /\ today = 0
  /\ doubled = {}

Free == {m \in Mails : mail[m].status = "none"}
Row(status, template, person) ==
  [status |-> status, template |-> template, to |-> person, day |-> today]

\* One new row for each of these people.
Enqueue(people, template) ==
  \E slot \in [people -> Free] :
    /\ \A p, q \in people : slot[p] = slot[q] => p = q
    /\ mail' = [m \in Mails |->
         IF \E p \in people : slot[p] = m
           THEN Row("queued", template, CHOOSE p \in people : slot[p] = m) ELSE mail[m]]

(***************************************************************************)
(* Who writes rows                                                         *)
(***************************************************************************)
\* A row of the day for the same template, whatever became of it.
RemindedToday(p) ==
  \E m \in Mails : mail[m].status # "none" /\ mail[m].to = p
                   /\ mail[m].template = "expire_remind" /\ mail[m].day = today

\* Mutant: only rows still waiting are looked at.
ListRemindableExpiringUsers_Waiting(due) ==
  {p \in due : ~ \E m \in Mails : mail[m].status = "queued" /\ mail[m].to = p
                   /\ mail[m].template = "expire_remind" /\ mail[m].day = today}

\* Of those whose subscription ends soon, the ones with no reminder of today.
ListRemindableExpiringUsers(due) == {p \in due : ~ RemindedToday(p)}

FoundElsewhere(s) == UNION {sweep[x] : x \in Sweeps \ {s}}

\* runRemindSweep, first statement.
RemindSweepFinds(s, due) ==
  LET found == ListRemindableExpiringUsers(due) IN
  /\ sweep[s] = {}
  /\ found # {}
  /\ sweep' = [sweep EXCEPT ![s] = found]
  /\ doubled' = doubled \cup {<<p, today>> : p \in found \cap FoundElsewhere(s)}
  /\ UNCHANGED <<mail, delivered, call, wired, today>>

\* EnqueueReminderMails and the commit.
RemindSweepQueues(s) ==
  /\ sweep[s] # {}
  /\ Enqueue(sweep[s], "expire_remind")
  /\ sweep' = [sweep EXCEPT ![s] = {}]
  /\ UNCHANGED <<delivered, call, wired, today, doubled>>

\* broadcastAdminMail: 422 when there is nobody to write to.
BroadcastAdminMail(audience) ==
  /\ audience # {}
  /\ Enqueue(audience, "domain_broadcast")
  /\ UNCHANGED <<delivered, call, sweep, wired, today, doubled>>

\* issueVerification without an ESP keeps a row that nothing can render.
IssueVerificationUnwired(p, m) ==
  /\ ~ wired /\ m \in Free
  /\ mail' = [mail EXCEPT ![m] = Row("queued", "verify_code", p)]
  /\ UNCHANGED <<delivered, call, sweep, wired, today, doubled>>

\* With one the code is sent at once, and the row says how that went; a failure
\* may be one the ESP reports of a message it took.
IssueVerificationSent(p, m, status, taken) ==
  /\ wired /\ m \in Free
  /\ status = "sent" => taken = 1
  /\ delivered' = [delivered EXCEPT ![m] = taken]
  /\ mail' = [mail EXCEPT ![m] = Row(status, "verify_code", p)]
  /\ UNCHANGED <<call, sweep, wired, today, doubled>>

(***************************************************************************)
(* mail-send                                                               *)
(***************************************************************************)
\* ClaimQueuedMail.
ClaimQueuedMail(m) == mail[m].status = "queued"

\* runMailSend: nothing without an ESP, nothing for a row that is not queued.
RunMailSend(c, m) ==
  /\ call[c] = None /\ wired
  /\ ClaimQueuedMail(m)
  /\ mail' = [mail EXCEPT ![m] = [@ EXCEPT !.status = "sent"]]
  /\ call' = [call EXCEPT ![c] = [row |-> m, phase |-> "claimed"]]
  /\ UNCHANGED <<delivered, sweep, wired, today, doubled>>

\* bodyForQueuedTemplate.
Renderable(m) == mail[m].template \in {"expire_remind", "domain_broadcast"}

\* The ESP took the message and said so.
SendSucceeds(c) ==
  /\ call[c] # None /\ call[c].phase = "claimed" /\ Renderable(call[c].row)
  /\ delivered' = [delivered EXCEPT ![call[c].row] = @ + 1]
  /\ call' = [call EXCEPT ![c] = [@ EXCEPT !.phase = "done"]]
  /\ UNCHANGED <<mail, sweep, wired, today, doubled>>

\* An error, also of a message the ESP took; or no body to send.
SendFails(c, taken) ==
  /\ call[c] # None /\ call[c].phase = "claimed"
  /\ taken = 1 => Renderable(call[c].row)
  /\ delivered' = [delivered EXCEPT ![call[c].row] = @ + taken]
  /\ call' = [call EXCEPT ![c] = [@ EXCEPT !.phase = "refused"]]
  /\ UNCHANGED <<mail, sweep, wired, today, doubled>>

\* Mutant: a message that could not be sent goes back into the queue.
MarkMailSendFailed_Requeue(row) ==
  IF row.status = "sent" THEN [row EXCEPT !.status = "queued"] ELSE row

MarkMailSendFailed(row) ==
  IF row.status = "sent" THEN [row EXCEPT !.status = "failed"] ELSE row

\* What is written last: the provider's id, or that it failed.
MailSendEnds(c) ==
  /\ call[c] # None /\ call[c].phase \in {"done", "refused"}
  /\ mail' = IF call[c].phase = "refused"
               THEN [mail EXCEPT ![call[c].row] = MarkMailSendFailed(@)] ELSE mail
  /\ call' = [call EXCEPT ![c] = None]
  /\ UNCHANGED <<delivered, sweep, wired, today, doubled>>

\* The process ends, or the last statement fails.
MailSendStops(c) ==
  /\ call[c] # None
  /\ call' = [call EXCEPT ![c] = None]
  /\ UNCHANGED <<mail, delivered, sweep, wired, today, doubled>>

(***************************************************************************)
(* Surroundings                                                            *)
(***************************************************************************)
\* A release with an ESP.
Wire ==
  /\ ~ wired /\ wired' = TRUE
  /\ UNCHANGED <<mail, delivered, call, sweep, today, doubled>>

\* No sweep takes so long that it ends on another day.
NewDay ==
  /\ today < LastDay /\ today' = today + 1
  /\ \A s \in Sweeps : sweep[s] = {}
  /\ UNCHANGED <<mail, delivered, call, sweep, wired, doubled>>

MailNext ==
  \/ \E s \in Sweeps :
       \/ \E due \in SUBSET People : RemindSweepFinds(s, due)
       \/ RemindSweepQueues(s)
  \/ \E audience \in SUBSET People : BroadcastAdminMail(audience)
  \/ \E p \in People, m \in Mails :
       \/ IssueVerificationUnwired(p, m)
       \/ \E status \in {"sent", "failed"}, taken \in 0..1 :
            IssueVerificationSent(p, m, status, taken)
  \/ \E c \in Calls :
       \/ \E m \in Mails : RunMailSend(c, m)
       \/ SendSucceeds(c)
       \/ \E taken \in 0..1 : SendFails(c, taken)
       \/ MailSendEnds(c) \/ MailSendStops(c)
  \/ Wire \/ NewDay

MailSpec == MailInit /\ [][MailNext]_mailVars

(***************************************************************************)
(* What has to hold                                                        *)
(***************************************************************************)
Reminders(p, d) ==
  {m \in Mails : mail[m].to = p /\ mail[m].day = d /\ mail[m].template = "expire_remind"}

\* However often a row's task is delivered and wherever it stops, its message is
\* handed over once at the most, and one that waits has not been; and a user
\* has one reminder of a kind on a day, unless two sweeps found him at once.
SentOnce ==
  /\ \A m \in Mails :
       /\ delivered[m] <= 1
       /\ mail[m].status \in {"none", "queued"} => delivered[m] = 0
  /\ \A p \in People, d \in 0..LastDay :
       <<p, d>> \notin doubled => Cardinality(Reminders(p, d)) <= 1

(***************************************************************************)
(* Why it holds                                                            *)
(***************************************************************************)
\* A row has one call at the most, which claimed it, and is handed over by it
\* before the call is done.
ClaimedOnce ==
  /\ \A c \in Calls : call[c] # None =>
       /\ mail[call[c].row].status \in {"sent", "failed"}
       /\ call[c].phase = "claimed" => delivered[call[c].row] = 0
  /\ \A c, d \in Calls :
       (call[c] # None /\ call[d] # None /\ call[c].row = call[d].row) => c = d

HandedOverOnce ==
  \A m \in Mails :
    /\ delivered[m] <= 1
    /\ mail[m].status \in {"none", "queued"} => delivered[m] = 0
    /\ mail[m].status = "none" => mail[m].template = None

\* Who was found by a sweep has no reminder yet, and no other sweep found him.
FoundOnce ==
  \A p \in People :
    <<p, today>> \notin doubled =>
      /\ \A s \in Sweeps : p \in sweep[s] => Reminders(p, today) = {}
      /\ \A s, x \in Sweeps : (p \in sweep[s] /\ p \in sweep[x]) => s = x

RemindedOnce ==
  \A p \in People, d \in 0..LastDay :
    <<p, d>> \notin doubled => \A m, n \in Reminders(p, d) : m = n

MailInv == MailTypeOK /\ ClaimedOnce /\ HandedOverOnce /\ FoundOnce /\ RemindedOnce
=============================================================================
