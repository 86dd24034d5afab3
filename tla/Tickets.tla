------------------------------ MODULE Tickets ------------------------------
(***************************************************************************)
(* Support tickets, written by a user and by agents at once                *)
(* (handler/ticket.go, handler/admin_catalog.go).                          *)
(*                                                                         *)
(* The user's reply and the user's closing each decide on the status in    *)
(* the snapshot of their first statement and write the ticket's row when   *)
(* they get it; the agents' statements write the row as it is.             *)
(***************************************************************************)
EXTENDS Integers, FiniteSets, Common

CONSTANTS
  Cases,        \* tickets
  Callers,      \* the user's requests
  MaxMessages,  \* bound on the messages of a ticket
  MaxEvents     \* bound on its closings by the user

Statuses == {"open", "pending", "resolved", "closed"}
Done == {"resolved", "closed"}
\* The messages of a ticket, by what they are.
MessageKinds == {"user", "public", "internal"}
Messages == [MessageKinds -> 0..MaxMessages]
CaseRows ==
  [status : Statuses \cup {None}, count : Nat, answered : BOOLEAN,
   resolvedAt : BOOLEAN, closedAt : BOOLEAN]
\* A request past its first read, with what it read.
UserWork == [act : {"reply", "close"}, on : Cases, seen : Statuses, raced : BOOLEAN]

ASSUME TicketsAssumption ==
  /\ None \notin Statuses /\ None \notin UserWork
  /\ MaxMessages \in Nat \ {0} /\ MaxEvents \in Nat

VARIABLES
  case,      \* tickets: message_count and which of their stamps are set
  message,   \* ticket_messages
  events,    \* ticket_events: closings by the user
  request,   \* the user's requests under way, and (history) which of them the
             \* ticket closed under
  late       \* history: replies into a closed ticket that it did not close under

ticketVars == <<case, message, events, request, late>>

TicketsTypeOK ==
  /\ case \in [Cases -> CaseRows]
  /\ message \in [Cases -> Messages]
  /\ events \in [Cases -> Nat]
  /\ request \in [Callers -> UserWork \cup {None}]
  /\ late \in [Cases -> Nat]

NoCase ==
  [status |-> None, count |-> 0, answered |-> FALSE, resolvedAt |-> FALSE, closedAt |-> FALSE]

TicketsInit ==
  /\ case = [t \in Cases |-> NoCase]
  /\ message = [t \in Cases |-> [kind \in MessageKinds |-> 0]]
  /\ events = [t \in Cases |-> 0]
  /\ request = [r \in Callers |-> None]
  /\ late = [t \in Cases |-> 0]

Total(t) == message[t]["user"] + message[t]["public"] + message[t]["internal"]
Exists(t) == case[t].status # None
On(t, act) == {r \in Callers : request[r] # None /\ request[r].on = t /\ request[r].act = act}

Write(t, kind) == message' = [message EXCEPT ![t][kind] = @ + 1]

\* The requests a ticket of this row's status closes under.
Race(t, row) ==
  [r \in Callers |->
    IF r \in On(t, "reply") /\ case[t].status # "closed" /\ row.status = "closed"
      THEN [request[r] EXCEPT !.raced = TRUE] ELSE request[r]]

(***************************************************************************)
(* The user                                                                *)
(***************************************************************************)
\* BumpTicketMessageCount: whether a first response is due goes by the author.
BumpTicketMessageCount(row, author) ==
  [row EXCEPT !.count = @ + 1, !.answered = @ \/ author = "agent"]

CreateUserTicket == [NoCase EXCEPT !.status = "open"]

CreateTicket(t) ==
  /\ ~ Exists(t)
  /\ case' = [case EXCEPT ![t] = BumpTicketMessageCount(CreateUserTicket, "user")]
  /\ Write(t, "user")
  /\ UNCHANGED <<events, request, late>>

\* The snapshot of the first statement of a reply or a closing.
Begin(r, t, act) ==
  /\ request[r] = None
  /\ Exists(t)
  /\ act = "close" => events[t] + Cardinality(On(t, "close")) < MaxEvents
  /\ request' = [request EXCEPT ![r] =
       [act |-> act, on |-> t, seen |-> case[t].status, raced |-> FALSE]]
  /\ UNCHANGED <<case, message, events, late>>

\* Its `target` keeps the status it read.
CreateUserTicketMessage(r) == request[r].seen # "closed"

\* CreateTicketMessage: 409 if the ticket was closed, else the message and its count.
CreateTicketMessage(r) ==
  /\ request[r] # None /\ request[r].act = "reply"
  /\ LET t == request[r].on IN
       IF CreateUserTicketMessage(r)
         THEN /\ Total(t) < MaxMessages
              /\ case' = [case EXCEPT ![t] = BumpTicketMessageCount(@, "user")]
              /\ Write(t, "user")
              /\ late' = IF case[t].status = "closed" /\ ~ request[r].raced
                           THEN [late EXCEPT ![t] = @ + 1] ELSE late
         ELSE UNCHANGED <<case, message, late>>
  /\ request' = [request EXCEPT ![r] = None]
  /\ UNCHANGED events

\* The stamps that are set already stay.
CloseUserTicket(row) ==
  [row EXCEPT !.status = "closed", !.resolvedAt = TRUE, !.closedAt = TRUE]

\* CloseTicket: 409 if it was closed, else the status and an event, which a
\* second closing that read the status too early writes again.
CloseTicket(r) ==
  /\ request[r] # None /\ request[r].act = "close"
  /\ LET t == request[r].on IN
       IF request[r].seen # "closed"
         THEN /\ case' = [case EXCEPT ![t] = CloseUserTicket(@)]
              /\ events' = [events EXCEPT ![t] = @ + 1]
              /\ request' = [Race(t, CloseUserTicket(case[t])) EXCEPT ![r] = None]
         ELSE request' = [request EXCEPT ![r] = None] /\ UNCHANGED <<case, events>>
  /\ UNCHANGED <<message, late>>

(***************************************************************************)
(* The agents                                                              *)
(***************************************************************************)
\* adminTicketStatusToDB: what the contract lets an agent set.
AgentStatuses == {"open", "pending", "closed"}

\* The stamps follow the status.
AdminUpdateTicket(row, status) ==
  [row EXCEPT !.status = status, !.resolvedAt = status \in Done, !.closedAt = status = "closed"]

\* updateAdminTicket: any status after any other, and no event.
UpdateAdminTicket(t, status) ==
  /\ Exists(t)
  /\ case' = [case EXCEPT ![t] = AdminUpdateTicket(@, status)]
  /\ request' = Race(t, AdminUpdateTicket(case[t], status))
  /\ UNCHANGED <<message, events, late>>

\* Mutant: a note counts as a response, as BumpTicketMessageCount would have it.
AdminBumpTicketOnAgentMessage_ByAuthor(row, internal) == BumpTicketMessageCount(row, "agent")

\* Only what the user can see is a first response.
AdminBumpTicketOnAgentMessage(row, internal) ==
  [row EXCEPT !.count = @ + 1, !.answered = @ \/ ~ internal]

\* createAdminTicketMessage: also on a closed ticket.
CreateAdminTicketMessage(t, internal) ==
  /\ Exists(t) /\ Total(t) < MaxMessages
  /\ case' = [case EXCEPT ![t] = AdminBumpTicketOnAgentMessage(@, internal)]
  /\ Write(t, IF internal THEN "internal" ELSE "public")
  /\ UNCHANGED <<events, request, late>>

TicketsNext ==
  \/ \E t \in Cases :
       \/ CreateTicket(t)
       \/ \E status \in AgentStatuses : UpdateAdminTicket(t, status)
       \/ \E internal \in BOOLEAN : CreateAdminTicketMessage(t, internal)
  \/ \E r \in Callers :
       \/ \E t \in Cases, act \in {"reply", "close"} : Begin(r, t, act)
       \/ CreateTicketMessage(r)
       \/ CloseTicket(r)

TicketsSpec == TicketsInit /\ [][TicketsNext]_ticketVars

(***************************************************************************)
(* What has to hold                                                        *)
(***************************************************************************)
\* ListTicketsBreachingFirstResponse: a due date that passed with no response.
Breaching(t) == Exists(t) /\ case[t].status \notin Done /\ ~ case[t].answered

\* What the console and the alarms read off a ticket is so: its count is the
\* number of its messages, a ticket the user has had no answer to stays on the
\* list of those to answer until it is done, its stamps are those of its status
\* (as the constraints of the table ask, so that no update is refused by them),
\* and no reply lands in a closed ticket but one the ticket closed under.
TicketTruthful ==
  \A t \in Cases :
    /\ case[t].count = Total(t)
    /\ (Exists(t) /\ case[t].status \notin Done) => (Breaching(t) <=> message[t]["public"] = 0)
    /\ case[t].resolvedAt <=> case[t].status \in Done
    /\ case[t].closedAt <=> case[t].status = "closed"
    /\ late[t] = 0

(***************************************************************************)
(* Why it holds                                                            *)
(***************************************************************************)
\* What a ticket's row says goes by its messages and its status.
RowsTruthful ==
  \A t \in Cases :
    /\ case[t].count = Total(t)
    /\ case[t].answered <=> message[t]["public"] > 0
    /\ case[t].resolvedAt <=> case[t].status \in Done
    /\ case[t].closedAt <=> case[t].status = "closed"

\* A request is on a ticket that exists, and a reply that did not see it closed
\* found it open or has been raced.
RequestsAware ==
  \A r \in Callers : request[r] # None =>
    /\ Exists(request[r].on)
    /\ (request[r].act = "reply" /\ case[request[r].on].status = "closed") =>
         request[r].raced \/ request[r].seen = "closed"

TicketsInv ==
  /\ TicketsTypeOK /\ RowsTruthful /\ RequestsAware
  /\ \A t \in Cases : ~ Exists(t) => case[t] = NoCase
  /\ \A t \in Cases : late[t] = 0
=============================================================================
