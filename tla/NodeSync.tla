------------------------------ MODULE NodeSync ------------------------------
(***************************************************************************)
(* Whom the proxy nodes serve: the conditional poll of a node for its user *)
(* list, the writers that must make the next poll answer 200 instead of    *)
(* 304, and the traffic a node reports (handler/node.go, admin_nodes.go,   *)
(* admin_users.go, task.go and the trigger users_bump_user_rev).           *)
(*                                                                         *)
(* node_rev.user_rev only grows and is only compared for equality with a   *)
(* copy read earlier, so the model keeps, for each copy, whether it has    *)
(* moved since: fresh[n] says that the etag node n holds would be answered *)
(* 304, reading[n] is a poll between its two statements.  The revision of  *)
(* a node's configuration works alike and is left out.                     *)
(*                                                                         *)
(* A time in a user's row is kept as where it stands to the clock: ahead   *)
(* of it or past.  expiry_applied_at is "this" when the sweep has run for  *)
(* the expiry the row has now and "earlier" when it ran for one that D1    *)
(* replaced.  Traffic is counted in units of one report.                   *)
(***************************************************************************)
EXTENDS Integers, FiniteSets

CONSTANTS
  Nodes, Users, Groups,
  Keys,       \* the values of users.uuid, the credential a node checks
  StartUsers, StartServers,  \* the rows a behaviour may start from
  Quotas,     \* plan quotas, in reports
  NoKey,      \* a user a node does not serve
  Idle,       \* no request of this kind is in flight
  MaxPushes,  \* bound on the traffic statements running at a time
  MaxUsed,    \* bound on u + d
  MaxEdits    \* bound on the number of admin writes and restarts

Times == {"never", "ahead", "past"}
UserRows ==
  [group : Groups, key : Keys, banned : BOOLEAN,
   expiry : Times, applied : {"no", "this", "earlier"},
   planned : BOOLEAN, reset : Times,
   plan : Nat, pack : Nat, packEnd : Times, used : Nat]
ServerRows ==
  [status : {"none", "on", "off", "gone"}, groups : SUBSET Groups]

ASSUME NodeSyncAssumption ==
  /\ StartUsers \subseteq [Users -> UserRows]
  \* the sweep has run for dates that are past
  /\ \A rows \in StartUsers, u \in Users : rows[u].applied = "this" => rows[u].expiry = "past"
  /\ StartServers \subseteq [Nodes -> ServerRows]
  /\ Quotas \subseteq Nat
  /\ NoKey \notin Keys
  /\ Idle \notin [user : Users, quota : Nat, nodes : SUBSET Nodes]
  /\ MaxUsed \in Nat /\ MaxPushes \in Nat
  /\ MaxEdits \in Nat

VARIABLES
  user,      \* the rows of users and user_traffic
  server,    \* the rows of servers and server_group_map
  fresh,     \* the nodes whose etag is still current
  reading,   \* per node, its poll: no, or since the revision was read
  held,      \* per node, the list of its last answer (the node's memory)
  push,      \* per node, the traffic statement that has taken its snapshot
  silent,    \* history: <<n, u>> whose entry changed with no revision moved
  edits      \* history: admin writes so far

vars == <<user, server, fresh, reading, held, push, silent, edits>>

TypeOK ==
  /\ user \in [Users -> UserRows]
  /\ server \in [Nodes -> ServerRows]
  /\ fresh \in SUBSET Nodes
  /\ reading \in [Nodes -> {"no", "current", "moved"}]
  /\ held \in [Nodes -> [Users -> Keys \cup {NoKey}]]
  /\ push \in [Nodes -> [user : Users, quota : Nat, nodes : SUBSET Nodes]
                          \cup {Idle}]
  /\ silent \in SUBSET (Nodes \X Users)
  /\ edits \in 0..MaxEdits

(***************************************************************************)
(* Who is served, and who hears of a write                                 *)
(***************************************************************************)
Quota(row) == row.plan + row.pack

\* ListAvailableUsersByServer, for a node of the groups gs.
Available(row, gs) ==
  /\ row.group \in gs
  /\ ~ row.banned
  /\ row.expiry # "past"
  /\ row.used < Quota(row)

\* The entry a list for the groups gs has for a row.
Entry(row, gs) == IF Available(row, gs) THEN row.key ELSE NoKey

InGroups(gs) == {n \in Nodes : server[n].groups \cap gs # {}}

\* The revision of ns moves: no copy of it, held or being answered, is
\* current.
Bump(ns) ==
  /\ fresh' = fresh \ ns
  /\ reading' = [n \in Nodes |-> IF n \in ns /\ reading[n] # "no" THEN "moved"
                                 ELSE reading[n]]

\* History: the bump of ns tells its nodes everything, `unsaid' is news to
\* the others.
Hush(unsaid, ns) == silent' = {s \in silent \cup unsaid : s[1] \notin ns}

\* Mutant: the trigger forgets banned.
Watched_NoBan(row) == <<row.key, row.expiry, row.plan, row.pack, row.applied>>

\* The columns the trigger compares.  Two dates ahead of the clock are one
\* value here, so the model bumps no more often than the trigger does.
Watched(row) == <<row.key, row.banned, row.expiry, row.plan, row.pack, row.applied>>

\* Mutant: the trigger bumps the group the user is in afterwards only.
TriggerGroups_NewOnly(old, new) ==
  IF old.group # new.group \/ Watched(old) # Watched(new) THEN {new.group} ELSE {}

TriggerGroups(old, new) ==
  IF old.group # new.group THEN {old.group, new.group}
  ELSE IF Watched(old) # Watched(new) THEN {new.group} ELSE {}

\* A statement on users: the rows, and what the trigger bumps with them.
\* `also' is the groups the handler bumps itself in the same transaction,
\* `unsaid' the entries it is known to change without any bump.
WriteUsers(rows, also, unsaid) ==
  LET gs == also \cup UNION {TriggerGroups(user[u], rows[u]) : u \in Users}
      ns == InGroups(gs)
  IN  /\ user' = rows
      /\ Bump(ns)
      /\ Hush(unsaid, ns)
      /\ UNCHANGED <<server, held, push>>

Edit ==
  /\ edits < MaxEdits
  /\ edits' = edits + 1

\* The entries of u a row would change.
Changed(u, row) ==
  {<<n, u>> : n \in {m \in Nodes : Entry(user[u], server[m].groups)
                                     # Entry(row, server[m].groups)}}

(***************************************************************************)
(* The polls of a node                                                     *)
(***************************************************************************)
\* AuthenticateNode lets the node in and GetNodeRev reads the revision.  When
\* the etag it sent is current the answer is 304 and nothing changes.
PollRev(n) ==
  /\ server[n].status = "on"
  /\ reading[n] = "no"
  /\ n \notin fresh
  /\ reading' = [reading EXCEPT ![n] = "current"]
  /\ UNCHANGED <<user, server, fresh, held, push, silent, edits>>

\* ListAvailableUsersByServer, the second statement, and the answer with the
\* etag of the first.
PollAnswer(n) ==
  /\ reading[n] # "no"
  /\ reading' = [reading EXCEPT ![n] = "no"]
  /\ fresh' = IF reading[n] = "current" THEN fresh \cup {n} ELSE fresh \ {n}
  /\ held' = [held EXCEPT ![n] = [u \in Users |-> Entry(user[u], server[n].groups)]]
  /\ silent' = {s \in silent : s[1] # n}
  /\ UNCHANGED <<user, server, push, edits>>

\* The answer does not reach the node, or the handler fails: the node keeps
\* the etag and the list it has.
PollLost(n) ==
  /\ reading[n] # "no"
  /\ reading' = [reading EXCEPT ![n] = "no"]
  /\ UNCHANGED <<user, server, fresh, held, push, silent, edits>>

\* A node process starts again with nothing in memory.
NodeRestart(n) ==
  /\ Edit
  /\ server[n].status # "none"
  /\ reading' = [reading EXCEPT ![n] = "no"]
  /\ fresh' = fresh \ {n}
  /\ held' = [held EXCEPT ![n] = [u \in Users |-> NoKey]]
  /\ UNCHANGED <<user, server, push, silent>>

(***************************************************************************)
(* Traffic: PushUniProxyTraffic                                            *)
(***************************************************************************)
\* AddNodeTrafficBatch takes its snapshot: the quota and the nodes of the
\* user's group are read from it, the counter it adds to is not.
PushBegin(n, u) ==
  /\ server[n].status = "on"
  /\ held[n][u] # NoKey
  /\ Cardinality({m \in Nodes : push[m] # Idle}) < MaxPushes
  /\ push[n] = Idle
  /\ push' = [push EXCEPT ![n] = [user |-> u, quota |-> Quota(user[u]),
                                  nodes |-> InGroups({user[u].group})]]
  /\ UNCHANGED <<user, server, fresh, reading, held, silent, edits>>

\* History: his quota or his group's nodes have changed since the snapshot.
Stale(p) ==
  p.quota # Quota(user[p.user]) \/ p.nodes # InGroups({user[p.user].group})

\* Mutant: the report that reaches the quota exactly does not cross it.
PushCommit_Beyond(n) ==
  LET p     == push[n]
      u     == p.user
      after == [user[u] EXCEPT !.used = @ + 1]
      ns    == IF user[u].used < p.quota /\ after.used > p.quota THEN p.nodes ELSE {}
  IN
  /\ p # Idle
  /\ after.used <= MaxUsed
  /\ user' = [user EXCEPT ![u] = after]
  /\ Bump(ns)
  /\ Hush(IF Stale(p) THEN Changed(u, after) ELSE {}, ns)
  /\ push' = [push EXCEPT ![n] = Idle]
  /\ UNCHANGED <<server, held, edits>>

\* The crossing of the quota is the only push that bumps.
PushCommit(n) ==
  LET p     == push[n]
      u     == p.user
      after == [user[u] EXCEPT !.used = @ + 1]
      ns    == IF user[u].used < p.quota /\ after.used >= p.quota THEN p.nodes ELSE {}
  IN
  /\ p # Idle
  /\ after.used <= MaxUsed
  /\ user' = [user EXCEPT ![u] = after]
  /\ Bump(ns)
  /\ Hush(IF Stale(p) THEN Changed(u, after) ELSE {}, ns)
  /\ push' = [push EXCEPT ![n] = Idle]
  /\ UNCHANGED <<server, held, edits>>

\* The transaction rolls back; the report stays claimed and is not retried.
PushFail(n) ==
  /\ push[n] # Idle
  /\ push' = [push EXCEPT ![n] = Idle]
  /\ UNCHANGED <<user, server, fresh, reading, held, silent, edits>>

(***************************************************************************)
(* The clock and the scheduled tasks                                       *)
(***************************************************************************)
\* A date of the user passes.
DatePasses(u, field) ==
  /\ user[u][field] = "ahead"
  /\ user' = [user EXCEPT ![u][field] = "past"]
  /\ UNCHANGED <<server, fresh, reading, held, push, silent, edits>>

\* runExpireCheck: one transaction for both sweeps and the bump.
Expired(row) == row.expiry = "past" /\ row.applied = "no"
PackExpired(row) == row.packEnd = "past"

runExpireCheck ==
  LET swept == [u \in Users |->
                 LET row == user[u]
                     pk  == IF PackExpired(row)
                              THEN [row EXCEPT !.pack = 0, !.packEnd = "never"] ELSE row
                 IN  IF Expired(row) THEN [pk EXCEPT !.applied = "this"] ELSE pk]
  IN  /\ \E u \in Users : Expired(user[u]) \/ PackExpired(user[u])
      /\ WriteUsers(swept, {user[u].group : u \in {v \in Users : Expired(user[v]) \/ PackExpired(user[v])}}, {})
      /\ UNCHANGED edits

\* AdvanceUserResetCycle: the plan's quota again, and of the pack what the
\* period did not consume beyond the plan.
Carried(row) ==
  LET beyond == IF row.used > row.plan THEN row.used - row.plan ELSE 0
  IN  IF row.pack > beyond THEN row.pack - beyond ELSE 0

\* runTrafficReset: users without a plan leave the schedule, the due ones
\* are reset, in one transaction.  q is the quota of the user's plan, next what
\* reset_traffic_method makes of reset_at.
runTrafficReset(q, next) ==
  LET rows == [u \in Users |->
                LET row == user[u] IN
                IF row.reset # "past" THEN row
                ELSE IF ~ row.planned THEN [row EXCEPT !.reset = "never"]
                ELSE [row EXCEPT !.used = 0, !.reset = next,
                                 !.plan = q[u], !.pack = Carried(row)]]
  IN  /\ \E u \in Users : user[u].reset = "past"
      /\ WriteUsers(rows, {}, UNION {Changed(u, rows[u]) : u \in Users})
      /\ UNCHANGED edits

\* runTrafficBatch: of the nodes that serve an exhausted user, those whose
\* revision is older than the last report.  Which these are is a matter of
\* the clocks of the transactions; ns is any choice of them.
runTrafficBatch(ns) ==
  /\ ns # {}
  /\ ns \subseteq InGroups({user[u].group : u \in
         {v \in Users : /\ ~ user[v].banned /\ user[v].expiry # "past"
                        /\ user[v].used >= Quota(user[v])}})
  /\ Bump(ns)
  /\ Hush({}, ns)
  /\ UNCHANGED <<user, server, held, push, edits>>

(***************************************************************************)
(* Admin writes on users                                                   *)
(***************************************************************************)
\* D1, updateAdminUserTx: each field of the patch is optional.  The total
\* quota asked for is stored as the plan's part, the pack stays; the date
\* may be ahead or past, and a sweep already done is not undone.
Patches(row) ==
  LET dated(r, e) == [r EXCEPT !.expiry = e,
                               !.applied = IF @ = "no" THEN "no" ELSE "earlier"]
      quota(r, t) == [r EXCEPT !.plan = t - r.pack]
      rekey(r, k) == [r EXCEPT !.key = k]
      move(r, g)  == [r EXCEPT !.group = g]
  IN  {dated(row, e) : e \in {"ahead", "past"}}
      \cup {quota(row, t) : t \in {q \in Quotas : q >= row.pack}}
      \cup {rekey(row, k) : k \in Keys}
      \cup {move(row, g) : g \in Groups}
      \cup {move(dated(row, "ahead"), g) : g \in Groups}

updateAdminUser(u) ==
  /\ Edit
  /\ \E row \in Patches(user[u]) \ {user[u]} :
       WriteUsers([user EXCEPT ![u] = row], {}, {})

\* D2, banAdminUserTx and unbanAdminUserTx.
setBanned(u, b) ==
  /\ Edit
  /\ WriteUsers([user EXCEPT ![u].banned = b], {}, {})

\* AdminTerminateSubscriptionForRefund, the refund's last write.
terminateSubscription(u) ==
  /\ Edit
  /\ WriteUsers([user EXCEPT ![u] = [@ EXCEPT !.planned = FALSE, !.plan = 0,
                   !.expiry = "past", !.reset = "never", !.applied = "no"]], {}, {})

(***************************************************************************)
(* Admin writes on nodes                                                   *)
(***************************************************************************)
\* createAdminNode: the row, its node_rev row, its groups, then the bump of
\* each group.
createAdminNode(n, gs, on) ==
  /\ Edit
  /\ server[n].status = "none"
  /\ server' = [server EXCEPT ![n] = [status |-> IF on THEN "on" ELSE "off", groups |-> gs]]
  /\ Bump(InGroups(gs) \cup (IF gs = {} THEN {} ELSE {n}))
  /\ Hush({}, InGroups(gs))
  /\ UNCHANGED <<user, held, push>>

\* updateAdminNode: the row, the groups added and removed, then the bump of
\* each of them, over the mapping as it is by then: a node that only lost
\* groups is not told.
updateAdminNode(n, gs, on) ==
  LET changed == (gs \ server[n].groups) \cup (server[n].groups \ gs)
      ns      == {m \in Nodes : (IF m = n THEN gs ELSE server[m].groups) \cap changed # {}}
  IN
  /\ Edit
  /\ server[n].status \in {"on", "off"}
  /\ server' = [server EXCEPT ![n] = [status |-> IF on THEN "on" ELSE "off", groups |-> gs]]
  /\ Bump(ns)
  /\ Hush({<<n, u>> : u \in {v \in Users : user[v].group \in server[n].groups \ gs}}, ns)
  /\ UNCHANGED <<user, held, push>>

\* setAdminNodeEnabled and deleteAdminNode.
setAdminNodeEnabled(n, on) ==
  /\ Edit
  /\ server[n].status \in {"on", "off"}
  /\ server' = [server EXCEPT ![n].status = IF on THEN "on" ELSE "off"]
  /\ UNCHANGED <<user, fresh, reading, held, push, silent>>

deleteAdminNode(n) ==
  /\ Edit
  /\ server[n].status \in {"on", "off"}
  /\ server' = [server EXCEPT ![n].status = "gone"]
  /\ UNCHANGED <<user, fresh, reading, held, push, silent>>

(***************************************************************************)
(* The specification                                                       *)
(***************************************************************************)
Init ==
  /\ user \in StartUsers
  /\ server \in StartServers
  /\ fresh = {}
  /\ reading = [n \in Nodes |-> "no"]
  /\ held = [n \in Nodes |-> [u \in Users |-> NoKey]]
  /\ push = [n \in Nodes |-> Idle]
  /\ silent = {}
  /\ edits = 0

NodeAction(n) ==
  \/ PollRev(n)
  \/ PollAnswer(n)
  \/ PollLost(n)
  \/ NodeRestart(n)
  \/ \E u \in Users : PushBegin(n, u)
  \/ PushCommit(n)
  \/ PushFail(n)

Task ==
  \/ runExpireCheck
  \/ \E q \in [Users -> Quotas], next \in {"ahead", "never"} : runTrafficReset(q, next)
  \/ \E ns \in SUBSET Nodes : runTrafficBatch(ns)

Admin ==
  \/ \E u \in Users : updateAdminUser(u) \/ terminateSubscription(u)
  \/ \E u \in Users, b \in BOOLEAN : setBanned(u, b)
  \/ \E n \in Nodes, gs \in SUBSET Groups, on \in BOOLEAN :
       \/ createAdminNode(n, gs, on)
       \/ updateAdminNode(n, gs, on)
  \/ \E n \in Nodes, on \in BOOLEAN : setAdminNodeEnabled(n, on)
  \/ \E n \in Nodes : deleteAdminNode(n)

Next ==
  \/ \E n \in Nodes : NodeAction(n)
  \/ \E u \in Users, field \in {"expiry", "reset", "packEnd"} : DatePasses(u, field)
  \/ Task
  \/ Admin

Spec == Init /\ [][Next]_vars

\* A node polls every minute and an answer gets through in the end; Cloud
\* Scheduler runs expire-check every five minutes.
FairSpec ==
  /\ Spec
  /\ \A n \in Nodes : WF_vars(PollRev(n)) /\ SF_vars(PollAnswer(n))
  /\ WF_vars(runExpireCheck)

(***************************************************************************)
(* Properties                                                              *)
(***************************************************************************)
\* The one moment the tables of a node may be wrong about a user and no
\* write is to blame: his date is past and the sweep has not run for it.
Unswept(row) == row.expiry = "past" /\ row.applied # "this"

\* An etag tells the truth: a node whose next poll would be answered 304
\* holds, of every user, the entry the list would give now,
\* whatever was written and whichever polls, pushes and tasks ran meanwhile
\* (GetUniProxyUsers reads the revision before the list; the trigger, the
\* crossing of a quota and the node handlers bump in the transaction of the
\* write).  Left out are the entries a write is known to change in silence,
\* and a date the sweep has not seen.
EtagTruthful ==
  \A n \in fresh, u \in Users :
    \/ held[n][u] = Entry(user[u], server[n].groups)
    \/ Unswept(user[u])
    \/ <<n, u>> \in silent

\* A user who is banned, or whose date is past and not yet swept for, does
\* not stay on a working node of his group (runExpireCheck every five
\* minutes, a node polling every minute).
Revoked(row) == row.banned \/ (row.expiry = "past" /\ row.applied # "earlier")

LeavesNode ==
  \A n \in Nodes, u \in Users :
    []<> ~ (/\ Revoked(user[u])
            /\ held[n][u] # NoKey
            /\ server[n].status = "on"
            /\ user[u].group \in server[n].groups)

\* Who has used up his quota does not stay on a working node of his group,
\* whichever of the reports in flight together used it up, and whatever polls,
\* sweeps and edits came between (AddNodeTrafficBatch bumps in the transaction
\* of the report that crosses).  Left out is the report whose statement saw
\* another quota or other nodes than those it is booked under; and whose date
\* is past, as in BumpUserRevForExhaustedUsers.
Exhausted(n, u) ==
  /\ user[u].used >= Quota(user[u]) /\ user[u].expiry # "past"
  /\ held[n][u] # NoKey
  /\ server[n].status = "on"
  /\ user[u].group \in server[n].groups

UsedUpLeaves == \A n \in Nodes, u \in Users : []<> ~ (Exhausted(n, u) /\ <<n, u>> \notin silent)

\* What api-contract says, that the report that crosses the quota always bumps:
\* no one stays on a node with his quota used up.
ExhaustedLeaves == \A n \in Nodes, u \in Users : []<> ~ Exhausted(n, u)

\* What stats.sql says of AdvanceUserResetCycle, that the quota it restores
\* reaches the nodes by itself: a node that would be answered 304 serves
\* every user who may be served.
QuotaReturns ==
  \A n \in fresh, u \in Users :
    Available(user[u], server[n].groups)
      => held[n][u] # NoKey

(***************************************************************************)
(* The invariant that EtagTruthful rests on.                               *)
(***************************************************************************)
\* A node that was never created has polled nothing.
UncreatedSilent ==
  \A n \in Nodes : server[n].status = "none" => n \notin fresh /\ reading[n] = "no"

\* The sweep has run for a date that is past.
SweptIsPast == \A u \in Users : user[u].applied = "this" => user[u].expiry = "past"

\* What an etag may hide of a user the sweep has not seen, it hides from the
\* nodes of his group alone.
HeldTruthful ==
  \A n \in fresh, u \in Users :
    \/ held[n][u] = Entry(user[u], server[n].groups)
    \/ <<n, u>> \in silent
    \/ Unswept(user[u]) /\ user[u].group \in server[n].groups

NodeSyncInv == TypeOK /\ UncreatedSilent /\ SweptIsPast /\ HeldTruthful
=============================================================================
