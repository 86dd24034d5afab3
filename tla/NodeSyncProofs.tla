--------------------------- MODULE NodeSyncProofs ---------------------------
(***************************************************************************)
(* Proofs about what the nodes are told: an etag that would be answered    *)
(* 304 tells the truth, whichever report uses up a quota.                  *)
(***************************************************************************)
EXTENDS NodeSync, FiniteSetTheorems, TLAPS

USE NodeSyncAssumption

-----------------------------------------------------------------------------
(* Rows, entries and bumps.                                                *)

\* A node is told NoKey of a user who is in none of its groups.
LEMMA OtherGroup ==
  ASSUME NEW row, NEW gs, row.group \notin gs
  PROVE  Entry(row, gs) = NoKey
BY DEF Entry, Available

\* What an entry is made of.
LEMMA EntryByColumns ==
  ASSUME NEW row, NEW other, NEW gs,
         row.group = other.group, row.key = other.key, row.banned <=> other.banned,
         row.expiry = other.expiry, row.plan = other.plan, row.pack = other.pack,
         row.used = other.used
  PROVE  Entry(row, gs) = Entry(other, gs)
<1>1. Available(row, gs) <=> Available(other, gs)
  BY DEF Available, Quota
<1> QED
  BY <1>1 DEF Entry

\* The trigger sees every column that it watches.
LEMMA WatchedColumns ==
  ASSUME NEW row, NEW other, Watched(row) = Watched(other)
  PROVE  /\ row.key = other.key /\ row.banned = other.banned /\ row.expiry = other.expiry
         /\ row.plan = other.plan /\ row.pack = other.pack /\ row.applied = other.applied
BY DEF Watched

\* What a bump leaves of the copies.
LEMMA BumpType ==
  ASSUME TypeOK, UncreatedSilent, NEW ns, Bump(ns)
  PROVE  /\ fresh' \in SUBSET Nodes /\ fresh' = fresh \ ns
         /\ reading' \in [Nodes -> {"no", "current", "moved"}]
         /\ \A n \in Nodes : reading[n] = "no" => reading'[n] = "no"
BY DEF TypeOK, Bump

\* A bump with nothing said: what is left silent was so, or is unsaid.
LEMMA HushType ==
  ASSUME TypeOK, NEW unsaid \in SUBSET (Nodes \X Users), NEW ns, Hush(unsaid, ns)
  PROVE  /\ silent' \in SUBSET (Nodes \X Users)
         /\ \A n \in Nodes, u \in Users :
              n \notin ns => (<<n, u>> \in silent' <=> <<n, u>> \in silent \cup unsaid)
BY DEF TypeOK, Hush

\* Every write on users: what the trigger does not see changes no entry,
\* unless it is known to be unsaid.
LEMMA WriteKeeps ==
  ASSUME NodeSyncInv, NEW rows \in [Users -> UserRows], NEW also \in SUBSET Groups,
         NEW unsaid \in SUBSET (Nodes \X Users), WriteUsers(rows, also, unsaid),
         edits' \in 0..MaxEdits,
         \A u \in Users : rows[u].applied = "this" => rows[u].expiry = "past",
         \A u \in Users, n \in Nodes :
           rows[u].group = user[u].group /\ Watched(user[u]) = Watched(rows[u])
             => \/ Entry(user[u], server[n].groups) = Entry(rows[u], server[n].groups)
                \/ <<n, u>> \in unsaid
  PROVE  NodeSyncInv'
<1> DEFINE gs == also \cup UNION {TriggerGroups(user[u], rows[u]) : u \in Users}
           ns == InGroups(gs)
<1>1. /\ user' = rows /\ Bump(ns) /\ Hush(unsaid, ns)
      /\ UNCHANGED <<server, held, push>>
  BY DEF WriteUsers
<1>2. \A u \in Users, n \in Nodes \ ns :
        \/ user[u].group \notin server[n].groups /\ rows[u].group \notin server[n].groups
        \/ rows[u].group = user[u].group /\ Watched(user[u]) = Watched(rows[u])
  <2>1. ASSUME NEW u \in Users, NEW n \in Nodes \ ns,
               ~ (rows[u].group = user[u].group /\ Watched(user[u]) = Watched(rows[u]))
        PROVE  user[u].group \notin server[n].groups /\ rows[u].group \notin server[n].groups
    <3>1. {user[u].group, rows[u].group} \subseteq TriggerGroups(user[u], rows[u])
      BY <2>1 DEF TriggerGroups
    <3>2. {user[u].group, rows[u].group} \subseteq gs
      BY <3>1
    <3> HIDE DEF gs
    <3> QED
      BY <3>2 DEF InGroups
  <2> QED
    BY <2>1
<1> HIDE DEF ns, gs
<1>3. TypeOK'
  BY <1>1, BumpType, HushType DEF NodeSyncInv, TypeOK
<1>4. UncreatedSilent' /\ SweptIsPast'
  BY <1>1, BumpType DEF NodeSyncInv, UncreatedSilent, SweptIsPast
<1>5. HeldTruthful'
  <2>1. ASSUME NEW n \in fresh', NEW u \in Users
        PROVE  \/ held[n][u] = Entry(rows[u], server[n].groups)
               \/ <<n, u>> \in silent'
               \/ Unswept(rows[u]) /\ rows[u].group \in server[n].groups
    <3>1. n \in fresh /\ n \in Nodes \ ns
      BY <1>1, BumpType DEF NodeSyncInv, TypeOK
    <3>2. \/ held[n][u] = Entry(user[u], server[n].groups)
          \/ <<n, u>> \in silent
          \/ Unswept(user[u]) /\ user[u].group \in server[n].groups
      BY <3>1 DEF NodeSyncInv, HeldTruthful
    <3>3. <<n, u>> \in silent' <=> <<n, u>> \in silent \cup unsaid
      BY <1>1, <3>1, HushType DEF NodeSyncInv
    <3>4. CASE user[u].group \notin server[n].groups /\ rows[u].group \notin server[n].groups
      BY <3>2, <3>3, <3>4, OtherGroup
    <3>5. CASE rows[u].group = user[u].group /\ Watched(user[u]) = Watched(rows[u])
      <4>1. \/ Entry(user[u], server[n].groups) = Entry(rows[u], server[n].groups)
            \/ <<n, u>> \in unsaid
        BY <3>1, <3>5
      <4>2. Unswept(rows[u]) <=> Unswept(user[u])
        BY <3>5, WatchedColumns DEF Unswept
      <4> QED
        BY <3>2, <3>3, <3>5, <4>1, <4>2
    <3> QED
      BY <1>2, <3>1, <3>4, <3>5
  <2> QED
    BY <1>1, <2>1 DEF HeldTruthful
<1> QED
  BY <1>3, <1>4, <1>5 DEF NodeSyncInv

\* A write of one row that leaves what was used alone.
LEMMA RowKeeps ==
  ASSUME NodeSyncInv, NEW u \in Users, NEW row \in UserRows,
         WriteUsers([user EXCEPT ![u] = row], {}, {}), edits' \in 0..MaxEdits,
         row.used = user[u].used, row.applied = "this" => row.expiry = "past"
  PROVE  NodeSyncInv'
<1> DEFINE rows == [user EXCEPT ![u] = row]
<1>1. /\ rows \in [Users -> UserRows]
      /\ \A v \in Users : rows[v] = IF v = u THEN row ELSE user[v]
  BY DEF NodeSyncInv, TypeOK
<1> HIDE DEF rows
<1>2. \A v \in Users : rows[v].used = user[v].used
                       /\ (rows[v].applied = "this" => rows[v].expiry = "past")
  BY <1>1 DEF NodeSyncInv, SweptIsPast
<1>3. ASSUME NEW v \in Users, NEW n \in Nodes,
             rows[v].group = user[v].group, Watched(user[v]) = Watched(rows[v])
      PROVE  Entry(user[v], server[n].groups) = Entry(rows[v], server[n].groups)
  BY <1>2, <1>3, WatchedColumns, EntryByColumns
<1>4. WriteUsers(rows, {}, {})
  BY DEF rows
<1> QED
  BY <1>1, <1>2, <1>3, <1>4, WriteKeeps
-----------------------------------------------------------------------------
(* The admin writes on users and the sweeps.                               *)

\* A patched user has a row still, and is as much used as before.
LEMMA PatchType ==
  ASSUME NEW row \in UserRows, row.applied = "this" => row.expiry = "past",
         NEW new \in Patches(row)
  PROVE  /\ new \in UserRows /\ new.used = row.used
         /\ new.applied = "this" => new.expiry = "past"
<1> DEFINE dated(e) == [row EXCEPT !.expiry = e,
                                   !.applied = IF row.applied = "no" THEN "no" ELSE "earlier"]
<1>1. ASSUME NEW e \in Times
      PROVE  /\ dated(e) \in UserRows /\ dated(e).used = row.used
             /\ dated(e).applied # "this"
  BY DEF UserRows
<1>2. CASE \E e \in {"ahead", "past"} : new = dated(e)
  BY <1>1, <1>2 DEF Times
<1>3. CASE \E t \in {q \in Quotas : q >= row.pack} : new = [row EXCEPT !.plan = t - row.pack]
  <2>1. PICK t \in Quotas : t >= row.pack /\ new = [row EXCEPT !.plan = t - row.pack]
    BY <1>3
  <2>2. t - row.pack \in Nat
    BY <2>1 DEF UserRows
  <2> QED
    BY <2>1, <2>2 DEF UserRows
<1>4. CASE \E k \in Keys : new = [row EXCEPT !.key = k]
  BY <1>4 DEF UserRows
<1>5. CASE \E g \in Groups : new = [row EXCEPT !.group = g]
  BY <1>5 DEF UserRows
<1>6. CASE \E g \in Groups : new = [dated("ahead") EXCEPT !.group = g]
  <2>1. PICK g \in Groups : new = [dated("ahead") EXCEPT !.group = g]
    BY <1>6
  <2>2. /\ dated("ahead") \in UserRows /\ dated("ahead").used = row.used
        /\ dated("ahead").applied # "this"
    BY <1>1 DEF Times
  <2> HIDE DEF dated
  <2> QED
    BY <2>1, <2>2 DEF UserRows
<1> QED
  BY <1>2, <1>3, <1>4, <1>5, <1>6 DEF Patches

\* An admin edits a user,
LEMMA UpdateUserKeeps ==
  ASSUME NodeSyncInv, NEW u \in Users, updateAdminUser(u)
  PROVE  NodeSyncInv'
<1>1. PICK row \in Patches(user[u]) :
        WriteUsers([user EXCEPT ![u] = row], {}, {})
  BY DEF updateAdminUser
<1>2. user[u] \in UserRows /\ (user[u].applied = "this" => user[u].expiry = "past")
  BY DEF NodeSyncInv, TypeOK, SweptIsPast
<1>3. /\ row \in UserRows /\ row.used = user[u].used
      /\ row.applied = "this" => row.expiry = "past"
  BY <1>2, PatchType
<1>4. edits' \in 0..MaxEdits
  BY DEF updateAdminUser, Edit, NodeSyncInv, TypeOK
<1> QED
  BY <1>1, <1>3, <1>4, RowKeeps

\* bans him or lifts the ban,
LEMMA BanKeeps ==
  ASSUME NodeSyncInv, NEW u \in Users, NEW b \in BOOLEAN, setBanned(u, b)
  PROVE  NodeSyncInv'
<1> DEFINE row == [user[u] EXCEPT !.banned = b]
<1>1. user[u] \in UserRows /\ (user[u].applied = "this" => user[u].expiry = "past")
  BY DEF NodeSyncInv, TypeOK, SweptIsPast
<1>2. row \in UserRows
  BY <1>1, Zenon DEF UserRows
<1>3. row.used = user[u].used /\ row.applied = user[u].applied /\ row.expiry = user[u].expiry
  BY <1>1 DEF UserRows
<1>4. WriteUsers([user EXCEPT ![u] = row], {}, {}) /\ edits' \in 0..MaxEdits
  BY DEF setBanned, Edit, NodeSyncInv, TypeOK
<1> HIDE DEF row
<1> QED
  BY <1>1, <1>2, <1>3, <1>4, RowKeeps

\* or ends his subscription.
LEMMA TerminateKeeps ==
  ASSUME NodeSyncInv, NEW u \in Users, terminateSubscription(u)
  PROVE  NodeSyncInv'
<1> DEFINE row == [user[u] EXCEPT !.planned = FALSE, !.plan = 0,
                     !.expiry = "past", !.reset = "never", !.applied = "no"]
<1>1. user[u] \in UserRows
  BY DEF NodeSyncInv, TypeOK
<1>2. row \in UserRows /\ row.used = user[u].used /\ row.applied # "this"
  BY <1>1 DEF UserRows, Times
<1>3. WriteUsers([user EXCEPT ![u] = row], {}, {}) /\ edits' \in 0..MaxEdits
  BY DEF terminateSubscription, Edit, NodeSyncInv, TypeOK
<1> HIDE DEF row
<1> QED
  BY <1>2, <1>3, RowKeeps

\* The sweep of dates touches columns that the trigger watches.
LEMMA ExpireKeeps ==
  ASSUME NodeSyncInv, runExpireCheck
  PROVE  NodeSyncInv'
<1> DEFINE pk(row) == IF PackExpired(row)
                        THEN [row EXCEPT !.pack = 0, !.packEnd = "never"] ELSE row
           swept == [u \in Users |-> IF Expired(user[u])
                                       THEN [pk(user[u]) EXCEPT !.applied = "this"]
                                       ELSE pk(user[u])]
           due == {v \in Users : Expired(user[v]) \/ PackExpired(user[v])}
           also == {user[u].group : u \in due}
<1>1. ASSUME NEW u \in Users
      PROVE  /\ swept[u] \in UserRows /\ swept[u].used = user[u].used
             /\ swept[u].applied = "this" => swept[u].expiry = "past"
  <2>1. user[u] \in UserRows /\ (user[u].applied = "this" => user[u].expiry = "past")
    BY DEF NodeSyncInv, TypeOK, SweptIsPast
  <2>2. /\ pk(user[u]) \in UserRows /\ pk(user[u]).used = user[u].used
        /\ pk(user[u]).applied = user[u].applied /\ pk(user[u]).expiry = user[u].expiry
    BY <2>1 DEF UserRows, Times
  <2>3. swept[u] = IF Expired(user[u]) THEN [pk(user[u]) EXCEPT !.applied = "this"]
                   ELSE pk(user[u])
    OBVIOUS
  <2> HIDE DEF pk, swept
  <2> QED
    BY <2>1, <2>2, <2>3 DEF UserRows, Expired
<1>2. also \in SUBSET Groups
  BY DEF NodeSyncInv, TypeOK, UserRows
<1>3. WriteUsers(swept, also, {}) /\ edits' = edits
  BY DEF runExpireCheck
<1>4. swept \in [Users -> UserRows]
  BY <1>1
<1> HIDE DEF swept, also
<1>5. ASSUME NEW v \in Users, NEW n \in Nodes,
             swept[v].group = user[v].group, Watched(user[v]) = Watched(swept[v])
      PROVE  Entry(user[v], server[n].groups) = Entry(swept[v], server[n].groups)
  BY <1>1, <1>5, WatchedColumns, EntryByColumns
<1>6. edits' \in 0..MaxEdits
  BY <1>3 DEF NodeSyncInv, TypeOK
<1> QED
  BY <1>1, <1>2, <1>3, <1>4, <1>5, <1>6, WriteKeeps

\* The reset of the traffic touches one that it does not watch: it is known
\* to be silent.
LEMMA ResetKeeps ==
  ASSUME NodeSyncInv, NEW q \in [Users -> Quotas], NEW next \in {"ahead", "never"},
         runTrafficReset(q, next)
  PROVE  NodeSyncInv'
<1> DEFINE new(u) == IF user[u].reset # "past" THEN user[u]
                     ELSE IF ~ user[u].planned THEN [user[u] EXCEPT !.reset = "never"]
                     ELSE [user[u] EXCEPT !.used = 0, !.reset = next,
                                          !.plan = q[u], !.pack = Carried(user[u])]
           rows == [u \in Users |-> new(u)]
           unsaid == UNION {Changed(u, rows[u]) : u \in Users}
<1>1. ASSUME NEW u \in Users
      PROVE  /\ rows[u] \in UserRows
             /\ rows[u].applied = "this" => rows[u].expiry = "past"
  <2>1. user[u] \in UserRows /\ (user[u].applied = "this" => user[u].expiry = "past")
    BY DEF NodeSyncInv, TypeOK, SweptIsPast
  <2>2. Carried(user[u]) \in Nat /\ q[u] \in Nat
    <3>1. user[u].pack \in Nat /\ user[u].used \in Nat /\ user[u].plan \in Nat
      BY <2>1 DEF UserRows
    <3> DEFINE beyond == IF user[u].used > user[u].plan THEN user[u].used - user[u].plan ELSE 0
    <3>2. beyond \in Nat
      BY <3>1
    <3>3. Carried(user[u]) = IF user[u].pack > beyond THEN user[u].pack - beyond ELSE 0
      BY DEF Carried
    <3>4. Carried(user[u]) \in Nat
      <4> HIDE DEF beyond
      <4> QED
        BY <3>1, <3>2, <3>3
    <3> QED
      BY <3>4
  <2>3. /\ [user[u] EXCEPT !.reset = "never"] \in UserRows
        /\ [user[u] EXCEPT !.reset = "never"].applied = user[u].applied
        /\ [user[u] EXCEPT !.reset = "never"].expiry = user[u].expiry
    BY <2>1 DEF UserRows, Times
  <2> DEFINE full == [user[u] EXCEPT !.used = 0, !.reset = next,
                                     !.plan = q[u], !.pack = Carried(user[u])]
  <2>4. full \in UserRows /\ full.applied = user[u].applied /\ full.expiry = user[u].expiry
    BY <2>1, <2>2 DEF UserRows, Times
  <2> QED
    BY <2>1, <2>3, <2>4
<1>2. unsaid \in SUBSET (Nodes \X Users)
  <2>1. \A u \in Users : Changed(u, rows[u]) \in SUBSET (Nodes \X Users)
    <3> HIDE DEF rows
    <3> QED
      BY DEF Changed
  <2> HIDE DEF rows
  <2> QED
    BY <2>1
<1>3. \A u \in Users, n \in Nodes :
        \/ Entry(user[u], server[n].groups) = Entry(rows[u], server[n].groups)
        \/ <<n, u>> \in unsaid
  <2> HIDE DEF rows
  <2> QED
    BY DEF Changed
<1>4. WriteUsers(rows, {}, unsaid) /\ edits' = edits
  BY DEF runTrafficReset
<1>5. rows \in [Users -> UserRows]
  BY <1>1
<1>6. edits' \in 0..MaxEdits
  BY <1>4 DEF NodeSyncInv, TypeOK
<1> HIDE DEF rows, unsaid
<1> QED
  BY <1>1, <1>2, <1>3, <1>4, <1>5, <1>6, WriteKeeps
-----------------------------------------------------------------------------
(* The polls, the traffic, the nodes.                                      *)

\* A step that writes no row and forgets no silence: whoever is still fresh
\* holds what he held.
LEMMA NoWriteKeeps ==
  ASSUME NodeSyncInv, TypeOK', UncreatedSilent', UNCHANGED <<user, silent>>,
         \A n \in fresh' : n \in fresh /\ held'[n] = held[n]
                           /\ server'[n].groups = server[n].groups
  PROVE  NodeSyncInv'
<1>1. SweptIsPast'
  BY DEF NodeSyncInv, SweptIsPast
<1>2. HeldTruthful'
  BY DEF NodeSyncInv, HeldTruthful
<1> QED
  BY <1>1, <1>2 DEF NodeSyncInv

\* A poll reads the revision.
LEMMA PollRevKeeps ==
  ASSUME NodeSyncInv, NEW n \in Nodes, PollRev(n)
  PROVE  NodeSyncInv'
<1>1. TypeOK'
  BY DEF PollRev, NodeSyncInv, TypeOK
<1>2. UncreatedSilent'
  BY DEF PollRev, NodeSyncInv, TypeOK, UncreatedSilent
<1> QED
  BY <1>1, <1>2, NoWriteKeeps DEF PollRev

\* The list of an answer is read after the revision its etag names.
LEMMA PollAnswerKeeps ==
  ASSUME NodeSyncInv, NEW n \in Nodes, PollAnswer(n)
  PROVE  NodeSyncInv'
<1> DEFINE list == [u \in Users |-> Entry(user[u], server[n].groups)]
<1>1. /\ held' = [held EXCEPT ![n] = list]
      /\ fresh' \in {fresh \cup {n}, fresh \ {n}}
      /\ reading[n] # "no" /\ reading' = [reading EXCEPT ![n] = "no"]
      /\ silent' = {s \in silent : s[1] # n}
      /\ UNCHANGED <<user, server, push, edits>>
  BY DEF PollAnswer
<1>2. list \in [Users -> Keys \cup {NoKey}]
  <2>1. \A u \in Users : user[u].key \in Keys
    BY DEF NodeSyncInv, TypeOK, UserRows
  <2> QED
    BY <2>1 DEF Entry
<1>3. /\ held'[n] = list
      /\ \A m \in Nodes : m # n => held'[m] = held[m]
  BY <1>1 DEF NodeSyncInv, TypeOK
<1>4. TypeOK'
  <2> HIDE DEF list
  <2> QED
    BY <1>1, <1>2 DEF NodeSyncInv, TypeOK
<1>5. UncreatedSilent' /\ SweptIsPast'
  BY <1>1 DEF NodeSyncInv, TypeOK, UncreatedSilent, SweptIsPast
<1>6. HeldTruthful'
  <2>1. ASSUME NEW m \in fresh', NEW u \in Users
        PROVE  \/ held'[m][u] = Entry(user[u], server[m].groups)
               \/ <<m, u>> \in silent'
               \/ Unswept(user[u]) /\ user[u].group \in server[m].groups
    <3>1. CASE m = n
      BY <1>3, <3>1
    <3>2. CASE m # n
      <4>1. m \in fresh /\ held'[m] = held[m] /\ (<<m, u>> \in silent => <<m, u>> \in silent')
        BY <1>1, <1>3, <1>4, <2>1, <3>2 DEF TypeOK
      <4> QED
        BY <4>1 DEF NodeSyncInv, HeldTruthful
    <3> QED
      BY <3>1, <3>2
  <2> QED
    BY <1>1, <2>1 DEF HeldTruthful
<1> QED
  BY <1>4, <1>5, <1>6 DEF NodeSyncInv

\* An answer is lost.
LEMMA PollLostKeeps ==
  ASSUME NodeSyncInv, NEW n \in Nodes, PollLost(n)
  PROVE  NodeSyncInv'
<1>1. TypeOK'
  BY DEF PollLost, NodeSyncInv, TypeOK
<1>2. UncreatedSilent'
  BY DEF PollLost, NodeSyncInv, TypeOK, UncreatedSilent
<1> QED
  BY <1>1, <1>2, NoWriteKeeps DEF PollLost

\* A node that restarts holds nothing.
LEMMA RestartKeeps ==
  ASSUME NodeSyncInv, NEW n \in Nodes, NodeRestart(n)
  PROVE  NodeSyncInv'
<1>1. TypeOK'
  BY DEF NodeRestart, Edit, NodeSyncInv, TypeOK
<1>2. UncreatedSilent'
  BY DEF NodeRestart, NodeSyncInv, TypeOK, UncreatedSilent
<1>3. \A m \in fresh' : m \in fresh /\ held'[m] = held[m]
  BY DEF NodeRestart, NodeSyncInv, TypeOK
<1> QED
  BY <1>1, <1>2, <1>3, NoWriteKeeps DEF NodeRestart

\* A report has read the quota and the nodes of the group.
LEMMA PushBeginKeeps ==
  ASSUME NodeSyncInv, NEW n \in Nodes, NEW u \in Users, PushBegin(n, u)
  PROVE  NodeSyncInv'
<1>1. TypeOK'
  <2>1. Quota(user[u]) \in Nat /\ InGroups({user[u].group}) \in SUBSET Nodes
    BY DEF NodeSyncInv, TypeOK, UserRows, Quota, InGroups
  <2> QED
    BY <2>1 DEF PushBegin, NodeSyncInv, TypeOK
<1>2. UncreatedSilent'
  BY DEF PushBegin, NodeSyncInv, UncreatedSilent
<1> QED
  BY <1>1, <1>2, NoWriteKeeps DEF PushBegin

\* A report fails: nothing of it is written.
LEMMA PushFailKeeps ==
  ASSUME NodeSyncInv, NEW n \in Nodes, PushFail(n)
  PROVE  NodeSyncInv'
<1>1. TypeOK'
  BY DEF PushFail, NodeSyncInv, TypeOK
<1>2. UncreatedSilent'
  BY DEF PushFail, NodeSyncInv, UncreatedSilent
<1> QED
  BY <1>1, <1>2, NoWriteKeeps DEF PushFail

\* A report that does not cross the quota changes no one's entry.
LEMMA NotCrossing ==
  ASSUME NEW row \in UserRows, NEW after \in UserRows, NEW gs,
         after = [row EXCEPT !.used = row.used + 1],
         ~ (row.used < Quota(row) /\ after.used >= Quota(row))
  PROVE  Entry(row, gs) = Entry(after, gs)
<1>1. /\ row.used \in Nat /\ Quota(row) \in Nat /\ after.used = row.used + 1
      /\ Quota(after) = Quota(row)
  BY DEF UserRows, Quota
<1>2. (row.used < Quota(row)) <=> (after.used < Quota(after))
  BY <1>1
<1>3. /\ after.group = row.group /\ after.key = row.key /\ after.expiry = row.expiry
      /\ (after.banned <=> row.banned)
  BY DEF UserRows
<1>4. Available(row, gs) <=> Available(after, gs)
  BY <1>2, <1>3 DEF Available
<1> QED
  BY <1>3, <1>4 DEF Entry

\* What a report changes without a bump its statement did not see.
LEMMA PushCommitKeeps ==
  ASSUME NodeSyncInv, NEW n \in Nodes, PushCommit(n)
  PROVE  NodeSyncInv'
<1> DEFINE p == push[n]
           after == [user[p.user] EXCEPT !.used = user[p.user].used + 1]
           unsaid == IF Stale(p) THEN Changed(p.user, after) ELSE {}
<1>1. /\ p \in [user : Users, quota : Nat, nodes : SUBSET Nodes]
      /\ user[p.user] \in UserRows
  BY DEF PushCommit, NodeSyncInv, TypeOK
<1>2. PICK u \in Users : u = p.user
  BY <1>1
<1>3. PICK ns \in SUBSET Nodes :
        /\ user' = [user EXCEPT ![u] = after]
        /\ Bump(ns) /\ Hush(unsaid, ns)
        /\ push' = [push EXCEPT ![n] = Idle]
        /\ UNCHANGED <<server, held, edits>>
        /\ user[u].used < p.quota /\ after.used >= p.quota => ns = p.nodes
  <2> DEFINE ns == IF user[u].used < p.quota /\ after.used >= p.quota THEN p.nodes ELSE {}
  <2>1. ns \in SUBSET Nodes
    BY <1>1
  <2> HIDE DEF ns
  <2> WITNESS ns \in SUBSET Nodes
  <2> QED
    BY <1>2 DEF PushCommit, ns
<1>4. /\ after \in UserRows /\ after.expiry = user[u].expiry /\ after.applied = user[u].applied
      /\ after.group = user[u].group
  <2>1. user[p.user].used + 1 \in Nat
    BY <1>1 DEF UserRows
  <2> QED
    BY <1>1, <1>2, <2>1 DEF UserRows
<1>5. /\ unsaid \in SUBSET (Nodes \X Users)
      /\ Stale(p) => unsaid = Changed(u, after)
  BY <1>2 DEF Changed
<1>6. after = [user[u] EXCEPT !.used = user[u].used + 1]
  BY <1>2
<1> HIDE DEF p, after, unsaid
<1>7. /\ user'[u] = after
      /\ \A v \in Users : v # u => user'[v] = user[v]
  BY <1>3 DEF NodeSyncInv, TypeOK
<1>8. TypeOK'
  BY <1>3, <1>4, <1>5, BumpType, HushType DEF NodeSyncInv, TypeOK
<1>9. UncreatedSilent' /\ SweptIsPast'
  BY <1>3, <1>4, <1>7, BumpType DEF NodeSyncInv, UncreatedSilent, SweptIsPast
<1>10. HeldTruthful'
  <2>1. ASSUME NEW m \in fresh', NEW v \in Users
        PROVE  \/ held[m][v] = Entry(user'[v], server[m].groups)
               \/ <<m, v>> \in silent'
               \/ Unswept(user'[v]) /\ user'[v].group \in server[m].groups
    <3>1. m \in fresh /\ m \notin ns /\ m \in Nodes
      BY <1>3, BumpType DEF NodeSyncInv, TypeOK
    <3>2. \/ held[m][v] = Entry(user[v], server[m].groups)
          \/ <<m, v>> \in silent
          \/ Unswept(user[v]) /\ user[v].group \in server[m].groups
      BY <3>1 DEF NodeSyncInv, HeldTruthful
    <3>3. <<m, v>> \in silent' <=> <<m, v>> \in silent \cup unsaid
      BY <1>3, <1>5, <3>1, HushType DEF NodeSyncInv
    <3>4. CASE v = u
      <4>1. \/ Entry(user[v], server[m].groups) = Entry(after, server[m].groups)
            \/ <<m, v>> \in unsaid
        <5>1. CASE Stale(p)
          BY <1>5, <3>1, <3>4, <5>1 DEF Changed
        <5>2. CASE ~ Stale(p) /\ user[u].group \notin server[m].groups
          BY <1>4, <3>4, <5>2, OtherGroup
        <5>3. CASE ~ Stale(p) /\ user[u].group \in server[m].groups
          <6>1. p.quota = Quota(user[u]) /\ m \in p.nodes
            BY <1>2, <3>1, <5>3 DEF Stale, InGroups
          <6>2. ~ (user[u].used < Quota(user[u]) /\ after.used >= Quota(user[u]))
            BY <1>3, <3>1, <6>1
          <6>3. user[u] \in UserRows
            BY DEF NodeSyncInv, TypeOK
          <6> QED
            BY <1>4, <1>6, <3>4, <6>2, <6>3, NotCrossing
        <5> QED
          BY <5>1, <5>2, <5>3
      <4> QED
        BY <1>4, <1>7, <3>2, <3>3, <3>4, <4>1 DEF Unswept
    <3>5. CASE v # u
      BY <1>7, <3>2, <3>3, <3>5
    <3> QED
      BY <3>4, <3>5
  <2> QED
    BY <1>3, <2>1 DEF HeldTruthful
<1> QED
  BY <1>8, <1>9, <1>10 DEF NodeSyncInv

\* A date passes in silence: of the columns of an entry only the expiry may
\* change, and then the sweep has not run for it.
LEMMA DateKeeps ==
  ASSUME NodeSyncInv, NEW u \in Users, NEW field \in {"expiry", "reset", "packEnd"},
         DatePasses(u, field)
  PROVE  NodeSyncInv'
<1> DEFINE row == [user[u] EXCEPT ![field] = "past"]
<1>1. user[u] \in UserRows /\ (user[u].applied = "this" => user[u].expiry = "past")
  BY DEF NodeSyncInv, TypeOK, SweptIsPast
<1>2. /\ user[u][field] = "ahead"
      /\ user' = [user EXCEPT ![u] = row]
      /\ UNCHANGED <<server, fresh, reading, held, push, silent, edits>>
  BY DEF DatePasses
<1>3. /\ row \in UserRows
      /\ row.applied = user[u].applied /\ row.group = user[u].group
      /\ \/ row.expiry = "past" /\ user[u].expiry = "ahead"
         \/ /\ row.expiry = user[u].expiry /\ row.key = user[u].key
            /\ row.banned <=> user[u].banned
            /\ row.plan = user[u].plan /\ row.pack = user[u].pack
            /\ row.used = user[u].used
  <2>1. CASE field = "expiry"
    <3>1. row = [user[u] EXCEPT !.expiry = "past"] /\ user[u].expiry = "ahead"
      BY <1>2, <2>1
    <3> HIDE DEF row
    <3> QED
      BY <1>1, <3>1 DEF UserRows, Times
  <2>2. CASE field = "reset"
    <3>1. row = [user[u] EXCEPT !.reset = "past"]
      BY <2>2
    <3> HIDE DEF row
    <3> QED
      BY <1>1, <3>1 DEF UserRows, Times
  <2>3. CASE field = "packEnd"
    <3>1. row = [user[u] EXCEPT !.packEnd = "past"]
      BY <2>3
    <3> HIDE DEF row
    <3> QED
      BY <1>1, <3>1 DEF UserRows, Times
  <2> QED
    BY <2>1, <2>2, <2>3
<1> HIDE DEF row
<1>4. /\ user'[u] = row
      /\ \A v \in Users : v # u => user'[v] = user[v]
  BY <1>2 DEF NodeSyncInv, TypeOK
<1>5. TypeOK'
  BY <1>2, <1>3 DEF NodeSyncInv, TypeOK
<1>6. UncreatedSilent' /\ SweptIsPast'
  BY <1>1, <1>2, <1>3, <1>4 DEF NodeSyncInv, UncreatedSilent, SweptIsPast
<1>7. HeldTruthful'
  <2>1. ASSUME NEW m \in fresh, NEW v \in Users
        PROVE  \/ held[m][v] = Entry(user'[v], server[m].groups)
               \/ <<m, v>> \in silent
               \/ Unswept(user'[v]) /\ user'[v].group \in server[m].groups
    <3>1. \/ held[m][v] = Entry(user[v], server[m].groups)
          \/ <<m, v>> \in silent
          \/ Unswept(user[v]) /\ user[v].group \in server[m].groups
      BY DEF NodeSyncInv, HeldTruthful
    <3>2. CASE v = u /\ row.expiry = "past" /\ user[u].expiry = "ahead"
      <4>1. Unswept(row)
        BY <1>1, <1>3, <3>2 DEF Unswept
      <4>2. CASE row.group \in server[m].groups
        BY <1>4, <3>2, <4>1, <4>2
      <4>3. CASE row.group \notin server[m].groups
        BY <1>3, <1>4, <3>1, <3>2, <4>3, OtherGroup
      <4> QED
        BY <4>2, <4>3
    <3>3. CASE v = u /\ row.expiry = user[u].expiry
      <4>1. Entry(user'[v], server[m].groups) = Entry(user[v], server[m].groups)
        BY <1>3, <1>4, <3>3, EntryByColumns
      <4>2. Unswept(user'[v]) <=> Unswept(user[v])
        BY <1>3, <1>4, <3>3 DEF Unswept
      <4> QED
        BY <1>3, <1>4, <3>1, <3>3, <4>1, <4>2
    <3>4. CASE v # u
      BY <1>4, <3>1, <3>4
    <3> QED
      BY <1>3, <3>2, <3>3, <3>4
  <2> QED
    BY <1>2, <2>1 DEF HeldTruthful
<1> QED
  BY <1>5, <1>6, <1>7 DEF NodeSyncInv

\* The traffic batch bumps the nodes it was told.
LEMMA BatchKeeps ==
  ASSUME NodeSyncInv, NEW ns \in SUBSET Nodes, runTrafficBatch(ns)
  PROVE  NodeSyncInv'
<1>1. Bump(ns) /\ Hush({}, ns) /\ UNCHANGED <<user, server, held, push, edits>>
  BY DEF runTrafficBatch
<1>2. TypeOK' /\ UncreatedSilent' /\ SweptIsPast'
  BY <1>1, BumpType, HushType DEF NodeSyncInv, TypeOK, UncreatedSilent, SweptIsPast
<1>3. HeldTruthful'
  <2>1. ASSUME NEW m \in fresh', NEW v \in Users
        PROVE  /\ m \in fresh
               /\ <<m, v>> \in silent => <<m, v>> \in silent'
    <3>1. m \in fresh /\ m \notin ns /\ m \in Nodes
      BY <1>1, BumpType DEF NodeSyncInv, TypeOK
    <3> QED
      BY <1>1, <3>1, HushType DEF NodeSyncInv
  <2> QED
    BY <1>1, <2>1 DEF NodeSyncInv, HeldTruthful
<1> QED
  BY <1>2, <1>3 DEF NodeSyncInv

\* A write of a node's row that bumps every node one of whose groups came or
\* went, but a node that only lost groups.
LEMMA ServerKeeps ==
  ASSUME NodeSyncInv, NEW n \in Nodes, NEW row \in ServerRows, row.status # "none",
         NEW ns \in SUBSET Nodes, NEW told \in SUBSET ns,
         NEW unsaid \in SUBSET (Nodes \X Users),
         server' = [server EXCEPT ![n] = row], Bump(ns), Hush(unsaid, told),
         UNCHANGED <<user, held, push>>, edits' \in 0..MaxEdits,
         n \in fresh \ ns =>
           /\ row.groups \subseteq server[n].groups
           /\ \A u \in Users : user[u].group \in server[n].groups \ row.groups
                => <<n, u>> \in unsaid
  PROVE  NodeSyncInv'
<1>1. /\ server'[n] = row
      /\ \A m \in Nodes : m # n => server'[m] = server[m]
  BY DEF NodeSyncInv, TypeOK
<1>2. TypeOK'
  BY BumpType, HushType DEF NodeSyncInv, TypeOK
<1>3. UncreatedSilent' /\ SweptIsPast'
  BY <1>1, BumpType DEF NodeSyncInv, UncreatedSilent, SweptIsPast
<1>4. HeldTruthful'
  <2>1. ASSUME NEW m \in fresh', NEW u \in Users
        PROVE  \/ held[m][u] = Entry(user[u], server'[m].groups)
               \/ <<m, u>> \in silent'
               \/ Unswept(user[u]) /\ user[u].group \in server'[m].groups
    <3>1. m \in fresh \ ns /\ m \in Nodes
      BY BumpType DEF NodeSyncInv, TypeOK
    <3>2. \/ held[m][u] = Entry(user[u], server[m].groups)
          \/ <<m, u>> \in silent
          \/ Unswept(user[u]) /\ user[u].group \in server[m].groups
      BY <3>1 DEF NodeSyncInv, HeldTruthful
    <3>3. <<m, u>> \in silent' <=> <<m, u>> \in silent \cup unsaid
      BY <3>1, HushType DEF NodeSyncInv
    <3>4. \/ user[u].group \in server[m].groups <=> user[u].group \in server'[m].groups
          \/ <<m, u>> \in unsaid
      BY <1>1, <3>1
    <3>5. (user[u].group \in server[m].groups <=> user[u].group \in server'[m].groups)
            => Entry(user[u], server'[m].groups) = Entry(user[u], server[m].groups)
      BY DEF Entry, Available
    <3> QED
      BY <3>2, <3>3, <3>4, <3>5
  <2> QED
    BY <2>1 DEF HeldTruthful
<1> QED
  BY <1>2, <1>3, <1>4 DEF NodeSyncInv

\* An admin creates a node,
LEMMA CreateNodeKeeps ==
  ASSUME NodeSyncInv, NEW n \in Nodes, NEW gs \in SUBSET Groups, NEW on \in BOOLEAN,
         createAdminNode(n, gs, on)
  PROVE  NodeSyncInv'
<1> DEFINE row == [status |-> IF on THEN "on" ELSE "off", groups |-> gs]
           ns == InGroups(gs) \cup (IF gs = {} THEN {} ELSE {n})
<1>1. row \in ServerRows /\ row.status # "none"
  BY DEF ServerRows
<1>2. server[n] \in ServerRows /\ n \notin fresh
  BY DEF createAdminNode, NodeSyncInv, TypeOK, UncreatedSilent
<1>3. ns \in SUBSET Nodes /\ InGroups(gs) \in SUBSET ns
  BY DEF InGroups
<1>4. /\ server' = [server EXCEPT ![n] = row] /\ Bump(ns) /\ Hush({}, InGroups(gs))
      /\ UNCHANGED <<user, held, push>> /\ edits' \in 0..MaxEdits
  BY DEF createAdminNode, Edit, NodeSyncInv, TypeOK
<1> HIDE DEF row, ns
<1> QED
  BY <1>1, <1>2, <1>3, <1>4, ServerKeeps

\* or edits one.
LEMMA UpdateNodeKeeps ==
  ASSUME NodeSyncInv, NEW n \in Nodes, NEW gs \in SUBSET Groups, NEW on \in BOOLEAN,
         updateAdminNode(n, gs, on)
  PROVE  NodeSyncInv'
<1> DEFINE row == [status |-> IF on THEN "on" ELSE "off", groups |-> gs]
           changed == (gs \ server[n].groups) \cup (server[n].groups \ gs)
           ns == {m \in Nodes : (IF m = n THEN gs ELSE server[m].groups) \cap changed # {}}
           unsaid == {<<n, u>> : u \in {v \in Users : user[v].group \in server[n].groups \ gs}}
<1>1. row \in ServerRows /\ row.status # "none" /\ row.groups = gs
  BY DEF ServerRows
<1>2. ns \in SUBSET Nodes /\ unsaid \in SUBSET (Nodes \X Users)
  OBVIOUS
<1>3. /\ server' = [server EXCEPT ![n] = row] /\ Bump(ns) /\ Hush(unsaid, ns)
      /\ UNCHANGED <<user, held, push>> /\ edits' \in 0..MaxEdits
  BY DEF updateAdminNode, Edit, NodeSyncInv, TypeOK
<1>4. n \notin ns => gs \subseteq server[n].groups
  OBVIOUS
<1>5. \A u \in Users : user[u].group \in server[n].groups \ gs => <<n, u>> \in unsaid
  OBVIOUS
<1> HIDE DEF row, ns, unsaid
<1> QED
  BY <1>1, <1>2, <1>3, <1>4, <1>5, ServerKeeps

\* Whether a node works, or is deleted, changes nothing of what it was told.
LEMMA StatusKeeps ==
  ASSUME NodeSyncInv, NEW n \in Nodes, NEW status \in {"on", "off", "gone"},
         server' = [server EXCEPT ![n].status = status],
         server[n].status \in {"on", "off"}, edits' \in 0..MaxEdits,
         UNCHANGED <<user, fresh, reading, held, push, silent>>
  PROVE  NodeSyncInv'
<1>1. TypeOK'
  <2>1. [server[n] EXCEPT !.status = status] \in ServerRows
    BY DEF NodeSyncInv, TypeOK, ServerRows
  <2>2. server' \in [Nodes -> ServerRows]
    BY <2>1 DEF NodeSyncInv, TypeOK
  <2> QED
    BY <2>2 DEF NodeSyncInv, TypeOK
<1>2. /\ \A m \in Nodes : server'[m].groups = server[m].groups
      /\ \A m \in Nodes : server'[m].status = "none" => server[m].status = "none"
  BY DEF NodeSyncInv, TypeOK, ServerRows
<1>3. UncreatedSilent'
  BY <1>2 DEF NodeSyncInv, UncreatedSilent
<1>4. \A m \in fresh : m \in Nodes
  BY DEF NodeSyncInv, TypeOK
<1> QED
  BY <1>1, <1>2, <1>3, <1>4, NoWriteKeeps

-----------------------------------------------------------------------------
(* The invariant.                                                          *)

\* No node holds anything at first.
LEMMA NodeSyncInit == Init => NodeSyncInv
<1> SUFFICES ASSUME Init PROVE NodeSyncInv
  OBVIOUS
<1>1. TypeOK
  BY DEF Init, TypeOK
<1>2. UncreatedSilent /\ SweptIsPast /\ HeldTruthful
  BY DEF Init, UncreatedSilent, SweptIsPast, HeldTruthful
<1> QED
  BY <1>1, <1>2 DEF NodeSyncInv

\* Every step keeps the invariant.
LEMMA NodeSyncNext == NodeSyncInv /\ [Next]_vars => NodeSyncInv'
<1> SUFFICES ASSUME NodeSyncInv, [Next]_vars PROVE NodeSyncInv'
  OBVIOUS
<1>1. ASSUME NEW n \in Nodes, NodeAction(n) PROVE NodeSyncInv'
  BY <1>1, PollRevKeeps, PollAnswerKeeps, PollLostKeeps, RestartKeeps, PushBeginKeeps,
     PushCommitKeeps, PushFailKeeps DEF NodeAction
<1>2. ASSUME NEW u \in Users, NEW field \in {"expiry", "reset", "packEnd"}, DatePasses(u, field)
      PROVE  NodeSyncInv'
  BY <1>2, DateKeeps
<1>3. ASSUME Task PROVE NodeSyncInv'
  BY <1>3, ExpireKeeps, ResetKeeps, BatchKeeps DEF Task
<1>4. ASSUME Admin PROVE NodeSyncInv'
  <2>1. ASSUME NEW n \in Nodes, NEW on \in BOOLEAN, setAdminNodeEnabled(n, on)
        PROVE  NodeSyncInv'
    <3>1. edits' \in 0..MaxEdits /\ (IF on THEN "on" ELSE "off") \in {"on", "off", "gone"}
      BY <2>1 DEF setAdminNodeEnabled, Edit, NodeSyncInv, TypeOK
    <3> QED
      BY <2>1, <3>1, StatusKeeps DEF setAdminNodeEnabled
  <2>2. ASSUME NEW n \in Nodes, deleteAdminNode(n)
        PROVE  NodeSyncInv'
    <3>1. edits' \in 0..MaxEdits
      BY <2>2 DEF deleteAdminNode, Edit, NodeSyncInv, TypeOK
    <3> QED
      BY <2>2, <3>1, StatusKeeps DEF deleteAdminNode
  <2> QED
    BY <1>4, <2>1, <2>2, UpdateUserKeeps, TerminateKeeps, BanKeeps, CreateNodeKeeps,
       UpdateNodeKeeps DEF Admin
<1>5. CASE UNCHANGED vars
  BY <1>5 DEF vars, NodeSyncInv, TypeOK, UncreatedSilent, SweptIsPast, HeldTruthful
<1> QED
  BY <1>1, <1>2, <1>3, <1>4, <1>5 DEF Next

-----------------------------------------------------------------------------
(* The theorems.                                                           *)

\* The invariant of users, nodes and the copies of the revision.
THEOREM NodeSyncInvariant == Spec => []NodeSyncInv
BY NodeSyncInit, NodeSyncNext, PTL DEF Spec

\* An etag that would be answered 304 tells the truth of every user, however
\* polls, reports, sweeps and admin writes interleave (GetUniProxyUsers, the
\* trigger users_bump_user_rev, AddNodeTrafficBatch, the node handlers).
THEOREM EtagsAreTruthful == Spec => []EtagTruthful
<1>1. NodeSyncInv => EtagTruthful
  BY DEF NodeSyncInv, HeldTruthful, EtagTruthful
<1> QED
  BY <1>1, NodeSyncInvariant, PTL

\* Users, nodes, their copies and the calls under way keep their types.
THEOREM NodesTyped == Spec => []TypeOK
<1>1. NodeSyncInv => TypeOK
  BY DEF NodeSyncInv
<1> QED
  BY <1>1, NodeSyncInvariant, PTL
=============================================================================
