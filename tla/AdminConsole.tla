---------------------------- MODULE AdminConsole -----------------------------
(***************************************************************************)
(* The dangerous operations of the admin console: who may do them, the     *)
(* code each of them takes, and what they do (middleware/admin.go,         *)
(* handler/admin_users.go, admin_nodes.go, audit/audit.go).                *)
(*                                                                         *)
(* A request goes through four steps, each of them a statement or a        *)
(* transaction of its own: the admin's row is read and the role judged     *)
(* on it; the row is read again and the code checked against its secret;   *)
(* the code is claimed in used_totp; the operation and its audit row are   *)
(* committed together.  Any of them may be the last: the request is        *)
(* refused, or its instance ends.                                          *)
(*                                                                         *)
(* Time is counted in TOTP steps of 30 s.  A code is the pair of a secret  *)
(* and a step: six digits that two of them share are left out.             *)
(***************************************************************************)
EXTENDS Integers, FiniteSets, Functions, Common

CONSTANTS
  Admins,      \* ids of admin_users, given out in ascending order
  Founders,    \* the ones set up by hand, all of them owners
  Emails, Requests,
  Keys,        \* node keys, all of one node
  Skew,        \* steps a code may be off: 1 in the code
  Patience,    \* steps a request may last, which Cloud Run cuts off: 4
  Retention,   \* steps used_totp remembers a code: 20 in the code
  MaxActive,   \* node keys active at once: 2 in the code
  Adjustments, \* changes D10 makes to a balance
  MaxStep, MaxSecret, MaxBalance, MaxCodes \* bounds; MaxCodes: on the codes claimed

Codes == [admin : Admins, secret : 0..MaxSecret, step : Nat]
AdminRows ==
  [status : {"none", "active", "disabled"}, email : Emails \cup {None}, owner : BOOLEAN,
   secret : 0..MaxSecret]
NoKey == [state |-> "none", used |-> FALSE]
Phases == {"seen", "verified", "stepped", "counted"}
\* History: `late', since its code was checked the admin was disabled or given
\* a new secret.
RequestRows ==
  [phase : Phases, admin : Admins, code : Codes \cup {None}, at : Nat, late : BOOLEAN]

ASSUME ConsoleAssumption ==
  /\ IsFiniteSet(Admins) /\ Admins \subseteq Nat
  /\ Founders \subseteq Admins /\ Founders # {}
  /\ \A a \in Founders, b \in Admins \ Founders : a < b
  /\ Skew \in Nat /\ Retention \in Nat /\ Patience \in Nat /\ Retention >= 2 * Skew + Patience
  /\ MaxActive \in Nat /\ Adjustments \subseteq Int \ {0}
  /\ None \notin Emails /\ None \notin Codes /\ None \notin RequestRows
  /\ MaxStep \in Nat /\ MaxSecret \in Nat /\ MaxBalance \in Nat /\ MaxCodes \in Nat

VARIABLES
  admin,   \* admin_users
  used,    \* used_totp: the codes, and when they were used
  now,     \* the TOTP step
  req,     \* the requests under way
  key,     \* server_keys
  balance, \* wallet_balances, of one user
  spent,   \* history: the codes claimed so far
  twice,   \* history: the ones claimed again
  crossed  \* history: an admin was disabled by one who was disabled already

vars == <<admin, used, now, req, key, balance, spent, twice, crossed>>

TypeOK ==
  /\ admin \in [Admins -> AdminRows]
  /\ used \subseteq [code : Codes, at : Nat]
  /\ now \in Nat
  /\ req \in [Requests -> RequestRows \cup {None}]
  /\ key \in [Keys -> [state : {"none", "active", "expired", "revoked"}, used : BOOLEAN]]
  /\ balance \in Nat
  /\ twice \subseteq spent /\ spent \subseteq Codes
  /\ crossed \in BOOLEAN

Active == {a \in Admins : admin[a].status = "active"}
Rows == {a \in Admins : admin[a].status # "none"}
UnderWay(phases) == {r \in Requests : req[r] # None /\ req[r].phase \in phases}
PastCheck == UnderWay({"verified", "stepped", "counted"})

\* The request is answered, or stops where it is.
Answered(r) == req' = [req EXCEPT ![r] = None]
\* The same, and the requests `overtaken' are late from now on.
AnsweredBefore(r, overtaken) ==
  req' = [q \in Requests |->
    IF q = r THEN None
    ELSE IF q \in overtaken THEN [req[q] EXCEPT !.late = TRUE]
    ELSE req[q]]
Fail(r) ==
  /\ req[r] # None
  /\ Answered(r)
  /\ UNCHANGED <<admin, used, now, key, balance, spent, twice, crossed>>
-----------------------------------------------------------------------------
(* Who may: AuthenticateAdmin, checkAdminUsable, requireOwnerRole.          *)

\* Of the rows with this address the active one, else the latest.
LookupAdminByIAPEmail(e) ==
  LET rows  == {a \in Rows : admin[a].email = e}
      first == IF rows \cap Active # {} THEN rows \cap Active ELSE rows
  IN  {a \in first : \A b \in first : b <= a}

\* requireOwnerRole, on the row read here.  adminNodeKeyGate lets owners and
\* admins through, but nobody is made an admin; perm_adjust_balance is set by
\* hand, here for the owners.  So what the request asks for may be chosen
\* when it is done.
Gate(a) == admin[a].owner

Authenticate(r, e) ==
  /\ req[r] = None
  /\ \E a \in LookupAdminByIAPEmail(e) :
       /\ admin[a].status = "active"
       /\ Gate(a)
       /\ req' = [req EXCEPT ![r] =
            [phase |-> "seen", admin |-> a, code |-> None, at |-> now, late |-> FALSE]]
  /\ UNCHANGED <<admin, used, now, key, balance, spent, twice, crossed>>
-----------------------------------------------------------------------------
(* The code: RequireStepUp, ClaimTOTPCode, CleanupUsedTotp.                 *)

\* verifyTOTPCode: of the steps around now.
VerifyTOTPCode(step) == step \in Nat /\ step \in (now - Skew)..(now + Skew)

Checked(r, step) ==
  /\ r \in UnderWay({"seen"})
  /\ VerifyTOTPCode(step)
  /\ LET a == req[r].admin IN
       req' = [req EXCEPT ![r] =
         [@ EXCEPT !.phase = "verified", !.at = now,
                   !.code = [admin |-> a, secret |-> admin[a].secret, step |-> step]]]
  /\ UNCHANGED <<admin, used, now, key, balance, spent, twice, crossed>>

\* Mutant: that the admin is active is taken from the beginning of the request.
RequireStepUp_Snapshot(r, step) == Checked(r, step)

\* The row is read again, for its secret and for checkAdminUsable.
RequireStepUp(r, step) ==
  /\ r \in UnderWay({"seen"})
  /\ admin[req[r].admin].status = "active"
  /\ Checked(r, step)

Claimed(r) ==
  LET c == req[r].code IN
  /\ r \in UnderWay({"verified"})
  /\ now <= req[r].at + Patience
  /\ Cardinality(spent \cup {c}) <= MaxCodes
  /\ used' = {u \in used : u.code # c} \cup {[code |-> c, at |-> now]}
  /\ spent' = spent \cup {c}
  /\ twice' = twice \cup ({c} \cap spent)
  /\ req' = [req EXCEPT ![r].phase = "stepped"]
  /\ UNCHANGED <<admin, now, key, balance, crossed>>

\* Mutant: ON CONFLICT DO UPDATE.
ClaimTOTPCode_Upsert(r) == Claimed(r)

\* The primary key of used_totp refuses a code that is there.
ClaimTOTPCode(r) ==
  /\ Claimed(r)
  /\ \A u \in used : u.code # req[r].code

\* Mutant: a code is forgotten as soon as it is no longer the current one.
CleanupUsedTotp_AfterSkew ==
  /\ used' = {u \in used : u.at >= now - Skew}
  /\ UNCHANGED <<admin, now, req, key, balance, spent, twice, crossed>>

CleanupUsedTotp ==
  /\ used' = {u \in used : u.at >= now - Retention}
  /\ UNCHANGED <<admin, now, req, key, balance, spent, twice, crossed>>

Tick ==
  /\ now < MaxStep
  /\ now' = now + 1
  /\ UNCHANGED <<admin, used, req, key, balance, spent, twice, crossed>>
-----------------------------------------------------------------------------
(* The operations: audit.InTx commits each with its audit row.              *)

\* Mutant: no unique index, where 0019 replaced it.
Taken_Never(e) == FALSE

\* CreateAdmin: a support admin.  admin_users_email_uk is unique among the
\* active rows; who comes back gets a new row.
Taken(e) == \E a \in Active : admin[a].email = e

CreateAdmin(r, a, e) ==
  /\ r \in UnderWay({"stepped"})
  /\ a \in Admins \ Rows /\ \A b \in Admins \ Rows : a <= b
  /\ ~ Taken(e)
  /\ admin' = [admin EXCEPT ![a] =
       [status |-> "active", email |-> e, owner |-> FALSE, secret |-> 0]]
  /\ Answered(r)
  /\ UNCHANGED <<used, now, key, balance, spent, twice, crossed>>

Overtaken(a) == {q \in PastCheck : req[q].admin = a}

resetAdminTotpTx(r, a) ==
  /\ r \in UnderWay({"stepped"})
  /\ a \in Rows /\ admin[a].secret < MaxSecret
  /\ admin' = [admin EXCEPT ![a].secret = @ + 1]
  /\ AnsweredBefore(r, Overtaken(a))
  /\ UNCHANGED <<used, now, key, balance, spent, twice, crossed>>

Disabled(r, a) ==
  /\ r \in UnderWay({"stepped"})
  /\ a \in Rows
  /\ admin' = [admin EXCEPT ![a].status = "disabled"]
  /\ AnsweredBefore(r, Overtaken(a))
  /\ crossed' = (crossed \/ admin[req[r].admin].status = "disabled")
  /\ UNCHANGED <<used, now, key, balance, spent, twice>>

\* Mutant: an admin may disable himself.
deleteAdminTx_Self(r, a) == Disabled(r, a)

\* The row that is disabled is locked, the actor's is not looked at again.
deleteAdminTx(r, a) == Disabled(r, a) /\ a # req[r].admin

\* Mutant: the check constraint is missing.
adjustBalanceTx_Unchecked(r, amount) ==
  /\ r \in UnderWay({"stepped"})
  /\ balance + amount <= MaxBalance
  /\ balance' = balance + amount
  /\ Answered(r)
  /\ UNCHANGED <<admin, used, now, key, spent, twice, crossed>>

\* wallet_balances checks that no balance is negative.
adjustBalanceTx(r, amount) ==
  /\ r \in UnderWay({"stepped"})
  /\ balance + amount \in 0..MaxBalance
  /\ balance' = balance + amount
  /\ Answered(r)
  /\ UNCHANGED <<admin, used, now, key, spent, twice, crossed>>

\* createAdminNodeKey counts the keys, then inserts one; nothing is locked.
ActiveKeys == {k \in Keys : key[k].state = "active"}

AdminCountActiveNodeKeys(r) ==
  /\ r \in UnderWay({"stepped"})
  /\ Cardinality(ActiveKeys) < MaxActive
  /\ req' = [req EXCEPT ![r].phase = "counted"]
  /\ UNCHANGED <<admin, used, now, key, balance, spent, twice, crossed>>

CreateServerKey(r, k) ==
  /\ r \in UnderWay({"counted"})
  /\ key[k].state = "none"
  /\ key' = [key EXCEPT ![k] = [state |-> "active", used |-> FALSE]]
  /\ Answered(r)
  /\ UNCHANGED <<admin, used, now, balance, spent, twice, crossed>>

\* A key is witnessed by another one that was used since it was issued.
\* Nothing writes last_used_at: TouchServerKey has no caller.
Witnesses(k) == {w \in ActiveKeys \ {k} : key[w].used}

\* AdminRevokeNodeKeyTwoStep, and the answer when it matches no row.
revokeAdminNodeKey(r, k) ==
  /\ r \in UnderWay({"stepped"})
  /\ key[k].state \in {"active", "expired"}
  /\ key' = IF Witnesses(k) = {} THEN key ELSE [key EXCEPT ![k].state = "revoked"]
  /\ Answered(r)
  /\ UNCHANGED <<admin, used, now, balance, spent, twice, crossed>>

\* A key that was given a date reaches it.
KeyExpires(k) ==
  /\ key[k].state = "active"
  /\ key' = [key EXCEPT ![k].state = "expired"]
  /\ UNCHANGED <<admin, used, now, req, balance, spent, twice, crossed>>
-----------------------------------------------------------------------------
Init ==
  /\ \E email \in Injection(Founders, Emails) :
       admin = [a \in Admins |->
         [status |-> IF a \in Founders THEN "active" ELSE "none",
          email |-> IF a \in Founders THEN email[a] ELSE None,
          owner |-> a \in Founders, secret |-> 0]]
  /\ used = {} /\ now = 0 /\ spent = {} /\ twice = {} /\ crossed = FALSE
  /\ req = [r \in Requests |-> None]
  /\ key = [k \in Keys |-> NoKey]
  /\ balance = 0

Judge(r) == \E e \in Emails : Authenticate(r, e)
StepUp(r) == \E step \in 0..(MaxStep + Skew) : RequireStepUp(r, step)

ManageAdmins(r) ==
  \E a \in Admins :
    \/ \E e \in Emails : CreateAdmin(r, a, e)
    \/ resetAdminTotpTx(r, a)
    \/ deleteAdminTx(r, a)

ManageKeys(r) ==
  \/ AdminCountActiveNodeKeys(r)
  \/ \E k \in Keys : CreateServerKey(r, k) \/ revokeAdminNodeKey(r, k)

Next ==
  \/ \E r \in Requests :
       \/ Judge(r) \/ StepUp(r) \/ ClaimTOTPCode(r) \/ Fail(r)
       \/ ManageAdmins(r) \/ ManageKeys(r)
       \/ \E amount \in Adjustments : adjustBalanceTx(r, amount)
  \/ CleanupUsedTotp
  \/ Tick
  \/ \E k \in Keys : KeyExpires(k)

Spec == Init /\ [][Next]_vars
-----------------------------------------------------------------------------
(* Properties                                                              *)

\* A code lets one operation through, however often and however soon it is
\* sent again and whenever used_totp is cleaned up (ClaimTOTPCode,
\* CleanupUsedTotp).
CodeAuthorisesOnce == twice = {}

\* Between the check of its code and its commit a request may be overtaken by
\* its admin's disabling or new secret; apart from those, nobody acts who is
\* disabled or has shown a code of an older secret (RequireStepUp reads the
\* row again).
LockedOut ==
  \A r \in PastCheck :
    \/ req[r].late
    \/ /\ admin[req[r].admin].status = "active"
       /\ req[r].code.secret = admin[req[r].admin].secret

\* Owners are never made, and never disable themselves: somebody can still
\* manage the admins, unless one of them disabled another after he was
\* disabled himself (deleteAdminTx does not look at the actor again).
OwnerRemains == (\E a \in Active : admin[a].owner) \/ crossed

\* Whoever is active is found by his address, also if an earlier row of his
\* was disabled (LookupAdminByIAPEmail, admin_users_email_uk).
ActiveFound == \A a \in Active : LookupAdminByIAPEmail(admin[a].email) = {a}
-----------------------------------------------------------------------------
(* Why they hold: what every reachable state satisfies besides.            *)

\* An address has one active row, and every row has an address.
EmailsUnique ==
  /\ \A a \in Rows : admin[a].email \in Emails
  /\ \A a, b \in Active : admin[a].email = admin[b].email => a = b

\* Who has a request under way is an owner, in office or not.
OwnersAsk ==
  /\ \A a \in Admins : admin[a].owner => a \in Rows
  /\ \A r \in Requests : req[r] # None => admin[req[r].admin].owner

\* A code was good when it was checked.
CodesTimely ==
  \A r \in PastCheck :
    /\ req[r].code # None
    /\ req[r].code.step >= req[r].at - Skew /\ req[r].code.step <= req[r].at + Skew
    /\ req[r].at <= now

\* A code that was claimed is remembered until no request can bring it again.
SpentRemembered ==
  /\ \A u \in used : u.code.step <= u.at + Skew
  /\ \A c \in spent : (\E u \in used : u.code = c) \/ now > c.step + Skew + Patience

ConsoleInv ==
  /\ TypeOK /\ EmailsUnique /\ OwnersAsk /\ CodesTimely /\ SpentRemembered
  /\ CodeAuthorisesOnce /\ LockedOut /\ OwnerRemains
=============================================================================
