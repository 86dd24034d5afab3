------------------------------ MODULE Accounts ------------------------------
(***************************************************************************)
(* How an account is made and kept: invite codes, codes sent by mail,      *)
(* sessions and passwords (handler/auth.go, CreateInviteCode of wallet.go, *)
(* middleware/user.go).                                                    *)
(*                                                                         *)
(* Every handler here reads and judges first and writes in a statement or  *)
(* a transaction of its own later, with a password hash or a mail in       *)
(* between, so a request is two actions and anything may run between them. *)
(* A password is the number of times it was set.  Rate limits by address   *)
(* only refuse requests and are left out.                                  *)
(***************************************************************************)
EXTENDS Integers, FiniteSets

CONSTANTS
  Emails, Invites, Reqs,
  Starts,       \* the accounts and invite codes a behaviour may start from
  Nobody,       \* the owner of a seed code
  NoInvite,     \* an account that was there from the start
  Idle,         \* no request
  PerHour,      \* codes an address may be sent per hour and purpose
  MaxAttempts,  \* wrong tries a code bears
  MaxUnused,    \* unused invite codes a user may have
  MaxRows,      \* bound on the codes and sessions written
  MaxPassword   \* bound on the times a password is set

Purposes == {"register", "password_reset"}

AccountRows ==
  [made : BOOLEAN, by : Invites \cup {NoInvite}, password : Nat]
InviteRows ==
  [minted : BOOLEAN, owner : Emails \cup {Nobody}, max : Nat, used : Nat,
   expired : BOOLEAN]
NoAccount == [made |-> FALSE, by |-> NoInvite, password |-> 0]
NotMinted == [minted |-> FALSE, owner |-> Nobody, max |-> 0, used |-> 0, expired |-> FALSE]

ASSUME AccountsAssumption ==
  /\ IsFiniteSet(Emails) /\ IsFiniteSet(Invites) /\ IsFiniteSet(Reqs)
  /\ Reqs # {} /\ Nobody \notin Emails /\ NoInvite \notin Invites
  /\ Starts \subseteq [account : [Emails -> AccountRows], invite : [Invites -> InviteRows]]
  /\ \A start \in Starts, i \in Invites :
       /\ start.invite[i].used <= start.invite[i].max
       /\ ~ start.invite[i].minted => start.invite[i] = NotMinted
       /\ start.invite[i].used =
            Cardinality({e \in Emails : start.account[e].made /\ start.account[e].by = i})
  /\ \A x \in {PerHour, MaxAttempts, MaxUnused, MaxRows, MaxPassword} :
       x \in Nat

VARIABLES
  account,   \* users, by address
  invite,    \* invite_codes
  code,      \* email_verifications, in the order they were written
  session,   \* user_sessions
  req        \* the requests that have judged and not yet written

vars == <<account, invite, code, session, req>>

CodeRows ==
  [email : Emails, purpose : Purposes, age : {"valid", "expired", "past"}, attempts : Nat,
   delivered : BOOLEAN, consumed : BOOLEAN]
\* root is the login a chain of refreshes began with; password, which one it
\* was given for; raced, whether what it was given for was taken back between
\* judging and writing.  The last two are histories.
SessionRows ==
  [email : Emails, live : BOOLEAN, root : 1..MaxRows, password : Nat, raced : BOOLEAN]
Requests ==
  [kind : {"send", "guess", "register", "login", "refresh", "reset", "change", "mint"},
   email : Emails, purpose : Purposes, code : 0..MaxRows, session : 0..MaxRows,
   invite : Invites \cup {NoInvite}, password : Nat,
   deliver : BOOLEAN, late : BOOLEAN]

TypeOK ==
  /\ account \in [Emails -> AccountRows]
  /\ invite \in [Invites -> InviteRows]
  /\ \E n \in 0..MaxRows : code \in [1..n -> CodeRows]
  /\ \E n \in 0..MaxRows : session \in [1..n -> SessionRows]
  /\ req \in [Reqs -> Requests \cup {Idle}]
  /\ \A i \in Invites : invite[i].used <= invite[i].max

Written(table) == Cardinality(DOMAIN table)

\* The bound on rows; a registration's session beyond it is not followed.
RoomForARow == Written(code) + Written(session) < MaxRows

\* A table with one more row.
Insert(table, row) ==
  [i \in 1..(Written(table) + 1) |-> IF i = Written(table) + 1 THEN row ELSE table[i]]

(***************************************************************************)
(* Requests                                                                *)
(***************************************************************************)
Blank(kind, e) ==
  [kind |-> kind, email |-> e, purpose |-> "register", code |-> 0, session |-> 0,
   invite |-> NoInvite, password |-> 0, deliver |-> FALSE, late |-> FALSE]

\* r has read and judged; nothing is written yet.
Judged(r, q) ==
  /\ req[r] = Idle
  /\ req' = [req EXCEPT ![r] = q]
  /\ UNCHANGED <<account, invite, code, session>>

\* r is answered, and the requests `outrun' are late.
Answered(r, outrun) ==
  req' = [q \in Reqs |->
    IF q = r THEN Idle
    ELSE IF q \in outrun THEN [req[q] EXCEPT !.late = TRUE]
    ELSE req[q]]

UnderWay == {q \in Reqs : req[q] # Idle}

\* The requests that use a session of `gone', or are a login of e's.
UsesOf(gone, e) ==
  {p \in UnderWay : req[p].session \in gone \/ (req[p].kind = "login" /\ req[p].email = e)}

\* A request fails, is refused by its own write, or ends with its instance.
Dropped(r) ==
  /\ req[r] # Idle
  /\ req' = [req EXCEPT ![r] = Idle]
  /\ UNCHANGED <<account, invite, code, session>>

(***************************************************************************)
(* Codes by mail: SendEmailCode, ForgotPassword, checkEmailCode            *)
(***************************************************************************)
Recent(e, p) == {c \in DOMAIN code : code[c].email = e /\ code[c].purpose = p /\ code[c].age # "past"}

\* CountRecentEmailVerifications, of SendEmailCode and ForgotPassword alike
\* (the first also keeps a minute's distance, which is left out).  A code no
\* one may use is recorded and not sent.
SendEmailCode(r, e, p) ==
  /\ Cardinality(Recent(e, p)) < PerHour
  /\ Judged(r, [Blank("send", e) EXCEPT !.purpose = p,
                  !.deliver = (p = "register") # account[e].made])

\* The row; the mail may fail after it.
issueVerification(r, arrives) ==
  /\ req[r] # Idle /\ req[r].kind = "send"
  /\ RoomForARow
  /\ arrives => req[r].deliver
  /\ code' = Insert(code, [email |-> req[r].email, purpose |-> req[r].purpose, age |-> "valid",
                           attempts |-> 0, delivered |-> arrives, consumed |-> FALSE])
  /\ Answered(r, {})
  /\ UNCHANGED <<account, invite, session>>

\* The code's life, then the hour it is counted in.
Ageing(c) ==
  /\ code[c].age # "past"
  /\ code' = [code EXCEPT ![c].age = IF @ = "valid" THEN "expired" ELSE "past"]
  /\ UNCHANGED <<account, invite, session, req>>

\* GetLatestEmailVerification.
Latest(e, p) ==
  {c \in DOMAIN code :
     /\ code[c].email = e /\ code[c].purpose = p /\ ~ code[c].consumed
     /\ \A d \in DOMAIN code :
          code[d].email = e /\ code[d].purpose = p /\ ~ code[d].consumed => d <= c}

Tryable(c) == code[c].age = "valid" /\ code[c].attempts < MaxAttempts

\* checkEmailCode with another code than the one sent.
WrongCode(r, e) ==
  \E c \in Latest(e, "register") :
    Tryable(c) /\ Judged(r, [Blank("guess", e) EXCEPT !.code = c])

IncrementVerificationAttempts(r) ==
  /\ req[r] # Idle /\ req[r].kind = "guess"
  /\ code' = [code EXCEPT ![req[r].code].attempts = @ + 1]
  /\ Answered(r, {})
  /\ UNCHANGED <<account, invite, session>>

(***************************************************************************)
(* Registration and invite codes                                           *)
(***************************************************************************)
\* classifyInviteCode.
Usable(i) == invite[i].minted /\ ~ invite[i].expired /\ invite[i].used < invite[i].max

\* RegisterAccount up to its transaction.
RegisterAccount(r, e, i) ==
  /\ Usable(i)
  /\ ~ account[e].made
  /\ \E c \in Latest(e, "register") :
       /\ Tryable(c) /\ code[c].delivered
       /\ Judged(r, [Blank("register", e) EXCEPT !.invite = i, !.code = c])

\* RedeemInviteCode looks at the count again, not at the expiry.
\* Mutant: the count is judged once, before the transaction.
RedeemInviteCode_Judged(i) == TRUE

RedeemInviteCode(i) == invite[i].used < invite[i].max

\* Mutant: the redemption is a statement of its own, and what follows fails.
registerTx_RedeemsAlone(r) ==
  /\ req[r] # Idle /\ req[r].kind = "register"
  /\ RedeemInviteCode(req[r].invite)
  /\ invite' = [invite EXCEPT ![req[r].invite].used = @ + 1]
  /\ Answered(r, {})
  /\ UNCHANGED <<account, code, session>>

\* registerTx.  CreateUser meets users_email_uk when the address is taken.
registerTx(r) ==
  LET q == req[r] IN
  /\ q # Idle /\ q.kind = "register"
  /\ RedeemInviteCode(q.invite)
  /\ ~ account[q.email].made
  /\ invite' = [invite EXCEPT ![q.invite].used = @ + 1]
  /\ account' = [account EXCEPT ![q.email] =
                   [made |-> TRUE, by |-> q.invite, password |-> 0]]
  /\ code' = [code EXCEPT ![q.code].consumed = TRUE]
  /\ session' = IF ~ RoomForARow THEN session
                ELSE Insert(session, [email |-> q.email, live |-> TRUE, password |-> 0,
                                      root |-> Written(session) + 1, raced |-> FALSE])
  /\ Answered(r, {})

Unused(e) == {i \in Invites : invite[i].minted /\ invite[i].owner = e /\ invite[i].used = 0}

LoggedIn(s) == session[s].live

\* CreateInviteCode: the count and the row are one statement, whose count
\* is of its snapshot.
CreateInviteCode(r, s) ==
  /\ LoggedIn(s)
  /\ Cardinality(Unused(session[s].email)) < MaxUnused
  /\ Judged(r, Blank("mint", session[s].email))

CreateUserInviteCode(r, i) ==
  /\ req[r] # Idle /\ req[r].kind = "mint"
  /\ ~ invite[i].minted
  /\ invite' = [invite EXCEPT ![i] = [minted |-> TRUE, owner |-> req[r].email, max |-> 1,
                                      used |-> 0, expired |-> FALSE]]
  /\ Answered(r, {})
  /\ UNCHANGED <<account, code, session>>

\* A seed code reaches its date.
InviteExpires(i) ==
  /\ invite[i].minted /\ ~ invite[i].expired /\ invite[i].owner = Nobody
  /\ invite' = [invite EXCEPT ![i].expired = TRUE]
  /\ UNCHANGED <<account, code, session, req>>

(***************************************************************************)
(* Sessions                                                                *)
(***************************************************************************)
Revoke(ss) == [s \in DOMAIN session |->
                 IF s \in ss THEN [session[s] EXCEPT !.live = FALSE] ELSE session[s]]

\* Login with the right password, up to the session.
Login(r, e) ==
  /\ account[e].made
  /\ Judged(r, [Blank("login", e) EXCEPT !.password = account[e].password])

issueSession(r) ==
  LET q == req[r] IN
  /\ q # Idle /\ q.kind = "login"
  /\ RoomForARow
  /\ session' = Insert(session, [email |-> q.email, live |-> TRUE, password |-> q.password,
                                 root |-> Written(session) + 1, raced |-> q.late])
  /\ Answered(r, {})
  /\ UNCHANGED <<account, invite, code>>

\* RefreshToken reads the session it was given ...
RefreshToken(r, s) ==
  /\ LoggedIn(s)
  /\ Judged(r, [Blank("refresh", session[s].email) EXCEPT !.session = s])

\* Mutant: the old session stays.
Rotated_Not(s) == {}

Rotated(s) == {s}

\* ... and writes the new one and revokes the old, whether or not someone
\* revoked it meanwhile.
RotateUserSession(r) ==
  LET q   == req[r]
      old == session[q.session]
  IN
  /\ q # Idle /\ q.kind = "refresh"
  /\ RoomForARow
  /\ session' = Insert(Revoke(Rotated(q.session)),
                  [old EXCEPT !.live = TRUE, !.raced = @ \/ q.late])
  /\ Answered(r, {p \in UnderWay : req[p].session = q.session})
  /\ UNCHANGED <<account, invite, code>>

Logout(s) ==
  /\ LoggedIn(s)
  /\ session' = Revoke({s})
  /\ req' = [q \in Reqs |-> IF req[q] # Idle /\ req[q].session = s
                              THEN [req[q] EXCEPT !.late = TRUE] ELSE req[q]]
  /\ UNCHANGED <<account, invite, code>>

SessionExpires(s) ==
  /\ session[s].live
  /\ session' = Revoke({s})
  /\ UNCHANGED <<account, invite, code, req>>

(***************************************************************************)
(* Passwords                                                               *)
(***************************************************************************)
SessionsOf(e) == {s \in DOMAIN session : session[s].email = e}

\* ResetPassword: GetEmailVerificationByCodeHash, then the transaction, which
\* does not look at the row again.
ResetPassword(r, c) ==
  /\ code[c].purpose = "password_reset" /\ code[c].delivered
  /\ ~ code[c].consumed /\ code[c].age = "valid"
  /\ Judged(r, [Blank("reset", code[c].email) EXCEPT !.code = c])

\* Mutant: the session used last is spared.
RevokeAllUserSessions_ButLast(e) ==
  {s \in SessionsOf(e) : \E t \in SessionsOf(e) : t > s}

RevokeAllUserSessions(e) == SessionsOf(e)

resetTx(r) ==
  LET q    == req[r]
      gone == RevokeAllUserSessions(q.email)
  IN
  /\ q # Idle /\ q.kind = "reset"
  /\ account[q.email].password < MaxPassword
  /\ account' = [account EXCEPT ![q.email].password = @ + 1]
  /\ code' = [code EXCEPT ![q.code].consumed = TRUE]
  /\ session' = Revoke(gone)
  /\ Answered(r, UsesOf(gone, q.email))
  /\ UNCHANGED invite

\* ChangePassword: the old password is checked, the new one hashed, and the
\* transaction revokes every session but the one of the request.
ChangePassword(r, s) ==
  /\ LoggedIn(s)
  /\ Judged(r, [Blank("change", session[s].email) EXCEPT !.session = s])

RevokeOtherUserSessions(e, s) == SessionsOf(e) \ {s}

changeTx(r) ==
  LET q    == req[r]
      gone == RevokeOtherUserSessions(q.email, q.session)
  IN
  /\ q # Idle /\ q.kind = "change"
  /\ account[q.email].password < MaxPassword
  /\ account' = [account EXCEPT ![q.email].password = @ + 1]
  /\ session' = [Revoke(gone) EXCEPT ![q.session].password = account'[q.email].password]
  /\ Answered(r, UsesOf(gone, q.email))
  /\ UNCHANGED <<invite, code>>
-----------------------------------------------------------------------------
Init ==
  /\ \E start \in Starts : account = start.account /\ invite = start.invite
  /\ code = << >>
  /\ session = << >>
  /\ req = [r \in Reqs |-> Idle]

Judge(r) ==
  \/ \E e \in Emails, p \in Purposes : SendEmailCode(r, e, p)
  \/ \E e \in Emails : WrongCode(r, e) \/ Login(r, e)
  \/ \E e \in Emails, i \in Invites : RegisterAccount(r, e, i)
  \/ \E s \in DOMAIN session :
       CreateInviteCode(r, s) \/ RefreshToken(r, s) \/ ChangePassword(r, s)
  \/ \E c \in DOMAIN code : ResetPassword(r, c)

Write(r) ==
  \/ \E arrives \in BOOLEAN : issueVerification(r, arrives)
  \/ IncrementVerificationAttempts(r)
  \/ registerTx(r)
  \/ \E i \in Invites : CreateUserInviteCode(r, i)
  \/ issueSession(r)
  \/ RotateUserSession(r)
  \/ resetTx(r)
  \/ changeTx(r)
  \/ Dropped(r)

Next ==
  \/ \E r \in Reqs : Judge(r) \/ Write(r)
  \/ \E s \in DOMAIN session : Logout(s) \/ SessionExpires(s)
  \/ \E c \in DOMAIN code : Ageing(c)
  \/ \E i \in Invites : InviteExpires(i)

Spec == Init /\ [][Next]_vars
-----------------------------------------------------------------------------
(* Properties.                                                             *)

\* The invite codes tell who was let in: a code was used as often as there
\* are accounts made with it, however many registrations were judged on its
\* last use, and whichever of them failed after redeeming it (registerTx).
InvitesTruthful ==
  \A i \in Invites :
    invite[i].used = Cardinality({e \in Emails : account[e].made /\ account[e].by = i})

\* A reset or a change of the password leaves no session given for an older
\* one (RevokeAllUserSessions, RevokeOtherUserSessions), except what a login
\* or refresh, judged before it, writes after it.
OldPasswordsOut ==
  \A s \in DOMAIN session :
    session[s].live /\ ~ session[s].raced =>
      session[s].password = account[session[s].email].password

\* A chain of refreshes has one live end, however often it is refreshed,
\* logged out or cut by a new password (RotateUserSession), except for what
\* a refresh judged before its session went writes afterwards.
OneEndPerLogin ==
  \A s, t \in DOMAIN session :
    /\ session[s].live /\ session[t].live /\ s # t
    /\ session[s].root = session[t].root
    => session[s].raced \/ session[t].raced
-----------------------------------------------------------------------------
(* The inductive invariant.                                                *)

\* A code that was not made yet has its table's defaults.
NotYetMinted == \A i \in Invites : ~ invite[i].minted => invite[i] = NotMinted

\* A request names what it was judged on, and that is still there.
RequestsFit ==
  \A r \in UnderWay :
    LET q == req[r] IN
    /\ q.kind = "register" => q.invite \in Invites
    /\ q.kind \in {"refresh", "change"} =>
         q.session \in DOMAIN session /\ session[q.session].email = q.email
    /\ q.kind = "login" => account[q.email].made

\* A session is somebody's, and its login has a row of its own.
SessionsFit ==
  \A s \in DOMAIN session :
    account[session[s].email].made /\ session[s].root \in DOMAIN session

\* A login that is not late has the password there is.
LoginsCurrent ==
  \A r \in UnderWay :
    req[r].kind = "login" /\ ~ req[r].late => req[r].password = account[req[r].email].password

\* A session that is live, or that a refresh which is not late will renew,
\* though its time has run out meanwhile.
Counts(s) ==
  /\ ~ session[s].raced
  /\ \/ session[s].live
     \/ \E r \in UnderWay : req[r].kind = "refresh" /\ req[r].session = s /\ ~ req[r].late

\* Every session that counts has the password there is, and is the only one
\* of its login.
CountsCurrent ==
  \A s \in DOMAIN session :
    Counts(s) => session[s].password = account[session[s].email].password

CountsAlone ==
  \A s, t \in DOMAIN session :
    Counts(s) /\ Counts(t) /\ session[s].root = session[t].root => s = t

AccountsInv ==
  /\ TypeOK /\ NotYetMinted /\ InvitesTruthful
  /\ RequestsFit /\ SessionsFit /\ LoginsCurrent /\ CountsCurrent /\ CountsAlone
=============================================================================
