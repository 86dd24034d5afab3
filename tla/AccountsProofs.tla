--------------------------- MODULE AccountsProofs ---------------------------
(***************************************************************************)
(* Theorems about Accounts, for any number of addresses, invite codes and  *)
(* requests and every limit: invite codes tell who was let in, a new       *)
(* password leaves no session of an older one, and a login has one end.    *)
(***************************************************************************)
EXTENDS Accounts, FiniteSetTheorems, TLAPS

USE AccountsAssumption

-----------------------------------------------------------------------------
(* Tables.                                                                 *)

\* A table of n rows has n rows.
LEMMA RowsWritten ==
  ASSUME NEW n \in Nat, NEW table, DOMAIN table = 1..n
  PROVE  Written(table) = n
<1>1. Cardinality(1..n) = n
  BY FS_Interval
<1> QED
  BY <1>1 DEF Written

\* Inserting a row keeps the others and puts the new one behind them.
LEMMA InsertBehind ==
  ASSUME NEW Rows, NEW n \in Nat, NEW table \in [1..n -> Rows], NEW row \in Rows
  PROVE  /\ Written(table) = n
         /\ Insert(table, row) \in [1..(n + 1) -> Rows]
         /\ Insert(table, row)[n + 1] = row
         /\ \A i \in 1..n : Insert(table, row)[i] = table[i]
<1>1. Written(table) = n
  BY RowsWritten
<1> QED
  BY <1>1 DEF Insert

\* Revoking sessions takes their life and nothing else.
LEMMA RevokeKeeps ==
  ASSUME TypeOK, NEW ss
  PROVE  /\ \A n \in Nat : session \in [1..n -> SessionRows] => Revoke(ss) \in [1..n -> SessionRows]
         /\ DOMAIN Revoke(ss) = DOMAIN session
         /\ \A s \in DOMAIN session :
              /\ Revoke(ss)[s].email = session[s].email
              /\ Revoke(ss)[s].root = session[s].root
              /\ Revoke(ss)[s].raced = session[s].raced
              /\ Revoke(ss)[s].password = session[s].password
              /\ Revoke(ss)[s].live = (session[s].live /\ s \notin ss)
<1>0. PICK n \in 0..MaxRows : session \in [1..n -> SessionRows]
  BY DEF TypeOK
<1>1. DOMAIN Revoke(ss) = DOMAIN session
  BY DEF Revoke
<1>2. ASSUME NEW s \in DOMAIN session
      PROVE  /\ Revoke(ss)[s] \in SessionRows
             /\ Revoke(ss)[s].email = session[s].email
             /\ Revoke(ss)[s].root = session[s].root
             /\ Revoke(ss)[s].raced = session[s].raced
             /\ Revoke(ss)[s].password = session[s].password
             /\ Revoke(ss)[s].live = (session[s].live /\ s \notin ss)
  <2>1. session[s] \in SessionRows
    BY <1>0
  <2> QED
    BY <2>1 DEF Revoke, SessionRows
<1>3. \A m \in Nat : session \in [1..m -> SessionRows] => Revoke(ss) \in [1..m -> SessionRows]
  BY <1>2 DEF Revoke
<1> QED
  BY <1>1, <1>2, <1>3
-----------------------------------------------------------------------------
(* Types.                                                                  *)

\* There is room for a row when the bound says so.
LEMMA RoomLeft ==
  ASSUME TypeOK, RoomForARow
  PROVE  /\ \E n \in 0..(MaxRows - 1) : code \in [1..n -> CodeRows]
         /\ \E n \in 0..(MaxRows - 1) : session \in [1..n -> SessionRows]
<1>1. PICK n \in 0..MaxRows : code \in [1..n -> CodeRows]
  BY DEF TypeOK
<1>2. PICK m \in 0..MaxRows : session \in [1..m -> SessionRows]
  BY DEF TypeOK
<1>3. Written(code) = n /\ Written(session) = m
  BY <1>1, <1>2, RowsWritten
<1>4. n + m < MaxRows
  BY <1>3 DEF RoomForARow
<1>5. n \in 0..(MaxRows - 1) /\ m \in 0..(MaxRows - 1)
  BY <1>4
<1> QED
  BY <1>1, <1>2, <1>5

\* Answering a request keeps the others, at most late.
LEMMA AnsweredKeeps ==
  ASSUME TypeOK, NEW r \in Reqs, NEW outrun \in SUBSET UnderWay, Answered(r, outrun)
  PROVE  /\ req' \in [Reqs -> Requests \cup {Idle}]
         /\ req'[r] = Idle
         /\ \A p \in Reqs \ {r} : p \notin outrun => req'[p] = req[p]
         /\ \A p \in outrun \ {r} : req'[p] = [req[p] EXCEPT !.late = TRUE]
<1>1. ASSUME NEW p \in UnderWay
      PROVE  [req[p] EXCEPT !.late = TRUE] \in Requests
  <2>1. req[p] \in Requests
    BY DEF UnderWay, TypeOK
  <2> QED
    BY <2>1 DEF Requests
<1> QED
  BY <1>1 DEF Answered, UnderWay, TypeOK

\* The blank requests are requests.
LEMMA BlankType ==
  ASSUME NEW e \in Emails,
         NEW kind \in {"send", "guess", "register", "login", "refresh", "reset", "change", "mint"}
  PROVE  Blank(kind, e) \in Requests
BY DEF Blank, Requests, Purposes

\* A request with another field is a request.
LEMMA RequestWith ==
  ASSUME NEW q \in Requests
  PROVE  /\ \A p \in Purposes, b \in BOOLEAN :
              [q EXCEPT !.purpose = p, !.deliver = b] \in Requests
         /\ \A c \in 0..MaxRows : [q EXCEPT !.code = c] \in Requests
         /\ \A s \in 0..MaxRows : [q EXCEPT !.session = s] \in Requests
         /\ \A w \in Nat : [q EXCEPT !.password = w] \in Requests
         /\ \A i \in Invites, c \in 0..MaxRows :
              [q EXCEPT !.invite = i, !.code = c] \in Requests
<1>1. \A p \in Purposes, b \in BOOLEAN : [q EXCEPT !.purpose = p, !.deliver = b] \in Requests
  BY DEF Requests
<1>2. \A c \in 0..MaxRows : [q EXCEPT !.code = c] \in Requests
  BY DEF Requests
<1>3. \A s \in 0..MaxRows : [q EXCEPT !.session = s] \in Requests
  BY DEF Requests
<1>4. \A w \in Nat : [q EXCEPT !.password = w] \in Requests
  BY DEF Requests
<1>5. \A i \in Invites, c \in 0..MaxRows : [q EXCEPT !.invite = i, !.code = c] \in Requests
  BY DEF Requests
<1> QED
  BY <1>1, <1>2, <1>3, <1>4, <1>5

\* Judging writes nothing but the request.
LEMMA JudgedType ==
  ASSUME TypeOK, NEW r \in Reqs, NEW q \in Requests, Judged(r, q)
  PROVE  TypeOK'
BY DEF TypeOK, Judged

\* Every way of judging makes a request.
LEMMA JudgeType ==
  ASSUME TypeOK, NEW r \in Reqs, Judge(r)
  PROVE  TypeOK'
<1>0. PICK n \in 0..MaxRows : code \in [1..n -> CodeRows]
  BY DEF TypeOK
<1>00. PICK m \in 0..MaxRows : session \in [1..m -> SessionRows]
  BY DEF TypeOK
<1>1. ASSUME NEW e \in Emails, NEW p \in Purposes, SendEmailCode(r, e, p)
      PROVE  TypeOK'
  <2>0. Blank("send", e) \in Requests /\ ((p = "register") # account[e].made) \in BOOLEAN
    BY BlankType
  <2>1. [Blank("send", e) EXCEPT !.purpose = p,
                                 !.deliver = (p = "register") # account[e].made] \in Requests
    BY <2>0, RequestWith
  <2> QED
    BY <1>1, <2>1, JudgedType DEF SendEmailCode
<1>2. ASSUME NEW e \in Emails, WrongCode(r, e)
      PROVE  TypeOK'
  <2>1. PICK c \in Latest(e, "register") : Judged(r, [Blank("guess", e) EXCEPT !.code = c])
    BY <1>2 DEF WrongCode
  <2>2. c \in 0..MaxRows
    BY <1>0 DEF Latest
  <2>3. [Blank("guess", e) EXCEPT !.code = c] \in Requests
    BY <2>2, BlankType, RequestWith
  <2> QED
    BY <2>1, <2>3, JudgedType
<1>3. ASSUME NEW e \in Emails, Login(r, e)
      PROVE  TypeOK'
  <2>1. [Blank("login", e) EXCEPT !.password = account[e].password] \in Requests
    BY BlankType, RequestWith DEF TypeOK, AccountRows
  <2> QED
    BY <1>3, <2>1, JudgedType DEF Login
<1>4. ASSUME NEW e \in Emails, NEW i \in Invites, RegisterAccount(r, e, i)
      PROVE  TypeOK'
  <2>1. PICK c \in Latest(e, "register") :
          Judged(r, [Blank("register", e) EXCEPT !.invite = i, !.code = c])
    BY <1>4 DEF RegisterAccount
  <2>2. c \in 0..MaxRows
    BY <1>0 DEF Latest
  <2>3. [Blank("register", e) EXCEPT !.invite = i, !.code = c] \in Requests
    BY <2>2, BlankType, RequestWith
  <2> QED
    BY <2>1, <2>3, JudgedType
<1>5. ASSUME NEW s \in DOMAIN session, CreateInviteCode(r, s) \/ RefreshToken(r, s) \/ ChangePassword(r, s)
      PROVE  TypeOK'
  <2>1. s \in 0..MaxRows /\ session[s].email \in Emails
    BY <1>00 DEF SessionRows
  <2>2. ASSUME NEW kind \in {"refresh", "change"}
        PROVE  [Blank(kind, session[s].email) EXCEPT !.session = s] \in Requests
    BY <2>1, BlankType, RequestWith
  <2>3. Blank("mint", session[s].email) \in Requests
    BY <2>1, BlankType
  <2> QED
    BY <1>5, <2>2, <2>3, JudgedType DEF CreateInviteCode, RefreshToken, ChangePassword
<1>6. ASSUME NEW c \in DOMAIN code, ResetPassword(r, c)
      PROVE  TypeOK'
  <2>1. c \in 0..MaxRows /\ code[c].email \in Emails
    BY <1>0 DEF CodeRows
  <2>2. [Blank("reset", code[c].email) EXCEPT !.code = c] \in Requests
    BY <2>1, BlankType, RequestWith
  <2> QED
    BY <1>6, <2>2, JudgedType DEF ResetPassword
<1> QED
  BY <1>1, <1>2, <1>3, <1>4, <1>5, <1>6 DEF Judge

\* A code row that was tried, consumed or has aged is a code row.
LEMMA CodeRowType ==
  ASSUME TypeOK, NEW c
  PROVE  \E n \in 0..MaxRows :
           /\ [code EXCEPT ![c].consumed = TRUE] \in [1..n -> CodeRows]
           /\ [code EXCEPT ![c].attempts = @ + 1] \in [1..n -> CodeRows]
           /\ [code EXCEPT ![c].age = IF @ = "valid" THEN "expired" ELSE "past"] \in [1..n -> CodeRows]
<1>1. PICK n \in 0..MaxRows : code \in [1..n -> CodeRows]
  BY DEF TypeOK
<1>2. ASSUME NEW row \in CodeRows
      PROVE  /\ [row EXCEPT !.consumed = TRUE] \in CodeRows
             /\ [row EXCEPT !.attempts = row.attempts + 1] \in CodeRows
             /\ \A age \in {"expired", "past"} : [row EXCEPT !.age = age] \in CodeRows
  <2>1. [row EXCEPT !.consumed = TRUE] \in CodeRows
    BY DEF CodeRows
  <2>2. [row EXCEPT !.attempts = row.attempts + 1] \in CodeRows
    BY DEF CodeRows
  <2>3. \A age \in {"expired", "past"} : [row EXCEPT !.age = age] \in CodeRows
    BY DEF CodeRows
  <2> QED
    BY <2>1, <2>2, <2>3
<1>3. c \notin DOMAIN code \/ code[c] \in CodeRows
  BY <1>1
<1>4. CASE c \notin DOMAIN code
  BY <1>1, <1>4
<1>5. CASE c \in DOMAIN code
  BY <1>1, <1>2, <1>3, <1>5
<1> QED
  BY <1>4, <1>5

\* The row of a table that is kept is where it was, and a new one fits.
LEMMA CodeInserted ==
  ASSUME TypeOK, RoomForARow, NEW row \in CodeRows
  PROVE  \E n \in 0..MaxRows : Insert(code, row) \in [1..n -> CodeRows]
<1>1. PICK n \in 0..(MaxRows - 1) : code \in [1..n -> CodeRows]
  BY RoomLeft
<1>2. n \in Nat /\ n + 1 \in 0..MaxRows
  OBVIOUS
<1>3. Insert(code, row) \in [1..(n + 1) -> CodeRows]
  BY <1>1, <1>2, InsertBehind
<1> QED
  BY <1>2, <1>3

\* Sending, judging and writing of codes keep the types.
LEMMA CodeWritesType ==
  ASSUME TypeOK, NEW r \in Reqs,
         \/ \E arrives \in BOOLEAN : issueVerification(r, arrives)
         \/ IncrementVerificationAttempts(r)
  PROVE  TypeOK'
<1>1. ASSUME NEW arrives \in BOOLEAN, issueVerification(r, arrives)
      PROVE  TypeOK'
  <2> DEFINE row == [email |-> req[r].email, purpose |-> req[r].purpose, age |-> "valid",
                     attempts |-> 0, delivered |-> arrives, consumed |-> FALSE]
  <2>1. row \in CodeRows
    <3>1. req[r] \in Requests
      BY <1>1 DEF issueVerification, TypeOK
    <3>2. req[r].email \in Emails /\ req[r].purpose \in Purposes
      BY <3>1 DEF Requests
    <3> QED
      BY <3>2 DEF CodeRows
  <2>2. code' = Insert(code, row) /\ RoomForARow /\ Answered(r, {})
        /\ UNCHANGED <<account, invite, session>>
    BY <1>1 DEF issueVerification
  <2> HIDE DEF row
  <2>3. \E n \in 0..MaxRows : code' \in [1..n -> CodeRows]
    BY <2>1, <2>2, CodeInserted
  <2>4. req' \in [Reqs -> Requests \cup {Idle}]
    BY <2>2, AnsweredKeeps
  <2> QED
    BY <2>2, <2>3, <2>4 DEF TypeOK
<1>2. ASSUME IncrementVerificationAttempts(r)
      PROVE  TypeOK'
  <2>1. \E n \in 0..MaxRows : code' \in [1..n -> CodeRows]
    BY <1>2, CodeRowType DEF IncrementVerificationAttempts
  <2>2. req' \in [Reqs -> Requests \cup {Idle}]
    BY <1>2, AnsweredKeeps DEF IncrementVerificationAttempts
  <2> QED
    BY <1>2, <2>1, <2>2 DEF TypeOK, IncrementVerificationAttempts
<1> QED
  BY <1>1, <1>2

\* The session a registration or a login writes.
NewSession(e, w, raced) ==
  [email |-> e, live |-> TRUE, password |-> w, root |-> Written(session) + 1, raced |-> raced]

\* It is the root of a chain of its own, behind every row there is.
LEMMA SessionInserted ==
  ASSUME TypeOK, RoomForARow, NEW e \in Emails, NEW w \in Nat, NEW raced \in BOOLEAN
  PROVE  \E n \in 0..(MaxRows - 1) :
           /\ DOMAIN session = 1..n /\ Written(session) = n
           /\ NewSession(e, w, raced) \in SessionRows
           /\ Insert(session, NewSession(e, w, raced)) \in [1..(n + 1) -> SessionRows]
           /\ Insert(session, NewSession(e, w, raced))[n + 1] = NewSession(e, w, raced)
           /\ \A s \in 1..n : Insert(session, NewSession(e, w, raced))[s] = session[s]
<1>1. PICK n \in 0..(MaxRows - 1) : session \in [1..n -> SessionRows]
  BY RoomLeft
<1>2. Written(session) = n
  BY <1>1, RowsWritten
<1>3. NewSession(e, w, raced) \in SessionRows
  BY <1>2 DEF NewSession, SessionRows
<1>4. n \in Nat
  OBVIOUS
<1>5. Insert(session, NewSession(e, w, raced)) \in [1..(n + 1) -> SessionRows]
  BY <1>1, <1>3, <1>4, InsertBehind
<1>6. /\ Insert(session, NewSession(e, w, raced))[n + 1] = NewSession(e, w, raced)
      /\ \A s \in 1..n : Insert(session, NewSession(e, w, raced))[s] = session[s]
  BY <1>2, <1>4 DEF Insert
<1> QED
  BY <1>1, <1>2, <1>3, <1>5, <1>6

\* A registration keeps the types.
LEMMA RegisterType ==
  ASSUME TypeOK, RequestsFit, NEW r \in Reqs, registerTx(r)
  PROVE  TypeOK'
<1> DEFINE q == req[r]
<1>1. q \in Requests /\ r \in UnderWay
  BY DEF registerTx, TypeOK, UnderWay
<1>2. q.email \in Emails /\ q.invite \in Invites
  BY <1>1 DEF Requests, RequestsFit, registerTx
<1>3. account' \in [Emails -> AccountRows]
  BY <1>2 DEF registerTx, TypeOK, AccountRows
<1>4. invite' \in [Invites -> InviteRows] /\ \A i \in Invites : invite'[i].used <= invite'[i].max
  <2>1. invite[q.invite] \in InviteRows
    BY <1>2 DEF TypeOK
  <2>2. /\ [invite[q.invite] EXCEPT !.used = invite[q.invite].used + 1] \in InviteRows
        /\ invite[q.invite].used + 1 <= invite[q.invite].max
    BY <2>1 DEF InviteRows, registerTx, RedeemInviteCode
  <2>3. invite' = [invite EXCEPT ![q.invite] =
                     [invite[q.invite] EXCEPT !.used = invite[q.invite].used + 1]]
    BY DEF registerTx
  <2>4. [invite[q.invite] EXCEPT !.used = invite[q.invite].used + 1].used = invite[q.invite].used + 1
        /\ [invite[q.invite] EXCEPT !.used = invite[q.invite].used + 1].max = invite[q.invite].max
    BY <2>1 DEF InviteRows
  <2> QED
    BY <1>2, <2>2, <2>3, <2>4 DEF TypeOK
<1>5. \E n \in 0..MaxRows : code' \in [1..n -> CodeRows]
  BY CodeRowType DEF registerTx
<1>6. \E n \in 0..MaxRows : session' \in [1..n -> SessionRows]
  <2>1. CASE RoomForARow
    <3>1. session' = Insert(session, NewSession(q.email, 0, FALSE))
      BY <2>1 DEF registerTx, NewSession
    <3>2. PICK n \in 0..(MaxRows - 1) :
            Insert(session, NewSession(q.email, 0, FALSE)) \in [1..(n + 1) -> SessionRows]
      BY <1>2, <2>1, SessionInserted
    <3>3. n + 1 \in 0..MaxRows
      OBVIOUS
    <3> QED
      BY <3>1, <3>2, <3>3
  <2>2. CASE ~ RoomForARow
    BY <2>2 DEF registerTx, TypeOK
  <2> QED
    BY <2>1, <2>2
<1>7. req' \in [Reqs -> Requests \cup {Idle}]
  BY AnsweredKeeps DEF registerTx
<1> QED
  BY <1>3, <1>4, <1>5, <1>6, <1>7 DEF TypeOK

\* Invite codes made and expired keep the types.
LEMMA InviteWritesType ==
  ASSUME TypeOK, NEW i \in Invites,
         (\E r \in Reqs : CreateUserInviteCode(r, i)) \/ InviteExpires(i)
  PROVE  TypeOK'
<1>1. ASSUME NEW r \in Reqs, CreateUserInviteCode(r, i)
      PROVE  TypeOK'
  <2> DEFINE row == [minted |-> TRUE, owner |-> req[r].email, max |-> 1,
                     used |-> 0, expired |-> FALSE]
  <2>1. req[r] \in Requests
    BY <1>1 DEF CreateUserInviteCode, TypeOK
  <2>2. row \in InviteRows /\ row.used <= row.max
    BY <2>1 DEF Requests, InviteRows
  <2>3. invite' = [invite EXCEPT ![i] = row] /\ Answered(r, {}) /\ UNCHANGED <<account, code, session>>
    BY <1>1 DEF CreateUserInviteCode
  <2> HIDE DEF row
  <2>4. req' \in [Reqs -> Requests \cup {Idle}]
    BY <2>3, AnsweredKeeps
  <2> QED
    BY <2>2, <2>3, <2>4 DEF TypeOK
<1>2. ASSUME InviteExpires(i)
      PROVE  TypeOK'
  <2>1. invite[i] \in InviteRows
    BY DEF TypeOK
  <2>2. /\ [invite[i] EXCEPT !.expired = TRUE] \in InviteRows
        /\ [invite[i] EXCEPT !.expired = TRUE].used = invite[i].used
        /\ [invite[i] EXCEPT !.expired = TRUE].max = invite[i].max
    BY <2>1 DEF InviteRows
  <2>3. invite' = [invite EXCEPT ![i] = [invite[i] EXCEPT !.expired = TRUE]]
        /\ UNCHANGED <<account, code, session, req>>
    BY <1>2 DEF InviteExpires
  <2> QED
    BY <2>2, <2>3 DEF TypeOK
<1> QED
  BY <1>1, <1>2

\* A login's session keeps the types.
LEMMA LoginType ==
  ASSUME TypeOK, NEW r \in Reqs, issueSession(r)
  PROVE  TypeOK'
<1> DEFINE q == req[r]
<1>1. q \in Requests
  BY DEF issueSession, TypeOK
<1>2. q.email \in Emails /\ q.password \in Nat /\ q.late \in BOOLEAN
  BY <1>1 DEF Requests
<1>3. session' = Insert(session, NewSession(q.email, q.password, q.late)) /\ RoomForARow
  BY DEF issueSession, NewSession
<1>4. PICK n \in 0..(MaxRows - 1) :
        Insert(session, NewSession(q.email, q.password, q.late)) \in [1..(n + 1) -> SessionRows]
  BY <1>2, <1>3, SessionInserted
<1>5. n + 1 \in 0..MaxRows
  OBVIOUS
<1>6. req' \in [Reqs -> Requests \cup {Idle}]
  BY AnsweredKeeps DEF issueSession
<1> QED
  BY <1>3, <1>4, <1>5, <1>6 DEF TypeOK, issueSession

\* A refreshed session takes the place of the one it was given for: the rows
\* there are keep everything but their life.
LEMMA Rotates ==
  ASSUME TypeOK, RequestsFit, NEW r \in Reqs, RotateUserSession(r)
  PROVE  \E n \in 0..(MaxRows - 1) :
           /\ req[r].session \in 1..n
           /\ DOMAIN session = 1..n
           /\ session' \in [1..(n + 1) -> SessionRows]
           /\ session'[n + 1] = [session[req[r].session] EXCEPT
                !.live = TRUE, !.raced = session[req[r].session].raced \/ req[r].late]
           /\ \A s \in 1..n : session'[s] = Revoke({req[r].session})[s]
<1> DEFINE q == req[r]
           row == [session[q.session] EXCEPT !.live = TRUE, !.raced = session[q.session].raced \/ q.late]
           rest == Revoke({q.session})
<1>1. PICK n \in 0..(MaxRows - 1) : session \in [1..n -> SessionRows]
  BY RoomLeft DEF RotateUserSession
<1>2. n \in Nat
  OBVIOUS
<1>3. q.session \in 1..n
  BY <1>1 DEF RequestsFit, UnderWay, RotateUserSession
<1>4. session[q.session] \in SessionRows /\ q \in Requests
  BY <1>1, <1>3 DEF RotateUserSession, TypeOK
<1>5. row \in SessionRows
  BY <1>4 DEF SessionRows, Requests
<1>6. rest \in [1..n -> SessionRows]
  BY <1>1, <1>2, RevokeKeeps
<1>7. session' = Insert(rest, row)
  BY DEF RotateUserSession, Rotated
<1> HIDE DEF row, rest
<1>8. Insert(rest, row) \in [1..(n + 1) -> SessionRows]
  BY <1>2, <1>5, <1>6, InsertBehind
<1>9. Written(rest) = n
  BY <1>2, <1>6, RowsWritten
<1>10. Insert(rest, row)[n + 1] = row /\ \A s \in 1..n : Insert(rest, row)[s] = rest[s]
  BY <1>2, <1>9 DEF Insert
<1> QED
  BY <1>1, <1>3, <1>7, <1>8, <1>10 DEF row, rest

\* A refresh keeps the types.
LEMMA RotateType ==
  ASSUME TypeOK, RequestsFit, NEW r \in Reqs, RotateUserSession(r)
  PROVE  TypeOK'
<1>1. PICK n \in 0..(MaxRows - 1) : session' \in [1..(n + 1) -> SessionRows]
  BY Rotates
<1>2. n + 1 \in 0..MaxRows
  OBVIOUS
<1>3. req' \in [Reqs -> Requests \cup {Idle}]
  BY AnsweredKeeps DEF RotateUserSession
<1> QED
  BY <1>1, <1>2, <1>3 DEF TypeOK, RotateUserSession

\* Another password for an account is an account.
LEMMA PasswordType ==
  ASSUME TypeOK, NEW e \in Emails
  PROVE  /\ [account EXCEPT ![e].password = @ + 1] \in [Emails -> AccountRows]
         /\ [account EXCEPT ![e].password = @ + 1][e].password = account[e].password + 1
         /\ [account EXCEPT ![e].password = @ + 1][e].made = account[e].made
         /\ [account EXCEPT ![e].password = @ + 1][e].by = account[e].by
         /\ \A f \in Emails \ {e} : [account EXCEPT ![e].password = @ + 1][f] = account[f]
<1>1. account[e] \in AccountRows
  BY DEF TypeOK
<1>2. [account[e] EXCEPT !.password = account[e].password + 1] \in AccountRows
  BY <1>1 DEF AccountRows
<1>3. [account EXCEPT ![e].password = @ + 1]
        = [account EXCEPT ![e] = [account[e] EXCEPT !.password = account[e].password + 1]]
  OBVIOUS
<1>4. /\ [account[e] EXCEPT !.password = account[e].password + 1].password = account[e].password + 1
      /\ [account[e] EXCEPT !.password = account[e].password + 1].made = account[e].made
      /\ [account[e] EXCEPT !.password = account[e].password + 1].by = account[e].by
  BY <1>1 DEF AccountRows
<1> QED
  BY <1>2, <1>3, <1>4 DEF TypeOK

\* Resetting a password keeps the types.
LEMMA ResetType ==
  ASSUME TypeOK, NEW r \in Reqs, resetTx(r)
  PROVE  TypeOK'
<1>1. req[r] \in Requests
  BY DEF resetTx, TypeOK
<1>2. req[r].email \in Emails
  BY <1>1 DEF Requests
<1>3. account' \in [Emails -> AccountRows]
  BY <1>2, PasswordType DEF resetTx
<1>4. \E n \in 0..MaxRows : code' \in [1..n -> CodeRows]
  BY CodeRowType DEF resetTx
<1>5. \E n \in 0..MaxRows : session' \in [1..n -> SessionRows]
  BY RevokeKeeps DEF resetTx, TypeOK
<1>6. UsesOf(RevokeAllUserSessions(req[r].email), req[r].email) \in SUBSET UnderWay
  BY DEF UsesOf
<1>7. req' \in [Reqs -> Requests \cup {Idle}]
  BY <1>6, AnsweredKeeps DEF resetTx
<1> QED
  BY <1>3, <1>4, <1>5, <1>7 DEF TypeOK, resetTx

\* A changed password reaches the session of the request; every other one of
\* the account is revoked.
LEMMA Changes ==
  ASSUME TypeOK, NEW r \in Reqs, changeTx(r)
  PROVE  LET e == req[r].email
             rest == Revoke(RevokeOtherUserSessions(e, req[r].session))
         IN
         /\ e \in Emails
         /\ account' \in [Emails -> AccountRows]
         /\ account'[e].password \in Nat /\ account'[e].made = account[e].made
         /\ \A f \in Emails \ {e} : account'[f] = account[f]
         /\ \E n \in 0..MaxRows : session \in [1..n -> SessionRows] /\ session' \in [1..n -> SessionRows]
         /\ \A s \in DOMAIN session \ {req[r].session} : session'[s] = rest[s]
         /\ req[r].session \in DOMAIN session =>
              session'[req[r].session] =
                [rest[req[r].session] EXCEPT !.password = account'[e].password]
<1> DEFINE q == req[r]
           e == q.email
           rest == Revoke(RevokeOtherUserSessions(e, q.session))
           w == account'[e].password
<1>1. q \in Requests
  BY DEF changeTx, TypeOK
<1>2. e \in Emails
  BY <1>1 DEF Requests
<1>3. account' = [account EXCEPT ![e].password = @ + 1]
      /\ session' = [rest EXCEPT ![q.session].password = w]
  BY DEF changeTx
<1>4. /\ account' \in [Emails -> AccountRows] /\ account'[e].made = account[e].made
      /\ \A f \in Emails \ {e} : account'[f] = account[f]
  BY <1>2, <1>3, PasswordType
<1>5. w \in Nat
  BY <1>2, <1>4 DEF AccountRows
<1>6. PICK n \in 0..MaxRows : session \in [1..n -> SessionRows]
  BY DEF TypeOK
<1>7. rest \in [1..n -> SessionRows]
  BY <1>6, RevokeKeeps
<1>8. session' = [rest EXCEPT ![q.session].password = w]
  BY <1>3
<1> HIDE DEF rest, w
<1>9. \A row \in SessionRows : [row EXCEPT !.password = w] \in SessionRows
  BY <1>5 DEF SessionRows
<1>10. /\ session' \in [1..n -> SessionRows]
       /\ \A s \in 1..n \ {q.session} : session'[s] = rest[s]
       /\ q.session \in 1..n => session'[q.session] = [rest[q.session] EXCEPT !.password = w]
  BY <1>7, <1>8, <1>9
<1> QED
  BY <1>2, <1>4, <1>5, <1>6, <1>10 DEF rest, w

\* A changed password ends sessions and writes the account.
LEMMA ChangeType ==
  ASSUME TypeOK, NEW r \in Reqs, changeTx(r)
  PROVE  TypeOK'
<1>1. account' \in [Emails -> AccountRows] /\ \E n \in 0..MaxRows : session' \in [1..n -> SessionRows]
  BY Changes
<1>2. UsesOf(RevokeOtherUserSessions(req[r].email, req[r].session), req[r].email) \in SUBSET UnderWay
  BY DEF UsesOf
<1>3. req' \in [Reqs -> Requests \cup {Idle}]
  BY <1>2, AnsweredKeeps DEF changeTx
<1> QED
  BY <1>1, <1>3 DEF TypeOK, changeTx

\* Logging out and running out keep the types.
LEMMA RevokedType ==
  ASSUME TypeOK, NEW s, Logout(s) \/ SessionExpires(s)
  PROVE  TypeOK'
<1>1. \E n \in 0..MaxRows : session' \in [1..n -> SessionRows]
  BY RevokeKeeps DEF TypeOK, Logout, SessionExpires
<1>2. req' \in [Reqs -> Requests \cup {Idle}]
  <2>1. ASSUME NEW p \in Reqs, req[p] # Idle
        PROVE  [req[p] EXCEPT !.late = TRUE] \in Requests
    BY <2>1 DEF TypeOK, Requests
  <2> QED
    BY <2>1 DEF TypeOK, Logout, SessionExpires
<1> QED
  BY <1>1, <1>2 DEF TypeOK, Logout, SessionExpires

\* Every step keeps the types, given that requests name what there is.
LEMMA TypeStep ==
  ASSUME TypeOK, RequestsFit, [Next]_vars
  PROVE  TypeOK'
<1>1. ASSUME NEW r \in Reqs, Write(r)
      PROVE  TypeOK'
  <2>1. CASE Dropped(r)
    BY <2>1 DEF Dropped, TypeOK
  <2> QED
    BY <1>1, <2>1, CodeWritesType, RegisterType, InviteWritesType, LoginType, RotateType,
       ResetType, ChangeType DEF Write
<1>2. ASSUME NEW c \in DOMAIN code, Ageing(c)
      PROVE  TypeOK'
  BY <1>2, CodeRowType DEF Ageing, TypeOK
<1>3. CASE UNCHANGED vars
  BY <1>3 DEF vars, TypeOK
<1> QED
  BY <1>1, <1>2, <1>3, JudgeType, InviteWritesType, RevokedType DEF Next
-----------------------------------------------------------------------------
(* Invite codes.                                                           *)

\* The accounts a code let in.
MadeWith(i) == {e \in Emails : account[e].made /\ account[e].by = i}

\* A registration that commits adds one to the count and one to them.
LEMMA RegisteredWith ==
  ASSUME TypeOK, RequestsFit, InvitesTruthful, NEW r \in Reqs, registerTx(r)
  PROVE  InvitesTruthful'
<1>1. req[r] \in Requests /\ r \in UnderWay
  BY DEF registerTx, TypeOK, UnderWay
<1>2. PICK e \in Emails, k \in Invites : e = req[r].email /\ k = req[r].invite
  BY <1>1 DEF Requests, RequestsFit, registerTx
<1>3. ~ account[e].made
      /\ account' = [account EXCEPT ![e] = [made |-> TRUE, by |-> k, password |-> 0]]
  BY <1>2 DEF registerTx
<1>4. \A i \in Invites : MadeWith(i)' = IF i = k THEN MadeWith(i) \cup {e} ELSE MadeWith(i)
  BY <1>2, <1>3 DEF MadeWith, TypeOK
<1>5. \A i \in Invites : IsFiniteSet(MadeWith(i)) /\ e \notin MadeWith(i)
  BY <1>3, FS_Subset DEF MadeWith
<1>6. Cardinality(MadeWith(k)') = Cardinality(MadeWith(k)) + 1
  BY <1>4, <1>5, FS_AddElement
<1>7. /\ invite'[k].used = invite[k].used + 1
      /\ \A i \in Invites \ {k} : invite'[i] = invite[i]
  <2>1. invite[k] \in InviteRows
    BY DEF TypeOK
  <2>2. invite' = [invite EXCEPT ![k] = [invite[k] EXCEPT !.used = invite[k].used + 1]]
    BY <1>2 DEF registerTx
  <2>3. [invite[k] EXCEPT !.used = invite[k].used + 1].used = invite[k].used + 1
    BY <2>1 DEF InviteRows
  <2> QED
    BY <2>2, <2>3 DEF TypeOK
<1>8. \A i \in Invites : invite[i].used = Cardinality(MadeWith(i))
  BY DEF InvitesTruthful, MadeWith
<1>9. ASSUME NEW i \in Invites
      PROVE  invite'[i].used = Cardinality(MadeWith(i)')
  <2>1. CASE i = k
    BY <1>6, <1>7, <1>8, <2>1
  <2>2. CASE i # k
    BY <1>4, <1>7, <1>8, <2>2
  <2> QED
    BY <2>1, <2>2
<1> QED
  BY <1>9 DEF InvitesTruthful, MadeWith

\* A step that leaves the codes' counts and whoever was made alone keeps the
\* counts true.
LEMMA CountsStand ==
  ASSUME TypeOK, InvitesTruthful,
         \A i \in Invites : invite'[i].used = invite[i].used,
         \A e \in Emails : account'[e].made = account[e].made /\ account'[e].by = account[e].by
  PROVE  InvitesTruthful'
<1>1. \A i \in Invites : MadeWith(i)' = MadeWith(i)
  BY DEF MadeWith
<1> QED
  BY <1>1 DEF InvitesTruthful, MadeWith

\* Every step keeps the counts of the codes true, and a code that is not made
\* at its defaults.
LEMMA InvitesStep ==
  ASSUME TypeOK, RequestsFit, NotYetMinted, InvitesTruthful, [Next]_vars
  PROVE  NotYetMinted' /\ InvitesTruthful'
<1>1. ASSUME NEW r \in Reqs, registerTx(r)
      PROVE  NotYetMinted'
  <2>1. PICK k \in Invites : k = req[r].invite
    BY <1>1 DEF registerTx, TypeOK, UnderWay, RequestsFit
  <2>2. invite[k].used < invite[k].max /\ invite[k] \in InviteRows
    BY <1>1, <2>1 DEF registerTx, RedeemInviteCode, TypeOK
  <2>3. invite[k].minted
    BY <2>2 DEF NotYetMinted, NotMinted
  <2>4. invite' = [invite EXCEPT ![k] = [invite[k] EXCEPT !.used = invite[k].used + 1]]
    BY <1>1, <2>1 DEF registerTx
  <2>5. [invite[k] EXCEPT !.used = invite[k].used + 1].minted
    BY <2>2, <2>3 DEF InviteRows
  <2> QED
    BY <2>4, <2>5 DEF NotYetMinted, TypeOK
<1>2. ASSUME NEW r \in Reqs, NEW i \in Invites, CreateUserInviteCode(r, i)
      PROVE  NotYetMinted' /\ InvitesTruthful'
  <2> DEFINE row == [minted |-> TRUE, owner |-> req[r].email, max |-> 1,
                     used |-> 0, expired |-> FALSE]
  <2>1. ~ invite[i].minted /\ invite' = [invite EXCEPT ![i] = row] /\ account' = account
    BY <1>2 DEF CreateUserInviteCode
  <2>2. invite[i].used = 0
    BY <2>1 DEF NotYetMinted, NotMinted
  <2>3. row.used = 0 /\ row.minted
    OBVIOUS
  <2> HIDE DEF row
  <2>4. NotYetMinted'
    BY <2>1, <2>3 DEF NotYetMinted, TypeOK
  <2>5. \A j \in Invites : invite'[j].used = invite[j].used
    BY <2>1, <2>2, <2>3 DEF TypeOK
  <2> QED
    BY <2>1, <2>4, <2>5, CountsStand
<1>3. ASSUME NEW i \in Invites, InviteExpires(i)
      PROVE  NotYetMinted' /\ InvitesTruthful'
  <2>1. invite[i] \in InviteRows
    BY DEF TypeOK
  <2>2. /\ [invite[i] EXCEPT !.expired = TRUE].used = invite[i].used
        /\ [invite[i] EXCEPT !.expired = TRUE].minted = invite[i].minted
    BY <2>1 DEF InviteRows
  <2>3. invite' = [invite EXCEPT ![i] = [invite[i] EXCEPT !.expired = TRUE]]
        /\ account' = account /\ invite[i].minted
    BY <1>3 DEF InviteExpires
  <2>4. NotYetMinted'
    BY <2>2, <2>3 DEF NotYetMinted, TypeOK
  <2>5. \A j \in Invites : invite'[j].used = invite[j].used
    BY <2>2, <2>3 DEF TypeOK
  <2> QED
    BY <2>3, <2>4, <2>5, CountsStand
<1>4. ASSUME NEW r \in Reqs, resetTx(r) \/ changeTx(r)
      PROVE  NotYetMinted' /\ InvitesTruthful'
  <2>1. req[r] \in Requests
    BY <1>4 DEF resetTx, changeTx, TypeOK
  <2>2. req[r].email \in Emails
    BY <2>1 DEF Requests
  <2>3. invite' = invite /\ account' = [account EXCEPT ![req[r].email].password = @ + 1]
    BY <1>4 DEF resetTx, changeTx
  <2>4. \A e \in Emails : account'[e].made = account[e].made /\ account'[e].by = account[e].by
    BY <2>2, <2>3, PasswordType
  <2> QED
    BY <2>3, <2>4, CountsStand DEF NotYetMinted
<1>5. CASE UNCHANGED <<account, invite>>
  BY <1>5, CountsStand DEF NotYetMinted
<1>6. ASSUME NEW r \in Reqs, Judge(r)
      PROVE  UNCHANGED <<account, invite>>
  BY <1>6 DEF Judge, SendEmailCode, WrongCode, Login, RegisterAccount, CreateInviteCode,
     RefreshToken, ChangePassword, ResetPassword, Judged
<1>7. ASSUME NEW r \in Reqs, Write(r)
      PROVE  NotYetMinted' /\ InvitesTruthful'
  BY <1>1, <1>2, <1>4, <1>5, <1>7, RegisteredWith DEF Write, issueVerification,
     IncrementVerificationAttempts, issueSession, RotateUserSession, Dropped
<1>8. CASE UNCHANGED vars
  BY <1>5, <1>8 DEF vars
<1> QED
  BY <1>3, <1>5, <1>6, <1>7, <1>8 DEF Next, Logout, SessionExpires, Ageing
-----------------------------------------------------------------------------
(* Requests and sessions fit.                                              *)

\* What every step does to requests: one that is under way afterwards was
\* before, unless it was judged in this step; it keeps everything but that it
\* may have become late.
Same(p) ==
  /\ req[p] # Idle
  /\ req'[p].kind = req[p].kind /\ req'[p].email = req[p].email
  /\ req'[p].invite = req[p].invite /\ req'[p].session = req[p].session
  /\ req'[p].password = req[p].password
  /\ req[p].late => req'[p].late

\* Answering leaves the others the same.
LEMMA AnsweredSame ==
  ASSUME TypeOK, NEW r \in Reqs, NEW outrun \in SUBSET UnderWay, Answered(r, outrun),
         NEW p \in UnderWay'
  PROVE  Same(p) /\ p # r /\ (p \in outrun => req'[p].late)
<1>1. p \in Reqs /\ req'[p] # Idle /\ p # r
  BY DEF UnderWay, Answered
<1>2. req[p] # Idle
  BY <1>1 DEF Answered, UnderWay
<1>3. req[p] \in Requests
  BY <1>1, <1>2 DEF TypeOK
<1>4. req'[p] = IF p \in outrun THEN [req[p] EXCEPT !.late = TRUE] ELSE req[p]
  BY <1>1 DEF Answered
<1>5. CASE p \in outrun
  BY <1>1, <1>2, <1>3, <1>4, <1>5 DEF Same, Requests
<1>6. CASE p \notin outrun
  BY <1>1, <1>2, <1>4, <1>6 DEF Same
<1> QED
  BY <1>5, <1>6
\* A request judged in this step: nothing else is written, and it fits what
\* there is.
Fresh(p) ==
  /\ UNCHANGED <<account, invite, session>>
  /\ req'[p].kind = "register" => req'[p].invite \in Invites
  /\ req'[p].kind \in {"refresh", "change"} =>
       /\ req'[p].session \in DOMAIN session
       /\ session[req'[p].session].email = req'[p].email
       /\ session[req'[p].session].live
  /\ req'[p].kind = "login" =>
       /\ account[req'[p].email].made
       /\ req'[p].password = account[req'[p].email].password

\* Judging leaves the other requests alone, and its own fits.
LEMMA JudgedFresh ==
  ASSUME TypeOK, NEW r \in Reqs, Judge(r), NEW p \in UnderWay'
  PROVE  Same(p) \/ Fresh(p)
<1>1. CASE p # r
  <2>1. req'[p] = req[p] /\ req[p] # Idle
    BY <1>1 DEF Judge, SendEmailCode, WrongCode, Login, RegisterAccount, CreateInviteCode,
       RefreshToken, ChangePassword, ResetPassword, Judged, UnderWay, TypeOK
  <2> QED
    BY <2>1 DEF Same
<1>2. CASE p = r
  <2>0. ASSUME NEW q, Judged(r, q)
        PROVE  req'[p] = q /\ UNCHANGED <<account, invite, session>>
    BY <1>2, <2>0 DEF Judged, TypeOK
  <2>1. ASSUME NEW e \in Emails, NEW u \in Purposes, SendEmailCode(r, e, u)
        PROVE  Fresh(p)
    <3>1. PICK b : Judged(r, [Blank("send", e) EXCEPT !.purpose = u, !.deliver = b])
      BY <2>1 DEF SendEmailCode
    <3>2. /\ req'[p] = [Blank("send", e) EXCEPT !.purpose = u, !.deliver = b]
          /\ UNCHANGED <<account, invite, session>>
      BY <2>0, <3>1
    <3>3. [Blank("send", e) EXCEPT !.purpose = u, !.deliver = b].kind = "send"
      BY DEF Blank
    <3> QED
      BY <3>2, <3>3 DEF Fresh
  <2>2. ASSUME NEW e \in Emails, WrongCode(r, e)
        PROVE  Fresh(p)
    <3>1. PICK c : Judged(r, [Blank("guess", e) EXCEPT !.code = c])
      BY <2>2 DEF WrongCode
    <3>2. req'[p].kind = "guess" /\ UNCHANGED <<account, invite, session>>
      BY <2>0, <3>1 DEF Blank
    <3> QED
      BY <3>2 DEF Fresh
  <2>3. ASSUME NEW e \in Emails, Login(r, e)
        PROVE  Fresh(p)
    <3>1. PICK w : Judged(r, [Blank("login", e) EXCEPT !.password = w])
                   /\ account[e].made /\ w = account[e].password
      BY <2>3 DEF Login
    <3>2. /\ req'[p] = [Blank("login", e) EXCEPT !.password = w]
          /\ UNCHANGED <<account, invite, session>>
      BY <2>0, <3>1
    <3>3. /\ [Blank("login", e) EXCEPT !.password = w].kind = "login"
          /\ [Blank("login", e) EXCEPT !.password = w].email = e
          /\ [Blank("login", e) EXCEPT !.password = w].password = w
      BY DEF Blank
    <3> QED
      BY <3>1, <3>2, <3>3 DEF Fresh
  <2>4. ASSUME NEW e \in Emails, NEW i \in Invites, RegisterAccount(r, e, i)
        PROVE  Fresh(p)
    <3>1. PICK c : Judged(r, [Blank("register", e) EXCEPT !.invite = i, !.code = c])
      BY <2>4 DEF RegisterAccount
    <3>2. /\ req'[p] = [Blank("register", e) EXCEPT !.invite = i, !.code = c]
          /\ UNCHANGED <<account, invite, session>>
      BY <2>0, <3>1
    <3>3. /\ [Blank("register", e) EXCEPT !.invite = i, !.code = c].kind = "register"
          /\ [Blank("register", e) EXCEPT !.invite = i, !.code = c].invite = i
      BY DEF Blank
    <3> QED
      BY <3>2, <3>3 DEF Fresh
  <2>5. ASSUME NEW s \in DOMAIN session, CreateInviteCode(r, s)
        PROVE  Fresh(p)
    <3>1. req'[p].kind = "mint" /\ UNCHANGED <<account, invite, session>>
      BY <2>0, <2>5 DEF CreateInviteCode, Blank
    <3> QED
      BY <3>1 DEF Fresh
  <2>6. ASSUME NEW s \in DOMAIN session, RefreshToken(r, s) \/ ChangePassword(r, s)
        PROVE  Fresh(p)
    <3>1. PICK kind \in {"refresh", "change"} :
            Judged(r, [Blank(kind, session[s].email) EXCEPT !.session = s]) /\ session[s].live
      BY <2>6 DEF RefreshToken, ChangePassword, LoggedIn
    <3>2. /\ req'[p].kind = kind /\ req'[p].email = session[s].email /\ req'[p].session = s
          /\ UNCHANGED <<account, invite, session>>
      BY <2>0, <3>1 DEF Blank
    <3> QED
      BY <3>1, <3>2 DEF Fresh
  <2>7. ASSUME NEW c \in DOMAIN code, ResetPassword(r, c)
        PROVE  Fresh(p)
    <3>1. Judged(r, [Blank("reset", code[c].email) EXCEPT !.code = c])
      BY <2>7 DEF ResetPassword
    <3>2. req'[p].kind = "reset" /\ UNCHANGED <<account, invite, session>>
      BY <2>0, <3>1 DEF Blank
    <3> QED
      BY <3>2 DEF Fresh
  <2> QED
    BY <2>1, <2>2, <2>3, <2>4, <2>5, <2>6, <2>7 DEF Judge
<1> QED
  BY <1>1, <1>2

\* A request that is under way after a step was before, or fits what there is.
LEMMA SameOrFresh ==
  ASSUME TypeOK, [Next]_vars, NEW p \in UnderWay'
  PROVE  Same(p) \/ Fresh(p)
<1>1. ASSUME UNCHANGED req
      PROVE  Same(p)
  BY <1>1 DEF Same, UnderWay
<1>2. ASSUME NEW r \in Reqs, NEW outrun \in SUBSET UnderWay, Answered(r, outrun)
      PROVE  Same(p)
  BY <1>2, AnsweredSame
<1>3. ASSUME NEW r \in Reqs, Write(r)
      PROVE  Same(p)
  <2>1. CASE Dropped(r)
    BY <2>1 DEF Dropped, TypeOK, Same, UnderWay
  <2>2. \A gone, e : UsesOf(gone, e) \in SUBSET UnderWay
    BY DEF UsesOf
  <2>3. {} \in SUBSET UnderWay /\ \A s : {q \in UnderWay : req[q].session = s} \in SUBSET UnderWay
    OBVIOUS
  <2>4. CASE RotateUserSession(r)
    BY <1>2, <2>3, <2>4 DEF RotateUserSession
  <2>5. CASE resetTx(r) \/ changeTx(r)
    BY <1>2, <2>2, <2>5 DEF resetTx, changeTx
  <2> QED
    BY <1>2, <1>3, <2>1, <2>3, <2>4, <2>5 DEF Write, issueVerification, IncrementVerificationAttempts,
       registerTx, CreateUserInviteCode, issueSession
<1>4. ASSUME NEW s, Logout(s)
      PROVE  Same(p)
  <2>1. p \in Reqs /\ req'[p] # Idle
        /\ req'[p] = IF req[p] # Idle /\ req[p].session = s THEN [req[p] EXCEPT !.late = TRUE] ELSE req[p]
    BY <1>4 DEF Logout, UnderWay
  <2>2. req[p] # Idle
    BY <2>1
  <2>3. req[p] \in Requests
    BY <2>1, <2>2 DEF TypeOK
  <2> QED
    BY <2>1, <2>2, <2>3 DEF Same, Requests
<1> QED
  BY <1>1, <1>3, <1>4, JudgedFresh DEF Next, SessionExpires, Ageing, InviteExpires, vars

\* What every step does to the sessions there are.
Carried ==
  \A s \in DOMAIN session :
    /\ s \in DOMAIN session'
    /\ session'[s].email = session[s].email /\ session'[s].root = session[s].root
    /\ session'[s].raced = session[s].raced
    /\ session'[s].live => session[s].live

\* A new login: a row behind the others, the root of its own chain.
Begins(e, w, raced) ==
  \E n \in Nat :
    /\ DOMAIN session = 1..n /\ DOMAIN session' = 1..(n + 1)
    /\ \A s \in 1..n : session'[s] = session[s]
    /\ session'[n + 1].email = e /\ session'[n + 1].password = w
    /\ session'[n + 1].root = n + 1 /\ session'[n + 1].raced = raced

\* A login writes one session, of the password it was checked against.
LEMMA NewLoginBegins ==
  ASSUME TypeOK, RoomForARow, NEW e \in Emails, NEW w \in Nat, NEW raced \in BOOLEAN,
         session' = Insert(session, NewSession(e, w, raced))
  PROVE  Begins(e, w, raced)
<1> DEFINE row == NewSession(e, w, raced)
<1>1. PICK n \in 0..(MaxRows - 1) :
           /\ DOMAIN session = 1..n /\ Written(session) = n
           /\ row \in SessionRows
           /\ Insert(session, row) \in [1..(n + 1) -> SessionRows]
           /\ Insert(session, row)[n + 1] = row
           /\ \A s \in 1..n : Insert(session, row)[s] = session[s]
  BY SessionInserted, Zenon
<1>2. row.email = e /\ row.password = w /\ row.root = n + 1 /\ row.raced = raced
  BY <1>1 DEF NewSession
<1>3. session' = Insert(session, row)
  OBVIOUS
<1> HIDE DEF row
<1>4. n \in Nat /\ DOMAIN session' = 1..(n + 1)
  BY <1>1, <1>3
<1>5. /\ session'[n + 1].email = e /\ session'[n + 1].password = w
      /\ session'[n + 1].root = n + 1 /\ session'[n + 1].raced = raced
      /\ \A s \in 1..n : session'[s] = session[s]
  BY <1>1, <1>2, <1>3
<1> QED
  BY <1>1, <1>4, <1>5 DEF Begins

\* A registration begins a chain, if there is room, and makes the account.
LEMMA RegisterBegins ==
  ASSUME TypeOK, RequestsFit, NEW r \in Reqs, registerTx(r)
  PROVE  /\ req[r].email \in Emails
         /\ ~ account[req[r].email].made
         /\ account'[req[r].email].made /\ account'[req[r].email].password = 0
         /\ \A f \in Emails \ {req[r].email} : account'[f] = account[f]
         /\ session' = session \/ Begins(req[r].email, 0, FALSE)
<1>1. req[r].email \in Emails
  BY DEF registerTx, TypeOK, Requests
<1>2. account' = [account EXCEPT ![req[r].email] = [made |-> TRUE, by |-> req[r].invite, password |-> 0]]
  BY DEF registerTx
<1>3. session' = session \/ (RoomForARow /\ session' = Insert(session, NewSession(req[r].email, 0, FALSE)))
  BY DEF registerTx, NewSession
<1>4. session' = session \/ Begins(req[r].email, 0, FALSE)
  BY <1>1, <1>3, NewLoginBegins
<1>5. ~ account[req[r].email].made
  BY DEF registerTx
<1> QED
  BY <1>1, <1>2, <1>4, <1>5 DEF TypeOK

\* A login begins one.
LEMMA LoginBegins ==
  ASSUME TypeOK, NEW r \in Reqs, issueSession(r)
  PROVE  Begins(req[r].email, req[r].password, req[r].late)
<1>1. req[r] \in Requests
  BY DEF issueSession, TypeOK
<1>2. req[r].email \in Emails /\ req[r].password \in Nat /\ req[r].late \in BOOLEAN
  BY <1>1 DEF Requests
<1>3. RoomForARow /\ session' = Insert(session, NewSession(req[r].email, req[r].password, req[r].late))
  BY DEF issueSession, NewSession
<1> QED
  BY <1>2, <1>3, NewLoginBegins
\* A refresh puts a row behind the others.
Renews(r) ==
  \E n \in Nat :
    /\ req[r].session \in 1..n
    /\ DOMAIN session = 1..n /\ DOMAIN session' = 1..(n + 1)
    /\ ~ session'[req[r].session].live
    /\ session'[n + 1].email = session[req[r].session].email
    /\ session'[n + 1].password = session[req[r].session].password
    /\ session'[n + 1].root = session[req[r].session].root
    /\ session'[n + 1].raced = (session[req[r].session].raced \/ req[r].late)
    /\ \A s \in 1..n : session'[s].password = session[s].password

\* A refresh writes one session in the place of another (RotateUserSession).
LEMMA RefreshRenews ==
  ASSUME TypeOK, RequestsFit, NEW r \in Reqs, RotateUserSession(r)
  PROVE  Renews(r) /\ Carried
<1> DEFINE old == session[req[r].session]
           raced == old.raced \/ req[r].late
<1>1. PICK n \in 0..(MaxRows - 1) :
           /\ req[r].session \in 1..n
           /\ DOMAIN session = 1..n
           /\ session' \in [1..(n + 1) -> SessionRows]
           /\ session'[n + 1] = [old EXCEPT !.live = TRUE, !.raced = raced]
           /\ \A s \in 1..n : session'[s] = Revoke({req[r].session})[s]
  BY Rotates
<1>2. old \in SessionRows
  BY <1>1 DEF TypeOK
<1>3. raced \in BOOLEAN
  <2>1. old.raced \in BOOLEAN
    BY <1>2 DEF SessionRows
  <2>2. req[r].late \in BOOLEAN
    BY DEF RotateUserSession, TypeOK, Requests
  <2> QED
    BY <2>1, <2>2
<1>4. \A b \in BOOLEAN :
        LET row == [old EXCEPT !.live = TRUE, !.raced = b]
        IN  /\ row.email = old.email /\ row.password = old.password
            /\ row.root = old.root /\ row.raced = b
  BY <1>2 DEF SessionRows
<1>5. LET row == [old EXCEPT !.live = TRUE, !.raced = raced]
      IN  /\ row.email = old.email /\ row.password = old.password
          /\ row.root = old.root /\ row.raced = raced
  BY <1>3, <1>4, Zenon
<1>6. /\ n \in Nat /\ DOMAIN session' = 1..(n + 1)
      /\ \A s \in 1..n : s \in 1..(n + 1)
  BY <1>1
<1>7. \A s \in 1..n :
        /\ session'[s].email = session[s].email /\ session'[s].root = session[s].root
        /\ session'[s].raced = session[s].raced /\ session'[s].password = session[s].password
        /\ session'[s].live = (session[s].live /\ s \notin {req[r].session})
  <2> TAKE s \in 1..n
  <2>1. session'[s] = Revoke({req[r].session})[s] /\ s \in DOMAIN session
    BY <1>1
  <2>2. LET row == Revoke({req[r].session})[s]
        IN  /\ row.email = session[s].email /\ row.root = session[s].root
            /\ row.raced = session[s].raced /\ row.password = session[s].password
            /\ row.live = (session[s].live /\ s \notin {req[r].session})
    BY <2>1, RevokeKeeps
  <2> QED
    BY <2>1, <2>2, Zenon
<1>8. Carried
  BY <1>1, <1>6, <1>7 DEF Carried
<1>9. ~ session'[req[r].session].live
  BY <1>1, <1>7
<1>10. /\ session'[n + 1].email = old.email /\ session'[n + 1].password = old.password
       /\ session'[n + 1].root = old.root /\ session'[n + 1].raced = raced
  BY <1>1, <1>5, Zenon
<1>11. Renews(r)
  BY <1>1, <1>6, <1>7, <1>9, <1>10, Zenon DEF Renews
<1> QED
  BY <1>8, <1>11

\* Beginning a chain leaves the others alone.
LEMMA BeginsCarried ==
  ASSUME NEW e, NEW w, NEW raced, Begins(e, w, raced)
  PROVE  Carried
BY DEF Begins, Carried

\* Revoking carries the rows.
LEMMA RevokeCarried ==
  ASSUME TypeOK, NEW ss, session' = Revoke(ss)
  PROVE  Carried
<1>1. DOMAIN session' = DOMAIN session
  BY RevokeKeeps
<1>2. \A s \in DOMAIN session :
        /\ session'[s].email = session[s].email /\ session'[s].root = session[s].root
        /\ session'[s].raced = session[s].raced
        /\ session'[s].live = (session[s].live /\ s \notin ss)
  BY RevokeKeeps
<1> QED
  BY <1>1, <1>2 DEF Carried

\* So does changing a password.
LEMMA ChangeCarried ==
  ASSUME TypeOK, NEW r \in Reqs, changeTx(r)
  PROVE  Carried
<1> DEFINE k == req[r].session
           w == account'[req[r].email].password
           rest == Revoke(RevokeOtherUserSessions(req[r].email, k))
<1>1. PICK n \in 0..MaxRows : session \in [1..n -> SessionRows] /\ session' \in [1..n -> SessionRows]
  BY Changes
<1>2. /\ \A s \in DOMAIN session \ {k} : session'[s] = rest[s]
      /\ k \in DOMAIN session => session'[k] = [rest[k] EXCEPT !.password = w]
  BY Changes
<1>3. \A s \in DOMAIN session :
        /\ rest[s].email = session[s].email /\ rest[s].root = session[s].root
        /\ rest[s].raced = session[s].raced /\ (rest[s].live => session[s].live)
  <2>1. PICK ss : ss = RevokeOtherUserSessions(req[r].email, k)
    OBVIOUS
  <2>2. rest = Revoke(ss)
    BY <2>1
  <2> HIDE DEF rest
  <2>3. ASSUME NEW s \in DOMAIN session
        PROVE  /\ Revoke(ss)[s].email = session[s].email /\ Revoke(ss)[s].root = session[s].root
               /\ Revoke(ss)[s].raced = session[s].raced
               /\ Revoke(ss)[s].live = (session[s].live /\ s \notin ss)
    BY RevokeKeeps
  <2> QED
    BY <2>2, <2>3
<1>4. rest \in [1..n -> SessionRows]
  BY <1>1, RevokeKeeps
<1>5. \A row \in SessionRows : \A v :
        LET new == [row EXCEPT !.password = v]
        IN  /\ new.email = row.email /\ new.root = row.root
            /\ new.raced = row.raced /\ new.live = row.live
  BY DEF SessionRows
<1> HIDE DEF rest, w
<1>6. ASSUME NEW s \in DOMAIN session
      PROVE  /\ session'[s].email = rest[s].email /\ session'[s].root = rest[s].root
             /\ session'[s].raced = rest[s].raced /\ session'[s].live = rest[s].live
  <2>1. rest[s] \in SessionRows
    BY <1>1, <1>4
  <2>2. CASE s = k
    <3>1. session'[s] = [rest[s] EXCEPT !.password = w]
      BY <1>2, <2>2
    <3> QED
      BY <1>5, <2>1, <3>1
  <2>3. CASE s # k
    BY <1>2, <2>3
  <2> QED
    BY <2>2, <2>3
<1>7. DOMAIN session' = DOMAIN session
  BY <1>1
<1> QED
  BY <1>3, <1>6, <1>7 DEF Carried

\* The steps that write accounts or sessions; every other leaves both alone.
LEMMA StepCases ==
  ASSUME [Next]_vars
  PROVE  \/ UNCHANGED <<account, session>>
         \/ \E r \in Reqs :
              \/ registerTx(r) \/ issueSession(r) \/ RotateUserSession(r)
              \/ resetTx(r) \/ changeTx(r)
         \/ \E s \in DOMAIN session : Logout(s) \/ SessionExpires(s)
<1>1. ASSUME NEW r \in Reqs, Judge(r)
      PROVE  UNCHANGED <<account, session>>
  BY <1>1 DEF Judge, SendEmailCode, WrongCode, Login, RegisterAccount, CreateInviteCode,
     RefreshToken, ChangePassword, ResetPassword, Judged
<1>2. ASSUME NEW r \in Reqs, Write(r)
      PROVE  \/ UNCHANGED <<account, session>>
             \/ registerTx(r) \/ issueSession(r) \/ RotateUserSession(r)
             \/ resetTx(r) \/ changeTx(r)
  BY <1>2 DEF Write, issueVerification, IncrementVerificationAttempts, CreateUserInviteCode, Dropped
<1> QED
  BY <1>1, <1>2 DEF Next, Ageing, InviteExpires, vars

\* Accounts stay, and so do the rows of sessions.
LEMMA AllCarried ==
  ASSUME TypeOK, RequestsFit, [Next]_vars
  PROVE  Carried /\ \A e \in Emails : account[e].made => account'[e].made
<1>1. CASE UNCHANGED <<account, session>>
  BY <1>1 DEF Carried
<1>2. ASSUME NEW r \in Reqs, registerTx(r)
      PROVE  Carried /\ \A e \in Emails : account[e].made => account'[e].made
  <2>1. Carried
    <3>1. CASE session' = session
      BY <3>1 DEF Carried
    <3> QED
      BY <1>2, <3>1, RegisterBegins, BeginsCarried
  <2>2. \A e \in Emails : account[e].made => account'[e].made
    BY <1>2, RegisterBegins
  <2> QED
    BY <2>1, <2>2
<1>3. ASSUME NEW r \in Reqs, issueSession(r)
      PROVE  Carried /\ account' = account
  BY <1>3, LoginBegins, BeginsCarried DEF issueSession
<1>4. ASSUME NEW r \in Reqs, RotateUserSession(r)
      PROVE  Carried /\ account' = account
  BY <1>4, RefreshRenews DEF RotateUserSession
<1>5. ASSUME NEW r \in Reqs, resetTx(r)
      PROVE  Carried /\ \A e \in Emails : account[e].made => account'[e].made
  <2>1. req[r].email \in Emails
    BY <1>5 DEF resetTx, TypeOK, Requests
  <2>2. account' = [account EXCEPT ![req[r].email].password = @ + 1]
        /\ session' = Revoke(RevokeAllUserSessions(req[r].email))
    BY <1>5 DEF resetTx
  <2>3. Carried
    BY <2>2, RevokeCarried
  <2>4. \A e \in Emails : account[e].made => account'[e].made
    BY <2>1, <2>2, PasswordType
  <2> QED
    BY <2>3, <2>4
<1>6. ASSUME NEW r \in Reqs, changeTx(r)
      PROVE  Carried /\ \A e \in Emails : account[e].made => account'[e].made
  <2>1. /\ account'[req[r].email].made = account[req[r].email].made
        /\ \A f \in Emails \ {req[r].email} : account'[f] = account[f]
    BY <1>6, Changes
  <2> QED
    BY <1>6, <2>1, ChangeCarried
<1>7. ASSUME NEW s, Logout(s) \/ SessionExpires(s)
      PROVE  Carried /\ account' = account
  BY <1>7, RevokeCarried DEF Logout, SessionExpires
<1> QED
  BY <1>1, <1>2, <1>3, <1>4, <1>5, <1>6, <1>7, StepCases

\* Every step keeps requests fitting.
LEMMA FitStep ==
  ASSUME TypeOK, RequestsFit, [Next]_vars
  PROVE  RequestsFit'
<1> SUFFICES ASSUME NEW p \in UnderWay'
             PROVE  /\ req'[p].kind = "register" => req'[p].invite \in Invites
                    /\ req'[p].kind \in {"refresh", "change"} =>
                         /\ req'[p].session \in DOMAIN session'
                         /\ session'[req'[p].session].email = req'[p].email
                    /\ req'[p].kind = "login" => account'[req'[p].email].made
  BY DEF RequestsFit
<1>1. CASE Same(p)
  <2>1. p \in UnderWay /\ req[p] \in Requests
    BY <1>1 DEF Same, UnderWay, TypeOK
  <2>2. req[p].email \in Emails
    BY <2>1 DEF Requests
  <2>3. /\ req[p].kind = "register" => req[p].invite \in Invites
        /\ req[p].kind \in {"refresh", "change"} =>
             req[p].session \in DOMAIN session /\ session[req[p].session].email = req[p].email
        /\ req[p].kind = "login" => account[req[p].email].made
    BY <2>1 DEF RequestsFit
  <2> QED
    BY <1>1, <2>2, <2>3, AllCarried DEF Same, Carried
<1>2. CASE Fresh(p)
  BY <1>2 DEF Fresh
<1> QED
  BY <1>1, <1>2, SameOrFresh

\* The rows a step adds to the sessions: of a registration, a login or a
\* refresh.
LEMMA NewRows ==
  ASSUME TypeOK, RequestsFit, [Next]_vars, NEW s \in DOMAIN session', s \notin DOMAIN session
  PROVE  \E r \in Reqs :
           \/ registerTx(r) /\ Begins(req[r].email, 0, FALSE)
           \/ issueSession(r) /\ Begins(req[r].email, req[r].password, req[r].late)
           \/ RotateUserSession(r) /\ Renews(r)
<1>1. \A ss : DOMAIN Revoke(ss) = DOMAIN session
  BY DEF Revoke
<1>2. ASSUME NEW r \in Reqs, changeTx(r)
      PROVE  DOMAIN session' = DOMAIN session
  BY <1>1, <1>2 DEF changeTx
<1>3. ~ UNCHANGED session
  OBVIOUS
<1>4. ASSUME NEW r \in Reqs, resetTx(r)
      PROVE  FALSE
  BY <1>1, <1>4 DEF resetTx
<1>5. ASSUME NEW t, Logout(t) \/ SessionExpires(t)
      PROVE  FALSE
  BY <1>1, <1>5 DEF Logout, SessionExpires
<1>6. ASSUME NEW r \in Reqs, registerTx(r)
      PROVE  Begins(req[r].email, 0, FALSE)
  BY <1>3, <1>6, RegisterBegins
<1> QED
  BY <1>2, <1>3, <1>4, <1>5, <1>6, StepCases, LoginBegins, RefreshRenews

\* Every step keeps sessions somebody's and their logins' rows there.
LEMMA SessionsFitStep ==
  ASSUME TypeOK, RequestsFit, SessionsFit, [Next]_vars
  PROVE  SessionsFit'
<1> SUFFICES ASSUME NEW s \in DOMAIN session'
             PROVE  account'[session'[s].email].made /\ session'[s].root \in DOMAIN session'
  BY DEF SessionsFit
<1>0. \A t \in DOMAIN session : session[t].email \in Emails
  BY DEF TypeOK, SessionRows
<1>00. Carried /\ \A e \in Emails : account[e].made => account'[e].made
  BY AllCarried
<1>1. CASE s \in DOMAIN session
  BY <1>0, <1>00, <1>1 DEF SessionsFit, Carried
<1>2. CASE s \notin DOMAIN session
  <2>1. PICK r \in Reqs :
          \/ registerTx(r) /\ Begins(req[r].email, 0, FALSE)
          \/ issueSession(r) /\ Begins(req[r].email, req[r].password, req[r].late)
          \/ RotateUserSession(r) /\ Renews(r)
    BY <1>2, NewRows
  <2>2. ASSUME NEW e, NEW w, NEW raced, Begins(e, w, raced)
        PROVE  session'[s].email = e /\ session'[s].root = s
    BY <1>2, <2>2 DEF Begins
  <2>3. CASE registerTx(r) /\ Begins(req[r].email, 0, FALSE)
    <3>1. session'[s].email = req[r].email /\ session'[s].root = s
      BY <2>2, <2>3
    <3>2. account'[req[r].email].made
      BY <2>3, RegisterBegins
    <3> QED
      BY <3>1, <3>2
  <2>4. CASE issueSession(r) /\ Begins(req[r].email, req[r].password, req[r].late)
    <3>1. session'[s].email = req[r].email /\ session'[s].root = s
      BY <2>2, <2>4
    <3>2. account'[req[r].email].made
      BY <2>4 DEF issueSession, RequestsFit, UnderWay
    <3> QED
      BY <3>1, <3>2
  <2>5. CASE RotateUserSession(r) /\ Renews(r)
    <3>1. /\ req[r].session \in DOMAIN session
          /\ session'[s].email = session[req[r].session].email
          /\ session'[s].root = session[req[r].session].root
      BY <1>2, <2>5 DEF Renews
    <3> QED
      BY <1>0, <1>00, <3>1 DEF SessionsFit, Carried
  <2> QED
    BY <2>1, <2>3, <2>4, <2>5
<1> QED
  BY <1>1, <1>2
-----------------------------------------------------------------------------
(* Passwords and chains.                                                   *)

\* A session there was counts only if it did before.
LEMMA CountsWas ==
  ASSUME TypeOK, RequestsFit, [Next]_vars, NEW s \in DOMAIN session, Counts(s)'
  PROVE  Counts(s)
<1>1. s \in DOMAIN session' /\ session'[s].raced = session[s].raced
      /\ (session'[s].live => session[s].live)
  BY AllCarried DEF Carried
<1>2. CASE session'[s].live
  BY <1>1, <1>2 DEF Counts
<1>3. CASE ~ session'[s].live
  <2>1. PICK p \in UnderWay' :
          req'[p].kind = "refresh" /\ req'[p].session = s /\ ~ req'[p].late
    BY <1>3 DEF Counts
  <2>2. CASE Same(p)
    <3>1. p \in UnderWay /\ req[p].kind = "refresh" /\ req[p].session = s /\ ~ req[p].late
      BY <2>1, <2>2 DEF Same, UnderWay
    <3> QED
      BY <1>1, <3>1 DEF Counts
  <2>3. CASE Fresh(p)
    BY <1>1, <2>1, <2>3 DEF Fresh, Counts
  <2> QED
    BY <2>2, <2>3, SameOrFresh
<1> QED
  BY <1>2, <1>3

\* A session that is gone does not count if every refresh of it is late.
LEMMA GoneNotCounting ==
  ASSUME TypeOK, NEW r \in Reqs, NEW outrun \in SUBSET UnderWay, Answered(r, outrun),
         NEW s, ~ session'[s].live, {p \in UnderWay : req[p].session = s} \subseteq outrun
  PROVE  ~ Counts(s)'
<1> SUFFICES ASSUME NEW p \in UnderWay', req'[p].session = s, ~ req'[p].late
             PROVE  FALSE
  BY DEF Counts
<1>1. Same(p) /\ (p \in outrun => req'[p].late)
  BY AnsweredSame
<1>2. p \in UnderWay /\ req[p].session = s
  BY <1>1 DEF Same, UnderWay
<1> QED
  BY <1>1, <1>2

\* The password of an account there is moves only in a transaction that sets
\* it, which makes the logins of its address late.
LEMMA PasswordMoves ==
  ASSUME TypeOK, RequestsFit, [Next]_vars, NEW e \in Emails, account[e].made,
         account'[e].password # account[e].password
  PROVE  \E r \in Reqs : (resetTx(r) \/ changeTx(r)) /\ req[r].email = e
<1>1. ASSUME NEW r \in Reqs, registerTx(r)
      PROVE  FALSE
  BY <1>1, RegisterBegins
<1>2. ASSUME NEW r \in Reqs, issueSession(r) \/ RotateUserSession(r)
      PROVE  FALSE
  BY <1>2 DEF issueSession, RotateUserSession
<1>3. ASSUME NEW r \in Reqs, resetTx(r) \/ changeTx(r)
      PROVE  req[r].email = e
  <2>1. req[r] \in Requests
    BY <1>3 DEF resetTx, changeTx, TypeOK
  <2>2. req[r].email \in Emails
    BY <2>1 DEF Requests
  <2>3. account' = [account EXCEPT ![req[r].email].password = @ + 1]
    BY <1>3 DEF resetTx, changeTx
  <2> QED
    BY <2>2, <2>3, PasswordType
<1> QED
  BY <1>1, <1>2, <1>3, StepCases DEF Logout, SessionExpires

\* What a password set answers, and with whom late.
LEMMA PasswordSet ==
  ASSUME NEW r \in Reqs, resetTx(r) \/ changeTx(r)
  PROVE  \E gone \in SUBSET DOMAIN session :
           /\ UsesOf(gone, req[r].email) \in SUBSET UnderWay
           /\ Answered(r, UsesOf(gone, req[r].email))
           /\ \A s \in DOMAIN session :
                session[s].email = req[r].email /\ (resetTx(r) \/ s # req[r].session) => s \in gone
           /\ resetTx(r) => session' = Revoke(gone)
           /\ changeTx(r) => gone = RevokeOtherUserSessions(req[r].email, req[r].session)
<1>1. CASE resetTx(r)
  <2>1. /\ Answered(r, UsesOf(RevokeAllUserSessions(req[r].email), req[r].email))
        /\ session' = Revoke(RevokeAllUserSessions(req[r].email))
    BY <1>1 DEF resetTx
  <2>2. ~ changeTx(r)
    BY <1>1 DEF resetTx, changeTx
  <2>3. /\ RevokeAllUserSessions(req[r].email) \in SUBSET DOMAIN session
        /\ \A s \in DOMAIN session :
             session[s].email = req[r].email => s \in RevokeAllUserSessions(req[r].email)
    BY DEF RevokeAllUserSessions, SessionsOf
  <2>4. UsesOf(RevokeAllUserSessions(req[r].email), req[r].email) \in SUBSET UnderWay
    BY DEF UsesOf
  <2> QED
    BY <2>1, <2>2, <2>3, <2>4
<1>2. CASE changeTx(r)
  <2>1. Answered(r, UsesOf(RevokeOtherUserSessions(req[r].email, req[r].session), req[r].email))
    BY <1>2 DEF changeTx
  <2>2. ~ resetTx(r)
    BY <1>2 DEF resetTx, changeTx
  <2> QED
    BY <1>2, <2>1, <2>2 DEF RevokeOtherUserSessions, SessionsOf, UsesOf
<1> QED
  BY <1>1, <1>2

\* Every step keeps the logins that are not late current.
LEMMA LoginsStep ==
  ASSUME TypeOK, RequestsFit, LoginsCurrent, [Next]_vars
  PROVE  LoginsCurrent'
<1> SUFFICES ASSUME NEW p \in UnderWay', req'[p].kind = "login", ~ req'[p].late
             PROVE  req'[p].password = account'[req'[p].email].password
  BY DEF LoginsCurrent
<1>1. CASE Fresh(p)
  BY <1>1 DEF Fresh
<1>2. CASE Same(p)
  <2>1. p \in UnderWay /\ req[p].kind = "login" /\ ~ req[p].late
    BY <1>2 DEF Same, UnderWay
  <2>2. /\ req[p].password = account[req[p].email].password /\ account[req[p].email].made
        /\ req'[p].password = req[p].password /\ req'[p].email = req[p].email
    BY <1>2, <2>1 DEF LoginsCurrent, RequestsFit, Same
  <2>3. req[p].email \in Emails
    BY <2>1 DEF TypeOK, Requests, UnderWay
  <2>4. ASSUME NEW r \in Reqs, resetTx(r) \/ changeTx(r), req[r].email = req[p].email
        PROVE  FALSE
    <3>1. PICK gone \in SUBSET DOMAIN session :
             UsesOf(gone, req[r].email) \in SUBSET UnderWay /\ Answered(r, UsesOf(gone, req[r].email))
      BY <2>4, PasswordSet
    <3>2. p \in UsesOf(gone, req[r].email)
      BY <2>1, <2>4 DEF UsesOf
    <3> QED
      BY <3>1, <3>2, AnsweredSame
  <2>5. account'[req[p].email].password = account[req[p].email].password
    BY <2>2, <2>3, <2>4, PasswordMoves
  <2> QED
    BY <2>2, <2>5
<1> QED
  BY <1>1, <1>2, SameOrFresh

\* The password a session was given for moves only with its account's.
LEMMA SessionPassword ==
  ASSUME TypeOK, RequestsFit, [Next]_vars, NEW s \in DOMAIN session,
         \A r \in Reqs : ~ (changeTx(r) /\ req[r].session = s)
  PROVE  session'[s].password = session[s].password
<1>1. ASSUME NEW e, NEW w, NEW raced, Begins(e, w, raced)
      PROVE  session'[s].password = session[s].password
  BY <1>1 DEF Begins
<1>2. ASSUME NEW r \in Reqs, RotateUserSession(r)
      PROVE  session'[s].password = session[s].password
  BY <1>2, RefreshRenews DEF Renews
<1>3. ASSUME NEW ss, session' = Revoke(ss)
      PROVE  session'[s].password = session[s].password
  BY <1>3, RevokeKeeps
<1>4. ASSUME NEW r \in Reqs, changeTx(r)
      PROVE  session'[s].password = session[s].password
  <2>1. session'[s] = Revoke(RevokeOtherUserSessions(req[r].email, req[r].session))[s]
    BY <1>4, Changes
  <2> QED
    BY <2>1, RevokeKeeps
<1>5. ASSUME NEW r \in Reqs, registerTx(r)
      PROVE  session'[s].password = session[s].password
  BY <1>1, <1>5, RegisterBegins
<1>6. ASSUME NEW r \in Reqs, issueSession(r)
      PROVE  session'[s].password = session[s].password
  BY <1>1, <1>6, LoginBegins
<1> QED
  BY <1>2, <1>3, <1>4, <1>5, <1>6, StepCases DEF resetTx, Logout, SessionExpires

\* Every step keeps the sessions that count current.
LEMMA CurrentStep ==
  ASSUME TypeOK, RequestsFit, SessionsFit, LoginsCurrent, CountsCurrent, [Next]_vars
  PROVE  CountsCurrent'
<1> SUFFICES ASSUME NEW s \in DOMAIN session', Counts(s)'
             PROVE  session'[s].password = account'[session'[s].email].password
  BY DEF CountsCurrent
<1>1. CASE s \in DOMAIN session
  <2>1. Counts(s) /\ session'[s].email = session[s].email
    BY <1>1, CountsWas, AllCarried DEF Carried
  <2>2. PICK e \in Emails : e = session[s].email
    BY <1>1 DEF TypeOK, SessionRows
  <2>3. session[s].password = account[e].password /\ account[e].made
    BY <1>1, <2>1, <2>2 DEF CountsCurrent, SessionsFit
  <2>4. ASSUME NEW r \in Reqs, changeTx(r), req[r].session = s
        PROVE  session'[s].password = account'[e].password
    <3>1. req[r].email = e /\ req[r].email \in Emails
      BY <2>2, <2>4 DEF RequestsFit, UnderWay, changeTx
    <3> DEFINE rest == Revoke(RevokeOtherUserSessions(req[r].email, req[r].session))
               w == account'[req[r].email].password
    <3>2. session'[s] = [rest[s] EXCEPT !.password = w]
      BY <1>1, <2>4, Changes
    <3>3. rest[s] \in SessionRows
      <4>1. PICK n \in 0..MaxRows : session \in [1..n -> SessionRows]
        BY DEF TypeOK
      <4>2. rest \in [1..n -> SessionRows]
        BY <4>1, RevokeKeeps
      <4> QED
        BY <1>1, <4>1, <4>2
    <3> HIDE DEF rest, w
    <3>4. session'[s].password = w
      BY <3>2, <3>3 DEF SessionRows
    <3> QED
      BY <3>1, <3>4 DEF w
  <2>5. ASSUME NEW r \in Reqs, resetTx(r) \/ changeTx(r), req[r].email = e,
               ~ (changeTx(r) /\ req[r].session = s)
        PROVE  FALSE
    <3>1. PICK gone \in SUBSET DOMAIN session :
             /\ UsesOf(gone, req[r].email) \in SUBSET UnderWay
             /\ Answered(r, UsesOf(gone, req[r].email))
             /\ \A t \in DOMAIN session :
                  session[t].email = req[r].email /\ (resetTx(r) \/ t # req[r].session) => t \in gone
             /\ resetTx(r) => session' = Revoke(gone)
             /\ changeTx(r) => gone = RevokeOtherUserSessions(req[r].email, req[r].session)
      BY <2>5, PasswordSet
    <3>2. s \in gone
      BY <1>1, <2>2, <2>5, <3>1
    <3>3. {p \in UnderWay : req[p].session = s} \subseteq UsesOf(gone, req[r].email)
      BY <3>2 DEF UsesOf
    <3>4. ~ session'[s].live
      <4>1. session'[s] = Revoke(gone)[s]
        <5>1. CASE resetTx(r)
          BY <3>1, <5>1
        <5>2. CASE changeTx(r) /\ req[r].session # s
          <6>1. s \in DOMAIN session \ {req[r].session}
            BY <1>1, <5>2
          <6>2. session'[s] = Revoke(RevokeOtherUserSessions(req[r].email, req[r].session))[s]
            BY <5>2, <6>1, Changes
          <6> QED
            BY <3>1, <5>2, <6>2
        <5> QED
          BY <2>5, <5>1, <5>2
      <4> QED
        BY <1>1, <3>2, <4>1, RevokeKeeps
    <3> QED
      BY <3>1, <3>3, <3>4, GoneNotCounting
  <2>6. CASE \A r \in Reqs : ~ (changeTx(r) /\ req[r].session = s)
    <3>1. account'[e].password = account[e].password
      BY <2>3, <2>5, <2>6, PasswordMoves
    <3>2. session'[s].password = session[s].password
      BY <1>1, <2>6, SessionPassword
    <3> QED
      BY <2>1, <2>2, <2>3, <3>1, <3>2
  <2> QED
    BY <2>1, <2>2, <2>4, <2>6
<1>2. CASE s \notin DOMAIN session
  <2>1. PICK r \in Reqs :
          \/ registerTx(r) /\ Begins(req[r].email, 0, FALSE)
          \/ issueSession(r) /\ Begins(req[r].email, req[r].password, req[r].late)
          \/ RotateUserSession(r) /\ Renews(r)
    BY <1>2, NewRows
  <2>2. ASSUME NEW e, NEW w, NEW raced, Begins(e, w, raced)
        PROVE  session'[s].email = e /\ session'[s].password = w /\ session'[s].raced = raced
    BY <1>2, <2>2 DEF Begins
  <2>3. CASE registerTx(r) /\ Begins(req[r].email, 0, FALSE)
    <3>1. session'[s].email = req[r].email /\ session'[s].password = 0
      BY <2>2, <2>3
    <3>2. account'[req[r].email].password = 0
      BY <2>3, RegisterBegins
    <3> QED
      BY <3>1, <3>2
  <2>4. CASE issueSession(r) /\ Begins(req[r].email, req[r].password, req[r].late)
    <3>1. /\ session'[s].email = req[r].email /\ session'[s].password = req[r].password
          /\ session'[s].raced = req[r].late
      BY <2>2, <2>4
    <3>2. ~ req[r].late
      BY <3>1 DEF Counts
    <3>3. r \in UnderWay /\ req[r].kind = "login" /\ account' = account
      BY <2>4 DEF issueSession, UnderWay
    <3> QED
      BY <3>1, <3>2, <3>3 DEF LoginsCurrent
  <2>5. CASE RotateUserSession(r) /\ Renews(r)
    <3>1. /\ req[r].session \in DOMAIN session
          /\ session'[s].email = session[req[r].session].email
          /\ session'[s].password = session[req[r].session].password
          /\ session'[s].raced = (session[req[r].session].raced \/ req[r].late)
      BY <1>2, <2>5 DEF Renews
    <3>2. ~ session[req[r].session].raced /\ ~ req[r].late
      BY <3>1 DEF Counts
    <3>3. r \in UnderWay /\ req[r].kind = "refresh" /\ account' = account
      BY <2>5 DEF RotateUserSession, UnderWay
    <3>4. Counts(req[r].session)
      BY <3>2, <3>3 DEF Counts
    <3> QED
      BY <3>1, <3>3, <3>4 DEF CountsCurrent
  <2> QED
    BY <2>1, <2>3, <2>4, <2>5
<1> QED
  BY <1>1, <1>2

\* Every step keeps the sessions that count alone in their chains.
LEMMA AloneStep ==
  ASSUME TypeOK, RequestsFit, SessionsFit, CountsAlone, [Next]_vars
  PROVE  CountsAlone'
<1>1. ASSUME NEW s \in DOMAIN session', NEW t \in DOMAIN session, s \notin DOMAIN session,
             Counts(s)', Counts(t)', session'[s].root = session'[t].root
      PROVE  FALSE
  <2>0. Counts(t) /\ session'[t].root = session[t].root
    BY <1>1, CountsWas, AllCarried DEF Carried
  <2>1. PICK r \in Reqs :
          \/ registerTx(r) /\ Begins(req[r].email, 0, FALSE)
          \/ issueSession(r) /\ Begins(req[r].email, req[r].password, req[r].late)
          \/ RotateUserSession(r) /\ Renews(r)
    BY <1>1, NewRows
  <2>2. ASSUME NEW e, NEW w, NEW raced, Begins(e, w, raced)
        PROVE  FALSE
    <3>1. session'[s].root = s
      BY <1>1, <2>2 DEF Begins
    <3>2. session[t].root \in DOMAIN session
      BY DEF SessionsFit
    <3> QED
      BY <1>1, <2>0, <3>1, <3>2
  <2>3. CASE RotateUserSession(r) /\ Renews(r)
    <3>1. PICK k \in DOMAIN session : k = req[r].session
      BY <2>3 DEF Renews
    <3>2. /\ session'[s].root = session[k].root
          /\ session'[s].raced = (session[k].raced \/ req[r].late)
          /\ ~ session'[k].live
      BY <1>1, <2>3, <3>1 DEF Renews
    <3>3. ~ session[k].raced /\ ~ req[r].late
      BY <1>1, <3>2 DEF Counts
    <3>4. r \in UnderWay /\ req[r].kind = "refresh"
      BY <2>3 DEF RotateUserSession, UnderWay
    <3>5. Counts(k)
      BY <3>1, <3>3, <3>4 DEF Counts
    <3>6. t = k
      BY <1>1, <2>0, <3>2, <3>5 DEF CountsAlone
    <3>7. ~ Counts(k)'
      <4>1. Answered(r, {p \in UnderWay : req[p].session = k})
        BY <2>3, <3>1 DEF RotateUserSession
      <4> QED
        BY <3>2, <4>1, GoneNotCounting
    <3> QED
      BY <1>1, <3>6, <3>7
  <2> QED
    BY <2>1, <2>2, <2>3
<1>2. ASSUME NEW s \in DOMAIN session', NEW t \in DOMAIN session',
             s \notin DOMAIN session, t \notin DOMAIN session
      PROVE  s = t
  <2>1. PICK r \in Reqs :
          \/ registerTx(r) /\ Begins(req[r].email, 0, FALSE)
          \/ issueSession(r) /\ Begins(req[r].email, req[r].password, req[r].late)
          \/ RotateUserSession(r) /\ Renews(r)
    BY <1>2, NewRows
  <2>2. \E n \in Nat : DOMAIN session = 1..n /\ DOMAIN session' = 1..(n + 1)
    BY <2>1 DEF Begins, Renews
  <2> QED
    BY <1>2, <2>2
<1>3. ASSUME NEW s \in DOMAIN session, NEW t \in DOMAIN session,
             Counts(s)', Counts(t)', session'[s].root = session'[t].root
      PROVE  s = t
  <2>1. Counts(s) /\ Counts(t) /\ session[s].root = session[t].root
    BY <1>3, CountsWas, AllCarried DEF Carried
  <2> QED
    BY <2>1 DEF CountsAlone
<1>4. ASSUME NEW s \in DOMAIN session', NEW t \in DOMAIN session',
             Counts(s)', Counts(t)', session'[s].root = session'[t].root
      PROVE  s = t
  BY <1>1, <1>2, <1>3, <1>4
<1> QED
  BY <1>4 DEF CountsAlone
-----------------------------------------------------------------------------
(* The theorems.                                                           *)

\* It holds at the start: the tables agree, nobody is logged in and no
\* request is under way.
LEMMA AccountsInit ==
  ASSUME Init
  PROVE  AccountsInv
<1>1. PICK start \in Starts : account = start.account /\ invite = start.invite
  BY DEF Init
<1>2. account \in [Emails -> AccountRows] /\ invite \in [Invites -> InviteRows]
  BY <1>1
<1>3. /\ code \in [1..0 -> CodeRows] /\ session \in [1..0 -> SessionRows]
      /\ req \in [Reqs -> {Idle}] /\ 0 \in 0..MaxRows
      /\ DOMAIN session = {} /\ UnderWay = {}
  BY DEF Init, UnderWay
<1>4. TypeOK
  BY <1>1, <1>2, <1>3 DEF TypeOK
<1>5. NotYetMinted /\ InvitesTruthful
  BY <1>1 DEF NotYetMinted, InvitesTruthful
<1>6. RequestsFit /\ SessionsFit /\ LoginsCurrent /\ CountsCurrent /\ CountsAlone
  BY <1>3 DEF RequestsFit, SessionsFit, LoginsCurrent, CountsCurrent, CountsAlone
<1> QED
  BY <1>4, <1>5, <1>6 DEF AccountsInv

\* The inductive invariant holds of every behaviour: the tables agree with
\* each other and with what the requests under way were judged on.
THEOREM AccountsInvariant == Spec => []AccountsInv
<1>1. Init => AccountsInv
  BY AccountsInit
<1>2. AccountsInv /\ [Next]_vars => AccountsInv'
  BY TypeStep, InvitesStep, FitStep, SessionsFitStep, LoginsStep, CurrentStep, AloneStep DEF AccountsInv
<1> QED
  BY <1>1, <1>2, PTL DEF Spec

\* Types, and that no code is used more often than it may be.
THEOREM AccountsTyped == Spec => []TypeOK
<1>1. AccountsInv => TypeOK
  BY DEF AccountsInv
<1> QED
  BY <1>1, AccountsInvariant, PTL

\* A code was used as often as there are accounts made with it, whatever
\* registrations race for its last use or fail after redeeming it.
THEOREM InvitesTell == Spec => []InvitesTruthful
<1>1. AccountsInv => InvitesTruthful
  BY DEF AccountsInv
<1> QED
  BY <1>1, AccountsInvariant, PTL

\* No live session is left of an older password, but for what a login or a
\* refresh that a new password outran writes afterwards.
THEOREM OldPasswordsAreOut == Spec => []OldPasswordsOut
<1>1. AccountsInv => OldPasswordsOut
  BY DEF AccountsInv, CountsCurrent, Counts, OldPasswordsOut
<1> QED
  BY <1>1, AccountsInvariant, PTL

\* A chain of refreshes has one live end, but for what a refresh whose session
\* went before it writes afterwards.
THEOREM LoginHasOneEnd == Spec => []OneEndPerLogin
<1>1. AccountsInv => OneEndPerLogin
  BY DEF AccountsInv, CountsAlone, Counts, OneEndPerLogin
<1> QED
  BY <1>1, AccountsInvariant, PTL
=============================================================================
