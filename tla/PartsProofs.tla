----------------------------- MODULE PartsProofs ------------------------------
(***************************************************************************)
(* Proofs about the parts that share no state with one another: the admin  *)
(* console, the tickets, the subscription tokens, the mail, the caches of  *)
(* the signing keys, the catalog, the desktop client, the browser          *)
(* extension, and the prices of upgrades and refunds.  Each has its        *)
(* inductive invariant beside its properties, but for the prices, whose    *)
(* invariant is stated with its proof; a part is proved in three moves:    *)
(* its first states have the invariant, every action keeps it (one lemma   *)
(* per action, or per group of actions that do the same to it), and it     *)
(* implies the property.  The last section is about their composition.     *)
(***************************************************************************)
EXTENDS Parts, Sums, FiniteSetTheorems, SequenceTheorems, TLAPS

-----------------------------------------------------------------------------
(* The admin console.                                                      *)

\* In the first state every founder is in office, alone at his address.
LEMMA ConsoleInit == Init => ConsoleInv
<1> SUFFICES ASSUME Init PROVE ConsoleInv
  OBVIOUS
<1> USE ConsoleAssumption
<1>1. PICK email \in Injection(Founders, Emails) :
        admin = [a \in Admins |->
          [status |-> IF a \in Founders THEN "active" ELSE "none",
           email |-> IF a \in Founders THEN email[a] ELSE None,
           owner |-> a \in Founders, secret |-> 0]]
  BY DEF Init
<1>2. /\ email \in [Founders -> Emails]
      /\ \A a, b \in Founders : email[a] = email[b] => a = b
  BY DEF Injection, IsInjective
<1>3. \A a \in Admins :
        /\ admin[a].status = IF a \in Founders THEN "active" ELSE "none"
        /\ a \in Founders => admin[a].email = email[a]
        /\ admin[a].owner = (a \in Founders)
  BY <1>1
<1>4. Rows = Founders /\ Active = Founders
  BY <1>3 DEF Rows, Active
<1>5. TypeOK
  <2>1. admin \in [Admins -> AdminRows]
    BY <1>1, <1>2 DEF AdminRows
  <2> QED BY <2>1 DEF Init, TypeOK, NoKey
<1>6. EmailsUnique
  <2>1. \A a \in Rows : admin[a].email \in Emails
    BY <1>2, <1>3, <1>4
  <2>2. ASSUME NEW a \in Active, NEW b \in Active, admin[a].email = admin[b].email
        PROVE  a = b
    BY <1>2, <1>3, <1>4, <2>2
  <2> QED BY <2>1, <2>2 DEF EmailsUnique
<1>7. OwnersAsk
  BY <1>3, <1>4 DEF OwnersAsk, Init
<1>8. CodesTimely /\ LockedOut
  BY DEF CodesTimely, LockedOut, PastCheck, UnderWay, Init
<1>9. SpentRemembered /\ CodeAuthorisesOnce
  BY DEF SpentRemembered, CodeAuthorisesOnce, Init
<1>10. OwnerRemains
  BY <1>3, <1>4 DEF OwnerRemains
<1> QED BY <1>5, <1>6, <1>7, <1>8, <1>9, <1>10 DEF ConsoleInv

\* Whoever is active at an address is alone there, and so is the one found.
LEMMA FoundByAddress == ConsoleInv => ActiveFound
<1> SUFFICES ASSUME ConsoleInv, NEW a \in Active
             PROVE  LookupAdminByIAPEmail(admin[a].email) = {a}
  BY DEF ActiveFound
<1> DEFINE rows == {b \in Rows : admin[b].email = admin[a].email}
<1>1. a \in Rows /\ a \in Nat
  BY ConsoleAssumption DEF Active, Rows
<1>2. rows \cap Active = {a}
  BY <1>1 DEF ConsoleInv, EmailsUnique
<1> QED BY <1>1, <1>2 DEF LookupAdminByIAPEmail
\* The requests under way are the ones before, as they were, but for some that
\* have ended and how far the others have come past their check.
CarriedOver ==
  \A r \in Requests : req'[r] # None =>
    /\ req[r] # None
    /\ req'[r].admin = req[r].admin /\ req'[r].code = req[r].code
    /\ req'[r].at = req[r].at /\ req'[r].late = req[r].late
    /\ r \in PastCheck' => r \in PastCheck

\* What such a step keeps as long as no admin's row changes.
LEMMA CarriedKeeps ==
  ASSUME ConsoleInv, CarriedOver, admin' = admin, now \in Nat, now' \in Nat, now' >= now
  PROVE  EmailsUnique' /\ OwnersAsk' /\ CodesTimely' /\ LockedOut'
<1> USE ConsoleAssumption
<1>0. Rows' = Rows /\ Active' = Active
  BY DEF Rows, Active
<1>1. EmailsUnique'
  BY <1>0 DEF ConsoleInv, EmailsUnique
<1>2. OwnersAsk'
  BY <1>0 DEF ConsoleInv, OwnersAsk, CarriedOver
<1>3. \A r \in PastCheck' : /\ r \in Requests /\ r \in PastCheck
                            /\ req'[r].admin = req[r].admin /\ req'[r].code = req[r].code
                            /\ req'[r].at = req[r].at /\ req'[r].late = req[r].late
                            /\ req[r].at \in Nat
  BY DEF CarriedOver, PastCheck, UnderWay, ConsoleInv, TypeOK, RequestRows
<1>4. CodesTimely'
  <2> SUFFICES ASSUME NEW r \in PastCheck'
               PROVE  /\ req'[r].code # None
                      /\ req'[r].code.step >= req'[r].at - Skew
                      /\ req'[r].code.step <= req'[r].at + Skew
                      /\ req'[r].at <= now'
    BY DEF CodesTimely
  <2> QED BY <1>3 DEF ConsoleInv, CodesTimely
<1>5. LockedOut'
  BY <1>3 DEF ConsoleInv, LockedOut
<1> QED BY <1>1, <1>2, <1>4, <1>5

\* A code that may not come again may not come later.
LEMMA SpentKeeps ==
  ASSUME ConsoleInv, used' = used, spent' = spent, now' \in Nat, now' >= now
  PROVE  SpentRemembered'
<1> USE ConsoleAssumption
<1>1. \A c \in spent : c.step \in Nat
  BY DEF ConsoleInv, TypeOK, Codes
<1> QED BY <1>1 DEF ConsoleInv, SpentRemembered, TypeOK

\* Steps that touch neither the admins nor the codes: the request goes on or
\* ends, a node key or the balance changes, time passes.
LEMMA QuietKeeps ==
  ASSUME ConsoleInv, TypeOK', CarriedOver, now' >= now,
         UNCHANGED <<admin, used, spent, twice, crossed>>
  PROVE  ConsoleInv'
<1>1. now \in Nat /\ now' \in Nat
  BY DEF ConsoleInv, TypeOK
<1>2. EmailsUnique' /\ OwnersAsk' /\ CodesTimely' /\ LockedOut'
  BY <1>1, CarriedKeeps
<1>3. SpentRemembered'
  BY <1>1, SpentKeeps
<1>4. CodeAuthorisesOnce' /\ OwnerRemains'
  BY DEF ConsoleInv, CodeAuthorisesOnce, OwnerRemains, Active
<1> QED BY <1>2, <1>3, <1>4 DEF ConsoleInv

\* Whether a request ends or others become late with it, none begins.
LEMMA AnsweredCarries ==
  ASSUME TypeOK, NEW r \in Requests, Answered(r)
  PROVE  CarriedOver /\ req' \in [Requests -> RequestRows \cup {None}]
  BY DEF Answered, TypeOK, CarriedOver, PastCheck, UnderWay

\* A request that has passed the check and goes on is the request it was.
LEMMA AdvanceCarries ==
  ASSUME TypeOK, NEW r \in PastCheck, NEW phase \in {"stepped", "counted"},
         req' = [req EXCEPT ![r].phase = phase]
  PROVE  CarriedOver /\ req' \in [Requests -> RequestRows \cup {None}]
<1> USE ConsoleAssumption
<1>1. r \in Requests /\ req[r] \in RequestRows /\ r \in PastCheck
  BY DEF TypeOK, PastCheck, UnderWay
<1>2. [req[r] EXCEPT !.phase = phase] \in RequestRows
  BY <1>1 DEF RequestRows, Phases
<1>3. req' = [req EXCEPT ![r] = [req[r] EXCEPT !.phase = phase]]
  BY <1>1 DEF TypeOK
<1>4. req' \in [Requests -> RequestRows \cup {None}]
  BY <1>1, <1>2, <1>3 DEF TypeOK
<1>5. CarriedOver
  <2> SUFFICES ASSUME NEW q \in Requests, req'[q] # None
               PROVE  /\ req[q] # None
                      /\ req'[q].admin = req[q].admin /\ req'[q].code = req[q].code
                      /\ req'[q].at = req[q].at /\ req'[q].late = req[q].late
                      /\ q \in PastCheck' => q \in PastCheck
    BY DEF CarriedOver
  <2>1. CASE q = r
    BY <1>1, <1>3, <2>1 DEF TypeOK, RequestRows, PastCheck, UnderWay
  <2>2. CASE q # r
    BY <1>1, <1>3, <2>2 DEF TypeOK, PastCheck, UnderWay
  <2> QED BY <2>1, <2>2
<1> QED BY <1>4, <1>5

\* The actions, one by one.
LEMMA AuthenticateKeeps ==
  ASSUME ConsoleInv, NEW r \in Requests, NEW e \in Emails, Authenticate(r, e)
  PROVE  ConsoleInv'
<1> USE ConsoleAssumption
<1>1. PICK a \in LookupAdminByIAPEmail(e) :
        /\ admin[a].status = "active" /\ admin[a].owner
        /\ req' = [req EXCEPT ![r] =
             [phase |-> "seen", admin |-> a, code |-> None, at |-> now, late |-> FALSE]]
  BY DEF Authenticate, Gate
<1>2. a \in Admins
  BY DEF LookupAdminByIAPEmail, Rows
<1> DEFINE row == [phase |-> "seen", admin |-> a, code |-> None, at |-> now, late |-> FALSE]
<1>3. row \in RequestRows
  BY <1>2 DEF RequestRows, Phases, ConsoleInv, TypeOK
<1>4. UNCHANGED <<admin, used, now, key, balance, spent, twice, crossed>>
  BY DEF Authenticate
<1>5. TypeOK'
  BY <1>1, <1>3, <1>4 DEF ConsoleInv, TypeOK
<1>6. Rows' = Rows /\ Active' = Active
  BY <1>4 DEF Rows, Active
<1>7. EmailsUnique' /\ CodeAuthorisesOnce' /\ OwnerRemains' /\ SpentRemembered'
  BY <1>4, <1>6 DEF ConsoleInv, EmailsUnique, CodeAuthorisesOnce, OwnerRemains, SpentRemembered
<1>8. OwnersAsk'
  BY <1>1, <1>2, <1>4, <1>6 DEF ConsoleInv, OwnersAsk, TypeOK
<1>9. PastCheck' \subseteq PastCheck /\ r \notin PastCheck'
  BY <1>1 DEF PastCheck, UnderWay, ConsoleInv, TypeOK
<1>10. \A q \in PastCheck' : q \in Requests /\ req'[q] = req[q]
  BY <1>1, <1>9 DEF ConsoleInv, TypeOK, PastCheck, UnderWay
<1>11. CodesTimely' /\ LockedOut'
  BY <1>4, <1>9, <1>10 DEF ConsoleInv, CodesTimely, LockedOut
<1> QED BY <1>5, <1>7, <1>8, <1>11 DEF ConsoleInv

\* A second factor is asked for: its code is spent once (RequireStepUp).
LEMMA StepUpKeeps ==
  ASSUME ConsoleInv, NEW r \in Requests, NEW step \in Nat, RequireStepUp(r, step)
  PROVE  ConsoleInv'
<1> USE ConsoleAssumption
<1> DEFINE a   == req[r].admin
           c   == [admin |-> a, secret |-> admin[a].secret, step |-> step]
           row == [req[r] EXCEPT !.phase = "verified", !.at = now, !.code = c]
<1>1. /\ req[r] \in RequestRows /\ req[r].phase = "seen" /\ req[r] # None
      /\ admin[a].status = "active"
      /\ step >= now - Skew /\ step <= now + Skew
      /\ req' = [req EXCEPT ![r] = row]
      /\ UNCHANGED <<admin, used, now, key, balance, spent, twice, crossed>>
  BY DEF RequireStepUp, Checked, VerifyTOTPCode, UnderWay, ConsoleInv, TypeOK
<1>2. a \in Admins /\ admin[a] \in AdminRows /\ now \in Nat
  BY <1>1 DEF RequestRows, ConsoleInv, TypeOK
<1>3. c \in Codes /\ c # None /\ c.step = step /\ c.secret = admin[a].secret
  BY <1>2 DEF Codes, AdminRows
<1>4. /\ row \in RequestRows
      /\ row.admin = a /\ row.code = c /\ row.at = now /\ row.late = req[r].late
  BY <1>1, <1>2, <1>3 DEF RequestRows, Phases
<1>5. TypeOK'
  BY <1>1, <1>4 DEF ConsoleInv, TypeOK
<1> HIDE DEF c, row
<1>6. Rows' = Rows /\ Active' = Active
  BY <1>1 DEF Rows, Active
<1>7. EmailsUnique' /\ CodeAuthorisesOnce' /\ OwnerRemains' /\ SpentRemembered'
  BY <1>1, <1>6 DEF ConsoleInv, EmailsUnique, CodeAuthorisesOnce, OwnerRemains, SpentRemembered
<1>8. \A q \in Requests : req'[q] = IF q = r THEN row ELSE req[q]
  BY <1>1 DEF ConsoleInv, TypeOK
<1>9. OwnersAsk'
  BY <1>1, <1>4, <1>6, <1>8 DEF ConsoleInv, OwnersAsk
<1>10. \A q \in PastCheck' : q \in Requests /\ (q # r => q \in PastCheck)
  BY <1>8 DEF PastCheck, UnderWay
<1>11. CodesTimely'
  <2> SUFFICES ASSUME NEW q \in PastCheck'
               PROVE  /\ req'[q].code # None
                      /\ req'[q].code.step >= req'[q].at - Skew
                      /\ req'[q].code.step <= req'[q].at + Skew
                      /\ req'[q].at <= now'
    BY DEF CodesTimely
  <2>1. CASE q = r
    BY <1>1, <1>2, <1>3, <1>4, <1>8, <2>1
  <2>2. CASE q # r
    BY <1>1, <1>8, <1>10, <2>2 DEF ConsoleInv, CodesTimely
  <2> QED BY <2>1, <2>2
<1>12. LockedOut'
  <2> SUFFICES ASSUME NEW q \in PastCheck'
               PROVE  \/ req'[q].late
                      \/ /\ admin'[req'[q].admin].status = "active"
                         /\ req'[q].code.secret = admin'[req'[q].admin].secret
    BY DEF LockedOut
  <2>1. CASE q = r
    BY <1>1, <1>3, <1>4, <1>8, <2>1
  <2>2. CASE q # r
    BY <1>1, <1>8, <1>10, <2>2 DEF ConsoleInv, LockedOut
  <2> QED BY <2>1, <2>2
<1> QED BY <1>5, <1>7, <1>9, <1>11, <1>12 DEF ConsoleInv

\* The heart of it: a code claimed before is still in used_totp, which refuses
\* it, or too old for the request to last so long.
LEMMA ClaimKeeps ==
  ASSUME ConsoleInv, NEW r \in Requests, ClaimTOTPCode(r)
  PROVE  ConsoleInv'
<1> USE ConsoleAssumption
<1> DEFINE c == req[r].code
<1>1. /\ r \in PastCheck /\ req[r] \in RequestRows
      /\ now <= req[r].at + Patience
      /\ used' = {u \in used : u.code # c} \cup {[code |-> c, at |-> now]}
      /\ spent' = spent \cup {c}
      /\ twice' = twice \cup ({c} \cap spent)
      /\ req' = [req EXCEPT ![r].phase = "stepped"]
      /\ \A u \in used : u.code # c
      /\ UNCHANGED <<admin, now, key, balance, crossed>>
  BY DEF ClaimTOTPCode, Claimed, UnderWay, PastCheck, ConsoleInv, TypeOK
<1>2. /\ c \in Codes /\ c.step \in Nat /\ req[r].at \in Nat /\ now \in Nat
      /\ c.step >= req[r].at - Skew /\ c.step <= req[r].at + Skew /\ req[r].at <= now
  BY <1>1 DEF ConsoleInv, CodesTimely, TypeOK, RequestRows, Codes
<1>3. c \notin spent
  <2>1. ~ (now > c.step + Skew + Patience)
    BY <1>1, <1>2
  <2> QED BY <1>1, <2>1 DEF ConsoleInv, SpentRemembered
<1>4. CodeAuthorisesOnce'
  BY <1>1, <1>3 DEF ConsoleInv, CodeAuthorisesOnce
<1>5. CarriedOver /\ req' \in [Requests -> RequestRows \cup {None}]
  BY <1>1, AdvanceCarries DEF ConsoleInv
<1>6. TypeOK'
  BY <1>1, <1>2, <1>5 DEF ConsoleInv, TypeOK, CodeAuthorisesOnce
<1>7. EmailsUnique' /\ OwnersAsk' /\ CodesTimely' /\ LockedOut'
  BY <1>1, <1>2, <1>5, CarriedKeeps
<1>8. SpentRemembered'
  <2>1. c.step <= now + Skew
    BY <1>2
  <2>2. \A u \in used' : u.code.step <= u.at + Skew
    BY <1>1, <2>1 DEF ConsoleInv, SpentRemembered
  <2>3. \A u \in used : u \in used'
    BY <1>1
  <2>4. \E u \in used' : u.code = c
    <3>1. [code |-> c, at |-> now] \in used'
      BY <1>1
    <3> QED BY <3>1
  <2> QED BY <1>1, <2>2, <2>3, <2>4 DEF ConsoleInv, SpentRemembered
<1>9. OwnerRemains'
  BY <1>1 DEF ConsoleInv, OwnerRemains, Active
<1> QED BY <1>4, <1>6, <1>7, <1>8, <1>9 DEF ConsoleInv

\* What used_totp forgets is too old for any request.
LEMMA CleanupKeeps ==
  ASSUME ConsoleInv, CleanupUsedTotp
  PROVE  ConsoleInv'
<1> USE ConsoleAssumption
<1>1. /\ used' = {u \in used : u.at >= now - Retention}
      /\ UNCHANGED <<admin, now, req, key, balance, spent, twice, crossed>>
  BY DEF CleanupUsedTotp
<1>2. TypeOK' /\ now \in Nat
  BY <1>1 DEF ConsoleInv, TypeOK
<1>3. CarriedOver
  BY <1>1 DEF CarriedOver, PastCheck, UnderWay
<1>4. EmailsUnique' /\ OwnersAsk' /\ CodesTimely' /\ LockedOut'
  BY <1>1, <1>2, <1>3, CarriedKeeps
<1>5. SpentRemembered'
  <2>1. \A u \in used' : u.code.step <= u.at + Skew
    BY <1>1 DEF ConsoleInv, SpentRemembered
  <2>2. ASSUME NEW c \in spent'
        PROVE  (\E u \in used' : u.code = c) \/ now' > c.step + Skew + Patience
    <3>1. CASE now > c.step + Skew + Patience
      BY <1>1, <3>1
    <3>2. CASE \E u \in used : u.code = c
      <4>1. PICK u \in used : u.code = c
        BY <3>2
      <4>2. u.at \in Nat /\ c.step \in Nat /\ c.step <= u.at + Skew
        BY <1>1, <4>1 DEF ConsoleInv, TypeOK, SpentRemembered, Codes
      <4>3. CASE u.at >= now - Retention
        BY <1>1, <4>1, <4>3
      <4>4. CASE ~ (u.at >= now - Retention)
        BY <1>1, <1>2, <4>2, <4>4
      <4> QED BY <4>3, <4>4
    <3> QED BY <1>1, <3>1, <3>2 DEF ConsoleInv, SpentRemembered
  <2> QED BY <2>1, <2>2 DEF SpentRemembered
<1>6. CodeAuthorisesOnce' /\ OwnerRemains'
  BY <1>1 DEF ConsoleInv, CodeAuthorisesOnce, OwnerRemains, Active
<1> QED BY <1>2, <1>4, <1>5, <1>6 DEF ConsoleInv

\* A request of an owner makes nobody else an owner; the new row takes an
\* address nobody active has.
LEMMA CreateAdminKeeps ==
  ASSUME ConsoleInv, NEW r \in Requests, NEW a \in Admins, NEW e \in Emails,
         CreateAdmin(r, a, e)
  PROVE  ConsoleInv'
<1> USE ConsoleAssumption
<1> DEFINE row == [status |-> "active", email |-> e, owner |-> FALSE, secret |-> 0]
<1>1. /\ a \notin Rows /\ ~ Taken(e)
      /\ admin' = [admin EXCEPT ![a] = row]
      /\ Answered(r)
      /\ UNCHANGED <<used, now, key, balance, spent, twice, crossed>>
  BY DEF CreateAdmin
<1>2. row \in AdminRows
  BY DEF AdminRows
<1>3. \A b \in Admins : admin'[b] = IF b = a THEN row ELSE admin[b]
  BY <1>1 DEF ConsoleInv, TypeOK
<1>4. CarriedOver /\ req' \in [Requests -> RequestRows \cup {None}]
  BY <1>1, AnsweredCarries DEF ConsoleInv
<1>5. TypeOK'
  BY <1>1, <1>2, <1>4 DEF ConsoleInv, TypeOK
<1>6. Rows' = Rows \cup {a} /\ Active' = Active \cup {a} /\ a \notin Active
  BY <1>1, <1>3 DEF Rows, Active
<1>7. EmailsUnique'
  <2>1. ASSUME NEW b \in Rows' PROVE admin'[b].email \in Emails
    <3>1. CASE b = a
      BY <1>3, <3>1
    <3>2. CASE b # a
      <4>1. b \in Rows /\ b \in Admins
        BY <1>6, <2>1, <3>2 DEF Rows
      <4> QED BY <1>3, <3>2, <4>1 DEF ConsoleInv, EmailsUnique
    <3> QED BY <3>1, <3>2
  <2>2. \A b \in Active : b \in Admins /\ b # a /\ admin'[b] = admin[b] /\ admin[b].email # e
    BY <1>1, <1>3, <1>6 DEF Taken, Active
  <2>3. admin'[a].email = e
    BY <1>3
  <2>4. \A b, d \in Active' : admin'[b].email = admin'[d].email => b = d
    BY <1>6, <2>2, <2>3 DEF ConsoleInv, EmailsUnique
  <2> QED BY <2>1, <2>4 DEF EmailsUnique
<1>8. \A q \in Requests : req'[q] # None =>
        /\ req[q] # None /\ req'[q].admin = req[q].admin
        /\ req[q].admin \in Rows /\ req[q].admin # a
        /\ admin'[req[q].admin] = admin[req[q].admin] /\ admin[req[q].admin].owner
  <2>1. ASSUME NEW q \in Requests, req'[q] # None
        PROVE  req[q] # None /\ req'[q].admin = req[q].admin
    BY <1>4, <2>1 DEF CarriedOver
  <2>2. ASSUME NEW q \in Requests, req[q] # None
        PROVE  req[q].admin \in Admins
    BY <2>2 DEF ConsoleInv, TypeOK, RequestRows
  <2>3. ASSUME NEW q \in Requests, req[q] # None
        PROVE  admin[req[q].admin].owner /\ req[q].admin \in Rows
    BY <2>2, <2>3 DEF ConsoleInv, OwnersAsk
  <2> QED BY <1>1, <1>3, <2>1, <2>2, <2>3
<1>9. OwnersAsk'
  <2>1. \A b \in Admins : admin'[b].owner => b \in Rows'
    BY <1>3, <1>6 DEF ConsoleInv, OwnersAsk
  <2> QED BY <1>8, <2>1 DEF OwnersAsk
<1>10. \A q \in PastCheck' : /\ q \in Requests /\ q \in PastCheck /\ req'[q] # None
                             /\ req'[q].code = req[q].code /\ req'[q].at = req[q].at
                             /\ req'[q].late = req[q].late
  BY <1>4 DEF CarriedOver, PastCheck, UnderWay
<1>11. CodesTimely'
  BY <1>1, <1>10 DEF ConsoleInv, CodesTimely
<1>12. LockedOut'
  BY <1>8, <1>10 DEF ConsoleInv, LockedOut
<1>13. SpentRemembered' /\ CodeAuthorisesOnce'
  BY <1>1 DEF ConsoleInv, SpentRemembered, CodeAuthorisesOnce
<1>14. OwnerRemains'
  BY <1>1, <1>3, <1>6 DEF ConsoleInv, OwnerRemains, Active
<1> QED BY <1>5, <1>7, <1>9, <1>11, <1>12, <1>13, <1>14 DEF ConsoleInv

\* The request ends; those of the same admin are late from here on.
LEMMA OvertakingCarries ==
  ASSUME ConsoleInv, NEW r \in Requests, NEW a \in Admins, AnsweredBefore(r, Overtaken(a))
  PROVE  /\ req' \in [Requests -> RequestRows \cup {None}]
         /\ \A q \in Requests : req'[q] # None =>
              /\ req[q] # None
              /\ req'[q].admin = req[q].admin /\ req'[q].code = req[q].code
              /\ req'[q].at = req[q].at
              /\ q \in PastCheck' => q \in PastCheck
              /\ q \in PastCheck' => req'[q].late \/ (req[q].admin # a /\ ~ req[q].late)
<1> USE ConsoleAssumption
<1>1. req' = [q \in Requests |->
        IF q = r THEN None
        ELSE IF q \in Overtaken(a) THEN [req[q] EXCEPT !.late = TRUE] ELSE req[q]]
  BY DEF AnsweredBefore
<1>2. \A q \in Requests : req[q] \in RequestRows \cup {None}
  BY DEF ConsoleInv, TypeOK
<1>3. \A q \in Overtaken(a) : q \in Requests /\ req[q] # None /\ q \in PastCheck
  BY DEF Overtaken, PastCheck, UnderWay
<1>4. \A q \in Overtaken(a) : [req[q] EXCEPT !.late = TRUE] \in RequestRows
  BY <1>2, <1>3 DEF RequestRows
<1>5. req' \in [Requests -> RequestRows \cup {None}]
  BY <1>1, <1>2, <1>4
<1>6. ASSUME NEW q \in Requests, req'[q] # None
      PROVE  /\ req[q] # None
             /\ req'[q].admin = req[q].admin /\ req'[q].code = req[q].code
             /\ req'[q].at = req[q].at /\ req'[q].phase = req[q].phase
             /\ q \in Overtaken(a) => req'[q].late
             /\ q \notin Overtaken(a) => req'[q].late = req[q].late
  <2>1. CASE q \in Overtaken(a)
    <3>1. req'[q] = [req[q] EXCEPT !.late = TRUE] /\ req[q] # None /\ req[q] \in RequestRows
      BY <1>1, <1>2, <1>3, <1>6, <2>1
    <3> QED BY <2>1, <3>1 DEF RequestRows
  <2>2. CASE q \notin Overtaken(a)
    BY <1>1, <1>6, <2>2
  <2> QED BY <2>1, <2>2
<1>7. \A q \in Requests : q \in PastCheck' => q \in PastCheck
  BY <1>6 DEF PastCheck, UnderWay
<1>8. \A q \in PastCheck : req[q].late \in BOOLEAN /\ (q \notin Overtaken(a) => req[q].admin # a)
  BY <1>2 DEF PastCheck, UnderWay, RequestRows, Overtaken
<1>9. ASSUME NEW q \in Requests, req'[q] # None, q \in PastCheck'
      PROVE  req'[q].late \/ (req[q].admin # a /\ ~ req[q].late)
  BY <1>6, <1>7, <1>8, <1>9
<1> QED BY <1>5, <1>6, <1>7, <1>9

\* A step that rewrites one admin's row and makes his requests late.
LEMMA OvertakingKeeps ==
  ASSUME ConsoleInv, NEW r \in Requests, NEW a \in Rows, NEW row \in AdminRows,
         admin' = [admin EXCEPT ![a] = row],
         row.owner = admin[a].owner, row.email = admin[a].email,
         row.status \in {"active", "disabled"},
         row.status = "active" => admin[a].status = "active",
         AnsweredBefore(r, Overtaken(a)),
         UNCHANGED <<used, now, key, balance, spent, twice>>
  PROVE  /\ crossed' \in BOOLEAN => TypeOK'
         /\ EmailsUnique' /\ OwnersAsk' /\ CodesTimely' /\ LockedOut'
         /\ SpentRemembered' /\ CodeAuthorisesOnce'
<1> USE ConsoleAssumption
<1>1. a \in Admins
  BY DEF Rows
<1>2. \A b \in Admins : admin'[b] = IF b = a THEN row ELSE admin[b]
  BY <1>1 DEF ConsoleInv, TypeOK
<1>3. /\ req' \in [Requests -> RequestRows \cup {None}]
      /\ \A q \in Requests : req'[q] # None =>
           /\ req[q] # None
           /\ req'[q].admin = req[q].admin /\ req'[q].code = req[q].code
           /\ req'[q].at = req[q].at
           /\ q \in PastCheck' => q \in PastCheck
           /\ q \in PastCheck' => req'[q].late \/ (req[q].admin # a /\ ~ req[q].late)
  BY <1>1, OvertakingCarries
<1>4. crossed' \in BOOLEAN => TypeOK'
  BY <1>1, <1>3 DEF ConsoleInv, TypeOK
<1>5. Rows' = Rows /\ Active' \subseteq Active
  BY <1>1, <1>2 DEF Rows, Active
<1>6. \A b \in Admins : admin'[b].email = admin[b].email /\ admin'[b].owner = admin[b].owner
  BY <1>2
<1>7. Active \subseteq Admins /\ Rows \subseteq Admins
  BY DEF Active, Rows
<1>8. EmailsUnique'
  <2>1. \A b \in Rows' : admin'[b].email \in Emails
    BY <1>5, <1>6, <1>7 DEF ConsoleInv, EmailsUnique
  <2>2. \A b, d \in Active' : admin'[b].email = admin'[d].email => b = d
    BY <1>5, <1>6, <1>7 DEF ConsoleInv, EmailsUnique
  <2> QED BY <2>1, <2>2 DEF EmailsUnique
<1>9. \A q \in Requests : req[q] # None => req[q].admin \in Admins
  BY DEF ConsoleInv, TypeOK, RequestRows
<1>10. OwnersAsk'
  BY <1>3, <1>5, <1>6, <1>9 DEF ConsoleInv, OwnersAsk
<1>11. \A q \in PastCheck' : q \in Requests /\ req'[q] # None /\ q \in PastCheck
  BY <1>3 DEF PastCheck, UnderWay
<1>12. CodesTimely'
  BY <1>3, <1>11 DEF ConsoleInv, CodesTimely
<1>13. LockedOut'
  BY <1>2, <1>3, <1>9, <1>11 DEF ConsoleInv, LockedOut
<1> QED
  BY <1>4, <1>8, <1>10, <1>12, <1>13 DEF ConsoleInv, SpentRemembered, CodeAuthorisesOnce

\* An owner takes a second factor away: the codes of the old secret are of no use.
LEMMA ResetKeeps ==
  ASSUME ConsoleInv, NEW r \in Requests, NEW a \in Admins, resetAdminTotpTx(r, a)
  PROVE  ConsoleInv'
<1> USE ConsoleAssumption
<1> DEFINE row == [admin[a] EXCEPT !.secret = @ + 1]
<1>1. /\ a \in Rows /\ admin[a].secret < MaxSecret
      /\ admin' = [admin EXCEPT ![a] = row]
      /\ AnsweredBefore(r, Overtaken(a))
      /\ UNCHANGED <<used, now, key, balance, spent, twice, crossed>>
  BY DEF resetAdminTotpTx, ConsoleInv, TypeOK
<1>2. admin[a] \in AdminRows /\ admin[a].secret \in 0..MaxSecret
  BY DEF ConsoleInv, TypeOK, AdminRows
<1>3. admin[a].secret + 1 \in 0..MaxSecret
  BY <1>1, <1>2
<1>4. /\ row \in AdminRows /\ row.owner = admin[a].owner /\ row.email = admin[a].email
      /\ row.status = admin[a].status
  BY <1>2, <1>3 DEF AdminRows
<1>5. admin[a].status \in {"active", "disabled"}
  BY <1>1, <1>2 DEF Rows, AdminRows
<1> HIDE DEF row
<1>6. /\ TypeOK' /\ EmailsUnique' /\ OwnersAsk' /\ CodesTimely' /\ LockedOut'
      /\ SpentRemembered' /\ CodeAuthorisesOnce'
  <2>1. crossed' \in BOOLEAN
    BY <1>1 DEF ConsoleInv, TypeOK
  <2> QED BY <1>1, <1>4, <1>5, <2>1, OvertakingKeeps
<1>7. OwnerRemains'
  <2>1. \A b \in Admins : admin'[b].owner = admin[b].owner /\ admin'[b].status = admin[b].status
    BY <1>1, <1>4 DEF ConsoleInv, TypeOK
  <2> QED BY <1>1, <2>1 DEF ConsoleInv, OwnerRemains, Active
<1> QED BY <1>6, <1>7 DEF ConsoleInv

\* Whoever disables somebody else is an owner: he is left in office himself,
\* or was out of it already, which is the crossing.
LEMMA DeleteAdminKeeps ==
  ASSUME ConsoleInv, NEW r \in Requests, NEW a \in Admins, deleteAdminTx(r, a)
  PROVE  ConsoleInv'
<1> USE ConsoleAssumption
<1> DEFINE row == [admin[a] EXCEPT !.status = "disabled"]
           b   == req[r].admin
<1>1. /\ req[r] # None /\ a \in Rows /\ a # b
      /\ admin' = [admin EXCEPT ![a] = row]
      /\ AnsweredBefore(r, Overtaken(a))
      /\ crossed' = (crossed \/ admin[b].status = "disabled")
      /\ UNCHANGED <<used, now, key, balance, spent, twice>>
  BY DEF deleteAdminTx, Disabled, UnderWay, ConsoleInv, TypeOK
<1>2. admin[a] \in AdminRows
  BY DEF ConsoleInv, TypeOK
<1>3. /\ row \in AdminRows /\ row.owner = admin[a].owner /\ row.email = admin[a].email
      /\ row.status = "disabled"
  BY <1>2 DEF AdminRows
<1> HIDE DEF row
<1>4. /\ TypeOK' /\ EmailsUnique' /\ OwnersAsk' /\ CodesTimely' /\ LockedOut'
      /\ SpentRemembered' /\ CodeAuthorisesOnce'
  <2>1. crossed' \in BOOLEAN
    BY <1>1 DEF ConsoleInv, TypeOK
  <2> QED BY <1>1, <1>3, <2>1, OvertakingKeeps
<1>5. OwnerRemains'
  <2>1. b \in Admins /\ admin[b].owner /\ b \in Rows /\ admin[b] \in AdminRows
    BY <1>1 DEF ConsoleInv, OwnersAsk, TypeOK, RequestRows
  <2>2. admin'[b] = admin[b]
    BY <1>1, <2>1 DEF ConsoleInv, TypeOK
  <2>3. CASE admin[b].status = "disabled"
    BY <1>1, <2>3 DEF OwnerRemains
  <2>4. CASE admin[b].status # "disabled"
    <3>1. admin[b].status = "active"
      BY <2>1, <2>4 DEF Rows, AdminRows
    <3> QED BY <2>1, <2>2, <3>1 DEF OwnerRemains, Active
  <2> QED BY <2>3, <2>4
<1> QED BY <1>4, <1>5 DEF ConsoleInv

\* Steps that end a request or take it on, and leave the admins and codes alone.
LEMMA OperationKeeps ==
  ASSUME ConsoleInv, NEW r \in Requests,
         \/ Fail(r)
         \/ ManageKeys(r)
         \/ \E amount \in Adjustments : adjustBalanceTx(r, amount)
  PROVE  ConsoleInv'
<1> USE ConsoleAssumption
<1>1. UNCHANGED <<admin, used, now, spent, twice, crossed>>
  BY DEF Fail, ManageKeys, adjustBalanceTx, AdminCountActiveNodeKeys, CreateServerKey,
         revokeAdminNodeKey
<1>2. \/ Answered(r)
      \/ r \in PastCheck /\ req' = [req EXCEPT ![r].phase = "counted"]
  BY DEF Fail, ManageKeys, adjustBalanceTx, AdminCountActiveNodeKeys, CreateServerKey,
         revokeAdminNodeKey, PastCheck, UnderWay
<1>3. CarriedOver /\ req' \in [Requests -> RequestRows \cup {None}]
  BY <1>2, AnsweredCarries, AdvanceCarries DEF ConsoleInv
<1>4. key' \in [Keys -> [state : {"none", "active", "expired", "revoked"}, used : BOOLEAN]]
  <2>1. CASE Fail(r) \/ AdminCountActiveNodeKeys(r)
             \/ \E amount \in Adjustments : adjustBalanceTx(r, amount)
    BY <2>1 DEF Fail, AdminCountActiveNodeKeys, adjustBalanceTx, ConsoleInv, TypeOK
  <2>2. ASSUME NEW k \in Keys, CreateServerKey(r, k) \/ revokeAdminNodeKey(r, k)
        PROVE  key' \in [Keys -> [state : {"none", "active", "expired", "revoked"},
                                  used : BOOLEAN]]
    <3>1. CASE CreateServerKey(r, k)
      BY <3>1 DEF CreateServerKey, ConsoleInv, TypeOK
    <3>2. CASE revokeAdminNodeKey(r, k)
      <4>1. key[k] \in [state : {"none", "active", "expired", "revoked"}, used : BOOLEAN]
        BY DEF ConsoleInv, TypeOK
      <4>2. [key[k] EXCEPT !.state = "revoked"]
              \in [state : {"none", "active", "expired", "revoked"}, used : BOOLEAN]
        BY <4>1
      <4>3. key' = key \/ key' = [key EXCEPT ![k] = [key[k] EXCEPT !.state = "revoked"]]
        BY <3>2 DEF revokeAdminNodeKey, ConsoleInv, TypeOK
      <4> QED BY <4>2, <4>3 DEF ConsoleInv, TypeOK
    <3> QED BY <2>2, <3>1, <3>2
  <2> QED BY <2>1, <2>2 DEF ManageKeys
<1>5. balance' \in Nat
  BY DEF Fail, ManageKeys, adjustBalanceTx, AdminCountActiveNodeKeys, CreateServerKey,
         revokeAdminNodeKey, ConsoleInv, TypeOK
<1>6. TypeOK'
  BY <1>1, <1>3, <1>4, <1>5 DEF ConsoleInv, TypeOK
<1>7. now' >= now
  BY <1>1 DEF ConsoleInv, TypeOK
<1> QED BY <1>1, <1>3, <1>6, <1>7, QuietKeeps

\* Time passes, a key expires, or nothing happens.
LEMMA SurroundingsKeep ==
  ASSUME ConsoleInv, Tick \/ (\E k \in Keys : KeyExpires(k)) \/ UNCHANGED vars
  PROVE  ConsoleInv'
<1>1. /\ UNCHANGED <<admin, used, req, spent, twice, crossed, balance>>
      /\ now' \in Nat /\ now' >= now
  BY DEF Tick, KeyExpires, vars, ConsoleInv, TypeOK
<1>2. key' \in [Keys -> [state : {"none", "active", "expired", "revoked"}, used : BOOLEAN]]
  BY DEF Tick, KeyExpires, vars, ConsoleInv, TypeOK
<1>3. TypeOK'
  BY <1>1, <1>2 DEF ConsoleInv, TypeOK
<1>4. CarriedOver
  BY <1>1 DEF CarriedOver, PastCheck, UnderWay
<1> QED BY <1>1, <1>3, <1>4, QuietKeeps

\* Every step of the console keeps the invariant.
LEMMA ConsoleStep == ConsoleInv /\ [Next]_vars => ConsoleInv'
<1> SUFFICES ASSUME ConsoleInv, [Next]_vars PROVE ConsoleInv'
  OBVIOUS
<1>1. CASE CleanupUsedTotp
  BY <1>1, CleanupKeeps
<1>2. CASE Tick \/ (\E k \in Keys : KeyExpires(k)) \/ UNCHANGED vars
  BY <1>2, SurroundingsKeep
<1>3. ASSUME NEW r \in Requests, Judge(r) PROVE ConsoleInv'
  BY <1>3, AuthenticateKeeps DEF Judge
<1>4. ASSUME NEW r \in Requests, StepUp(r) PROVE ConsoleInv'
  <2>1. PICK step \in 0..(MaxStep + Skew) : RequireStepUp(r, step)
    BY <1>4 DEF StepUp
  <2>2. step \in Nat
    OBVIOUS
  <2> QED BY <2>1, <2>2, StepUpKeeps
<1>5. ASSUME NEW r \in Requests, ClaimTOTPCode(r) PROVE ConsoleInv'
  BY <1>5, ClaimKeeps
<1>6. ASSUME NEW r \in Requests, ManageAdmins(r) PROVE ConsoleInv'
  BY <1>6, CreateAdminKeeps, ResetKeeps, DeleteAdminKeeps DEF ManageAdmins
<1>7. ASSUME NEW r \in Requests,
             Fail(r) \/ ManageKeys(r) \/ \E amount \in Adjustments : adjustBalanceTx(r, amount)
      PROVE  ConsoleInv'
  BY <1>7, OperationKeeps
<1> QED BY <1>1, <1>2, <1>3, <1>4, <1>5, <1>6, <1>7 DEF Next

\* The invariant holds of every reachable state of the console.
THEOREM ConsoleInvariant == Spec => []ConsoleInv
  BY ConsoleInit, ConsoleStep, PTL DEF Spec

\* A code authorises one operation, for any skew, patience and retention with
\* Retention >= 2 * Skew + Patience (ClaimTOTPCode, CleanupUsedTotp).
THEOREM CodeOnce == Spec => []CodeAuthorisesOnce
<1>1. ConsoleInv => CodeAuthorisesOnce
  BY DEF ConsoleInv
<1> QED BY <1>1, ConsoleInvariant, PTL

\* Who is disabled, or shows a code of an older secret, does nothing but what
\* was past its check by then (RequireStepUp reads the row again).
THEOREM OutIsOut == Spec => []LockedOut
<1>1. ConsoleInv => LockedOut
  BY DEF ConsoleInv
<1> QED BY <1>1, ConsoleInvariant, PTL

\* Somebody can still manage the admins, unless one of them disabled another
\* after he was disabled himself (deleteAdminTx).
THEOREM OwnerStays == Spec => []OwnerRemains
<1>1. ConsoleInv => OwnerRemains
  BY DEF ConsoleInv
<1> QED BY <1>1, ConsoleInvariant, PTL

\* Whoever is active is found by his address (LookupAdminByIAPEmail).
THEOREM ActiveIsFound == Spec => []ActiveFound
  BY FoundByAddress, ConsoleInvariant, PTL

-----------------------------------------------------------------------------
(* Tickets.                                                                *)

\* There is no ticket at first.
LEMMA TicketsBegin == TicketsInit => TicketsInv
<1> SUFFICES ASSUME TicketsInit PROVE TicketsInv
  OBVIOUS
<1> USE TicketsAssumption
<1>1. \A t \in Cases : /\ case[t] = NoCase
                       /\ message[t] = [kind \in MessageKinds |-> 0]
  BY DEF TicketsInit
<1>2. NoCase \in CaseRows
  BY DEF NoCase, CaseRows
<1>3. TicketsTypeOK
  BY <1>2 DEF TicketsInit, TicketsTypeOK, Messages
<1>4. RowsTruthful
  BY <1>1 DEF RowsTruthful, NoCase, Total, Done, Statuses, MessageKinds
<1>5. RequestsAware
  BY DEF RequestsAware, TicketsInit
<1> QED BY <1>1, <1>3, <1>4, <1>5 DEF TicketsInv, TicketsInit

\* A ticket's row truthful of its messages.
Truthful(row, msgs) ==
  /\ row.count = msgs["user"] + msgs["public"] + msgs["internal"]
  /\ row.answered <=> msgs["public"] > 0
  /\ row.resolvedAt <=> row.status \in Done
  /\ row.closedAt <=> row.status = "closed"

\* The tickets can be judged one by one, before and after a step.
LEMMA RowByRow ==
  /\ RowsTruthful <=> \A t \in Cases : Truthful(case[t], message[t])
  /\ RowsTruthful' <=> \A t \in Cases : Truthful(case'[t], message'[t])
  BY DEF RowsTruthful, Truthful, Total

\* What a step does to one ticket alone keeps the rows.
LEMMA OneCase ==
  ASSUME TicketsInv, NEW t \in Cases, NEW row \in CaseRows, NEW msgs \in Messages,
         case' = [case EXCEPT ![t] = row], message' = [message EXCEPT ![t] = msgs],
         row.status # None, Truthful(row, msgs)
  PROVE  /\ case' \in [Cases -> CaseRows] /\ message' \in [Cases -> Messages]
         /\ RowsTruthful'
         /\ \A u \in Cases : ~ Exists(u)' => case'[u] = NoCase
<1>1. case \in [Cases -> CaseRows] /\ message \in [Cases -> Messages]
  BY DEF TicketsInv, TicketsTypeOK
<1>2. \A u \in Cases : /\ case'[u] = IF u = t THEN row ELSE case[u]
                       /\ message'[u] = IF u = t THEN msgs ELSE message[u]
  BY <1>1
<1>3. \A u \in Cases : Truthful(case'[u], message'[u])
  BY <1>2, RowByRow DEF TicketsInv
<1>4. \A u \in Cases : ~ Exists(u)' => case'[u] = NoCase
  BY <1>2 DEF TicketsInv, Exists
<1> QED BY <1>1, <1>3, <1>4, RowByRow

\* A message more, and a row that counts it.
LEMMA MessageWritten ==
  ASSUME TicketsTypeOK, NEW t \in Cases, Total(t) < MaxMessages,
         NEW kind \in {"user", "public", "internal"}, Write(t, kind)
  PROVE  \E msgs \in Messages :
           /\ message' = [message EXCEPT ![t] = msgs]
           /\ msgs["user"] = message[t]["user"] + (IF kind = "user" THEN 1 ELSE 0)
           /\ msgs["public"] = message[t]["public"] + (IF kind = "public" THEN 1 ELSE 0)
           /\ msgs["internal"] = message[t]["internal"] + (IF kind = "internal" THEN 1 ELSE 0)
<1> USE TicketsAssumption
<1>1. message[t] \in Messages
  BY DEF TicketsTypeOK
<1>2. /\ message[t]["user"] \in Nat /\ message[t]["public"] \in Nat /\ message[t]["internal"] \in Nat
      /\ message[t]["user"] + message[t]["public"] + message[t]["internal"] < MaxMessages
  BY <1>1 DEF Messages, MessageKinds, Total
<1>3. message[t]["user"] + 1 \in 0..MaxMessages /\ message[t]["public"] + 1 \in 0..MaxMessages
      /\ message[t]["internal"] + 1 \in 0..MaxMessages
  BY <1>2
<1> DEFINE msgs == [message[t] EXCEPT ![kind] = @ + 1]
<1>4. message' = [message EXCEPT ![t] = msgs]
  BY DEF Write, TicketsTypeOK
<1>5. /\ msgs \in Messages
      /\ \A k \in MessageKinds : msgs[k] = message[t][k] + (IF kind = k THEN 1 ELSE 0)
  BY <1>1, <1>2, <1>3 DEF Messages, MessageKinds
<1> QED BY <1>4, <1>5 DEF MessageKinds

\* What the statements make of a ticket's row.
LEMMA UserCounted ==
  ASSUME NEW row \in CaseRows
  PROVE  LET new == BumpTicketMessageCount(row, "user")
         IN  /\ new \in CaseRows /\ new.count = row.count + 1 /\ new.status = row.status
             /\ new.answered = row.answered
             /\ new.resolvedAt = row.resolvedAt /\ new.closedAt = row.closedAt
<1>1. (row.answered \/ "user" = "agent") = row.answered /\ row.count + 1 \in Nat
  BY DEF CaseRows
<1>2. BumpTicketMessageCount(row, "user") = [row EXCEPT !.count = row.count + 1,
                                                        !.answered = row.answered]
  BY <1>1 DEF BumpTicketMessageCount
<1> QED BY <1>1, <1>2 DEF CaseRows

\* The row of a ticket after a message of an agent (AdminBumpTicketOnAgentMessage).
LEMMA AgentCounted ==
  ASSUME NEW row \in CaseRows, NEW internal \in BOOLEAN
  PROVE  LET new == AdminBumpTicketOnAgentMessage(row, internal)
         IN  /\ new \in CaseRows /\ new.count = row.count + 1 /\ new.status = row.status
             /\ new.answered = (row.answered \/ ~ internal)
             /\ new.resolvedAt = row.resolvedAt /\ new.closedAt = row.closedAt
<1> DEFINE answered == row.answered \/ ~ internal
<1>1. answered \in BOOLEAN /\ row.count + 1 \in Nat
  BY DEF CaseRows
<1>2. AdminBumpTicketOnAgentMessage(row, internal) =
        [row EXCEPT !.count = row.count + 1, !.answered = answered]
  BY DEF AdminBumpTicketOnAgentMessage
<1> HIDE DEF answered
<1>3. LET new == AdminBumpTicketOnAgentMessage(row, internal)
      IN  /\ new \in CaseRows /\ new.count = row.count + 1 /\ new.status = row.status
          /\ new.answered = answered
          /\ new.resolvedAt = row.resolvedAt /\ new.closedAt = row.closedAt
  BY <1>1, <1>2 DEF CaseRows
<1> QED BY <1>3 DEF answered

\* The row of a ticket that its user closes (CloseUserTicket).
LEMMA ClosedByUser ==
  ASSUME NEW row \in CaseRows
  PROVE  LET new == CloseUserTicket(row)
         IN  /\ new \in CaseRows /\ new.count = row.count /\ new.status = "closed"
             /\ new.answered = row.answered
             /\ new.resolvedAt = TRUE /\ new.closedAt = TRUE
  BY DEF CloseUserTicket, CaseRows, Statuses

\* The row of a ticket whose status an agent sets (AdminUpdateTicket).
LEMMA SetByAgent ==
  ASSUME NEW row \in CaseRows, NEW next \in AgentStatuses
  PROVE  LET new == AdminUpdateTicket(row, next)
         IN  /\ new \in CaseRows /\ new.count = row.count /\ new.status = next
             /\ new.answered = row.answered
             /\ new.resolvedAt = (next = "closed") /\ new.closedAt = (next = "closed")
<1> DEFINE closed == next = "closed"
<1>1. closed \in BOOLEAN /\ (next \in Done) = closed /\ next \in Statuses
  BY DEF AgentStatuses, Statuses, Done
<1>2. AdminUpdateTicket(row, next) =
        [row EXCEPT !.status = next, !.resolvedAt = closed, !.closedAt = closed]
  BY <1>1 DEF AdminUpdateTicket
<1> HIDE DEF closed
<1>3. LET new == AdminUpdateTicket(row, next)
      IN  /\ new \in CaseRows /\ new.count = row.count /\ new.status = next
          /\ new.answered = row.answered /\ new.resolvedAt = closed /\ new.closedAt = closed
  BY <1>1, <1>2 DEF CaseRows
<1> QED BY <1>3 DEF closed

\* A ticket begins with one message, counted.
LEMMA CreateTicketKeeps ==
  ASSUME TicketsInv, NEW t \in Cases, CreateTicket(t)
  PROVE  TicketsInv'
<1> USE TicketsAssumption
<1> DEFINE row == BumpTicketMessageCount(CreateUserTicket, "user")
<1>1. /\ case[t] = NoCase /\ case' = [case EXCEPT ![t] = row] /\ Write(t, "user")
      /\ UNCHANGED <<events, request, late>>
  BY DEF CreateTicket, TicketsInv
<1>2. /\ message[t] \in Messages
      /\ Truthful(NoCase, message[t])
  BY <1>1, RowByRow DEF TicketsInv, TicketsTypeOK
<1>3. message[t]["user"] = 0 /\ message[t]["public"] = 0 /\ message[t]["internal"] = 0
  BY <1>2 DEF Truthful, NoCase, Messages, MessageKinds
<1>4. Total(t) < MaxMessages
  BY <1>3 DEF Total
<1>5. PICK msgs \in Messages :
        /\ message' = [message EXCEPT ![t] = msgs]
        /\ msgs["user"] = message[t]["user"] + (IF "user" = "user" THEN 1 ELSE 0)
        /\ msgs["public"] = message[t]["public"] + (IF "user" = "public" THEN 1 ELSE 0)
        /\ msgs["internal"] = message[t]["internal"] + (IF "user" = "internal" THEN 1 ELSE 0)
  BY <1>1, <1>4, MessageWritten DEF TicketsInv
<1>6. msgs["user"] = 1 /\ msgs["public"] = 0 /\ msgs["internal"] = 0
  BY <1>3, <1>5
<1>7. row \in CaseRows /\ row.status = "open" /\ row.count = 1
      /\ row.answered = FALSE /\ row.resolvedAt = FALSE /\ row.closedAt = FALSE
  <2>1. /\ CreateUserTicket \in CaseRows /\ CreateUserTicket.status = "open"
        /\ CreateUserTicket.count = 0 /\ CreateUserTicket.answered = FALSE
        /\ CreateUserTicket.resolvedAt = FALSE /\ CreateUserTicket.closedAt = FALSE
    BY DEF CreateUserTicket, NoCase, CaseRows, Statuses
  <2> QED BY <2>1, UserCounted
<1> HIDE DEF row
<1>8. Truthful(row, msgs)
  BY <1>6, <1>7 DEF Truthful, Done
<1>9. row.status # None
  BY <1>7 DEF Statuses
<1>10. /\ case' \in [Cases -> CaseRows] /\ message' \in [Cases -> Messages]
       /\ RowsTruthful'
       /\ \A u \in Cases : ~ Exists(u)' => case'[u] = NoCase
  BY <1>1, <1>5, <1>7, <1>8, <1>9, OneCase
<1>11. RequestsAware'
  <2>1. \A u \in Cases : case'[u] = IF u = t THEN row ELSE case[u]
    BY <1>1 DEF TicketsInv, TicketsTypeOK
  <2>2. case[t].status = None
    BY <1>1 DEF NoCase
  <2>3. ASSUME NEW r \in Callers
        PROVE  /\ request[r] # None => request[r].on # t
               /\ request[r] # None => request[r].on \in Cases
    BY <2>2 DEF TicketsInv, RequestsAware, Exists, TicketsTypeOK, UserWork
  <2> QED BY <1>1, <2>1, <2>3 DEF TicketsInv, RequestsAware, Exists
<1> QED BY <1>1, <1>10, <1>11 DEF TicketsInv, TicketsTypeOK

\* Closing raises the flag of the replies it overtakes.
LEMMA RaceFlags ==
  ASSUME TicketsInv, NEW t \in Cases, NEW row \in CaseRows, row.status # None
  PROVE  /\ Race(t, row) \in [Callers -> UserWork \cup {None}]
         /\ \A r \in Callers : Race(t, row)[r] # None =>
              /\ request[r] # None
              /\ Race(t, row)[r].on = request[r].on /\ Race(t, row)[r].act = request[r].act
              /\ Race(t, row)[r].seen = request[r].seen
              /\ request[r].raced => Race(t, row)[r].raced
              /\ (request[r].on = t /\ request[r].act = "reply" /\ row.status = "closed"
                    /\ case[t].status # "closed") => Race(t, row)[r].raced
<1> USE TicketsAssumption
<1> DEFINE flagged == {r \in On(t, "reply") : case[t].status # "closed" /\ row.status = "closed"}
<1>1. \A r \in Callers : request[r] \in UserWork \cup {None}
  BY DEF TicketsInv, TicketsTypeOK
<1>2. \A r \in Callers :
        Race(t, row)[r] = IF r \in flagged THEN [request[r] EXCEPT !.raced = TRUE] ELSE request[r]
  BY DEF Race
<1>3. \A r \in flagged : r \in Callers /\ request[r] \in UserWork
  BY <1>1 DEF On
<1>4. \A r \in flagged :
        /\ [request[r] EXCEPT !.raced = TRUE] \in UserWork
        /\ [request[r] EXCEPT !.raced = TRUE].on = request[r].on
        /\ [request[r] EXCEPT !.raced = TRUE].act = request[r].act
        /\ [request[r] EXCEPT !.raced = TRUE].seen = request[r].seen
        /\ [request[r] EXCEPT !.raced = TRUE].raced = TRUE
  BY <1>3 DEF UserWork
<1>5. Race(t, row) = [r \in Callers |-> Race(t, row)[r]]
  BY DEF Race
<1>6. \A r \in Callers : Race(t, row)[r] \in UserWork \cup {None}
  BY <1>1, <1>2, <1>4
<1>7. Race(t, row) \in [Callers -> UserWork \cup {None}]
  BY <1>5, <1>6
<1>8. ASSUME NEW r \in Callers, Race(t, row)[r] # None
      PROVE  /\ request[r] # None
             /\ Race(t, row)[r].on = request[r].on /\ Race(t, row)[r].act = request[r].act
             /\ Race(t, row)[r].seen = request[r].seen
             /\ request[r].raced => Race(t, row)[r].raced
             /\ r \in flagged => Race(t, row)[r].raced
  <2>1. CASE r \in flagged
    BY <1>2, <1>3, <1>4, <2>1
  <2>2. CASE r \notin flagged
    BY <1>2, <1>8, <2>2
  <2> QED BY <2>1, <2>2
<1>9. ASSUME NEW r \in Callers, request[r] # None, request[r].on = t, request[r].act = "reply",
             row.status = "closed", case[t].status # "closed"
      PROVE  r \in flagged
  BY <1>9 DEF On
<1> QED BY <1>7, <1>8, <1>9

\* A step that gives one ticket a new row and races its requests.
LEMMA RacedAware ==
  ASSUME TicketsInv, NEW t \in Cases, NEW row \in CaseRows,
         Exists(t), row.status # None, case' = [case EXCEPT ![t] = row],
         \A r \in Callers : request'[r] = None \/ request'[r] = Race(t, row)[r]
  PROVE  RequestsAware'
<1> SUFFICES ASSUME NEW r \in Callers, request'[r] # None
             PROVE  /\ case'[request'[r].on].status # None
                    /\ (request'[r].act = "reply" /\ case'[request'[r].on].status = "closed") =>
                         request'[r].raced \/ request'[r].seen = "closed"
  BY DEF RequestsAware, Exists
<1> DEFINE old == request[r]
<1>1. /\ old # None /\ request'[r].on = old.on /\ request'[r].act = old.act
      /\ request'[r].seen = old.seen
      /\ old.raced => request'[r].raced
      /\ (old.on = t /\ old.act = "reply" /\ row.status = "closed"
            /\ case[t].status # "closed") => request'[r].raced
  BY RaceFlags
<1>2. old.on \in Cases
  BY <1>1 DEF TicketsInv, TicketsTypeOK, UserWork
<1>3. /\ case[old.on].status # None
      /\ (old.act = "reply" /\ case[old.on].status = "closed") => old.raced \/ old.seen = "closed"
  BY <1>1 DEF TicketsInv, RequestsAware, Exists
<1>4. case'[old.on] = IF old.on = t THEN row ELSE case[old.on]
  BY <1>2 DEF TicketsInv, TicketsTypeOK
<1> HIDE DEF old
<1>5. case'[old.on].status # None
  BY <1>3, <1>4 DEF Exists
<1>6. ASSUME old.act = "reply", case'[old.on].status = "closed"
      PROVE  request'[r].raced \/ old.seen = "closed"
  <2>1. CASE old.on = t /\ case[t].status # "closed"
    BY <1>1, <1>4, <1>6, <2>1
  <2>2. CASE case[old.on].status = "closed"
    BY <1>1, <1>3, <1>6, <2>2
  <2> QED BY <1>4, <1>6, <2>1, <2>2
<1> QED BY <1>1, <1>5, <1>6

\* A message of the user or an agent leaves the status as it is.
LEMMA MessageAware ==
  ASSUME TicketsInv, NEW t \in Cases, NEW row, row.status = case[t].status,
         case' = [case EXCEPT ![t] = row],
         \A r \in Callers : request'[r] = None \/ request'[r] = request[r]
  PROVE  RequestsAware'
<1>1. \A u \in Cases : case'[u].status = case[u].status
  BY DEF TicketsInv, TicketsTypeOK
<1> QED
  BY <1>1 DEF TicketsInv, RequestsAware, Exists, TicketsTypeOK, UserWork

\* A user replies: the ticket is open again, unless it was closed meanwhile.
LEMMA ReplyKeeps ==
  ASSUME TicketsInv, NEW r \in Callers, CreateTicketMessage(r)
  PROVE  TicketsInv'
<1> USE TicketsAssumption
<1> DEFINE t   == request[r].on
           row == BumpTicketMessageCount(case[t], "user")
<1>1. /\ request[r] \in UserWork /\ request[r] # None /\ request[r].act = "reply"
      /\ request' = [request EXCEPT ![r] = None] /\ UNCHANGED events
      /\ request' \in [Callers -> UserWork \cup {None}]
      /\ \A q \in Callers : request'[q] = None \/ request'[q] = request[q]
  BY DEF CreateTicketMessage, TicketsInv, TicketsTypeOK
<1>2. t \in Cases /\ case[t] \in CaseRows /\ case[t].status # None
  BY <1>1 DEF UserWork, TicketsInv, TicketsTypeOK, RequestsAware, Exists
<1>3. CASE request[r].seen = "closed"
  <2>1. UNCHANGED <<case, message, late>>
    BY <1>3 DEF CreateTicketMessage, CreateUserTicketMessage
  <2>2. RequestsAware'
    BY <1>1, <2>1 DEF TicketsInv, RequestsAware, Exists
  <2> QED
    BY <1>1, <2>1, <2>2 DEF TicketsInv, TicketsTypeOK, RowsTruthful, Total, Exists
<1>4. CASE request[r].seen # "closed"
  <2>1. /\ Total(t) < MaxMessages /\ Write(t, "user")
        /\ case' = [case EXCEPT ![t] = row]
        /\ late' = IF case[t].status = "closed" /\ ~ request[r].raced
                     THEN [late EXCEPT ![t] = @ + 1] ELSE late
    BY <1>2, <1>4 DEF CreateTicketMessage, CreateUserTicketMessage, TicketsInv, TicketsTypeOK
  <2>2. late' = late
    BY <1>1, <1>4, <2>1 DEF TicketsInv, RequestsAware
  <2>3. PICK msgs \in Messages :
          /\ message' = [message EXCEPT ![t] = msgs]
          /\ msgs["user"] = message[t]["user"] + (IF "user" = "user" THEN 1 ELSE 0)
          /\ msgs["public"] = message[t]["public"] + (IF "user" = "public" THEN 1 ELSE 0)
          /\ msgs["internal"] = message[t]["internal"] + (IF "user" = "internal" THEN 1 ELSE 0)
    BY <1>2, <2>1, MessageWritten DEF TicketsInv
  <2>4. message[t] \in Messages /\ Truthful(case[t], message[t])
    BY <1>2, RowByRow DEF TicketsInv, TicketsTypeOK
  <2>5. /\ row \in CaseRows /\ row.count = case[t].count + 1 /\ row.status = case[t].status
        /\ row.answered = case[t].answered /\ row.resolvedAt = case[t].resolvedAt
        /\ row.closedAt = case[t].closedAt
    BY <1>2, UserCounted
  <2> HIDE DEF t, row
  <2>6. Truthful(row, msgs)
    BY <2>3, <2>4, <2>5 DEF Truthful, Messages, MessageKinds
  <2>7. /\ case' \in [Cases -> CaseRows] /\ message' \in [Cases -> Messages]
        /\ RowsTruthful'
        /\ \A u \in Cases : ~ Exists(u)' => case'[u] = NoCase
    BY <1>2, <2>1, <2>3, <2>5, <2>6, OneCase
  <2>8. RequestsAware'
    BY <1>1, <1>2, <2>1, <2>5, MessageAware
  <2> QED BY <1>1, <2>2, <2>7, <2>8 DEF TicketsInv, TicketsTypeOK
<1> QED BY <1>3, <1>4

\* An agent writes, to the user or a note.
LEMMA AgentMessageKeeps ==
  ASSUME TicketsInv, NEW t \in Cases, NEW internal \in BOOLEAN,
         CreateAdminTicketMessage(t, internal)
  PROVE  TicketsInv'
<1> USE TicketsAssumption
<1> DEFINE row  == AdminBumpTicketOnAgentMessage(case[t], internal)
           kind == IF internal THEN "internal" ELSE "public"
<1>1. /\ Total(t) < MaxMessages /\ Write(t, kind) /\ case[t].status # None
      /\ case' = [case EXCEPT ![t] = row]
      /\ UNCHANGED <<events, request, late>>
  BY DEF CreateAdminTicketMessage, TicketsInv, TicketsTypeOK, Exists
<1>2. kind \in {"user", "public", "internal"} /\ case[t] \in CaseRows
  BY DEF TicketsInv, TicketsTypeOK
<1>3. PICK msgs \in Messages :
        /\ message' = [message EXCEPT ![t] = msgs]
        /\ msgs["user"] = message[t]["user"] + (IF kind = "user" THEN 1 ELSE 0)
        /\ msgs["public"] = message[t]["public"] + (IF kind = "public" THEN 1 ELSE 0)
        /\ msgs["internal"] = message[t]["internal"] + (IF kind = "internal" THEN 1 ELSE 0)
  BY <1>1, <1>2, MessageWritten DEF TicketsInv
<1>4. message[t] \in Messages /\ Truthful(case[t], message[t])
  BY RowByRow DEF TicketsInv, TicketsTypeOK
<1>5. /\ row \in CaseRows /\ row.count = case[t].count + 1 /\ row.status = case[t].status
      /\ row.answered = (case[t].answered \/ ~ internal)
      /\ row.resolvedAt = case[t].resolvedAt /\ row.closedAt = case[t].closedAt
  BY <1>2, AgentCounted
<1> HIDE DEF row
<1>6. Truthful(row, msgs)
  <2>1. msgs["user"] + msgs["public"] + msgs["internal"] = row.count
    BY <1>2, <1>3, <1>4, <1>5 DEF Truthful, Messages, MessageKinds
  <2>2. CASE internal
    <3>1. kind = "internal"
      BY <2>2
    <3>2. msgs["public"] = message[t]["public"]
      BY <1>3, <1>4, <3>1 DEF Messages, MessageKinds
    <3>3. row.answered = case[t].answered
      BY <1>2, <1>5, <2>2 DEF CaseRows
    <3> QED BY <1>4, <1>5, <2>1, <3>2, <3>3 DEF Truthful
  <2>3. CASE ~ internal
    <3>1. kind = "public"
      BY <2>3
    <3>2. msgs["public"] > 0
      BY <1>3, <1>4, <3>1 DEF Messages, MessageKinds
    <3>3. row.answered = TRUE
      BY <1>2, <1>5, <2>3 DEF CaseRows
    <3> QED BY <1>4, <1>5, <2>1, <3>2, <3>3 DEF Truthful
  <2> QED BY <2>2, <2>3
<1>7. /\ case' \in [Cases -> CaseRows] /\ message' \in [Cases -> Messages]
      /\ RowsTruthful'
      /\ \A u \in Cases : ~ Exists(u)' => case'[u] = NoCase
  BY <1>1, <1>3, <1>5, <1>6, OneCase
<1>8. RequestsAware'
  BY <1>1, <1>5, MessageAware
<1> QED BY <1>1, <1>7, <1>8 DEF TicketsInv, TicketsTypeOK

\* A user closes his ticket.
LEMMA CloseKeeps ==
  ASSUME TicketsInv, NEW r \in Callers, CloseTicket(r)
  PROVE  TicketsInv'
<1> USE TicketsAssumption
<1> DEFINE t   == request[r].on
           row == CloseUserTicket(case[t])
<1>1. request[r] \in UserWork /\ request[r] # None /\ UNCHANGED <<message, late>>
  BY DEF CloseTicket, TicketsInv, TicketsTypeOK
<1>2. t \in Cases /\ case[t] \in CaseRows /\ case[t].status # None
  BY <1>1 DEF UserWork, TicketsInv, TicketsTypeOK, RequestsAware, Exists
<1>3. CASE request[r].seen = "closed"
  <2>1. request' = [request EXCEPT ![r] = None] /\ UNCHANGED <<case, events>>
    BY <1>3 DEF CloseTicket
  <2>2. /\ request' \in [Callers -> UserWork \cup {None}]
        /\ \A q \in Callers : request'[q] = None \/ request'[q] = request[q]
    BY <2>1 DEF TicketsInv, TicketsTypeOK
  <2>3. RequestsAware'
    BY <2>1, <2>2 DEF TicketsInv, RequestsAware, Exists
  <2> QED
    BY <1>1, <2>1, <2>2, <2>3 DEF TicketsInv, TicketsTypeOK, RowsTruthful, Total, Exists
<1>4. CASE request[r].seen # "closed"
  <2>1. /\ case' = [case EXCEPT ![t] = row]
        /\ events' = [events EXCEPT ![t] = @ + 1]
        /\ request' = [Race(t, row) EXCEPT ![r] = None]
    BY <1>2, <1>4 DEF CloseTicket, TicketsInv, TicketsTypeOK
  <2>2. /\ row \in CaseRows /\ row.count = case[t].count /\ row.status = "closed"
        /\ row.answered = case[t].answered /\ row.resolvedAt = TRUE /\ row.closedAt = TRUE
    BY <1>2, ClosedByUser
  <2> HIDE DEF t, row
  <2>3. row.status # None
    BY <2>2 DEF Statuses
  <2>4. Race(t, row) \in [Callers -> UserWork \cup {None}]
    BY <1>2, <2>2, <2>3, RaceFlags
  <2>5. /\ request' \in [Callers -> UserWork \cup {None}]
        /\ \A q \in Callers : request'[q] = None \/ request'[q] = Race(t, row)[q]
    BY <2>1, <2>4
  <2>6. message[t] \in Messages /\ Truthful(case[t], message[t])
    BY <1>2, RowByRow DEF TicketsInv, TicketsTypeOK
  <2>7. Truthful(row, message[t])
    BY <2>2, <2>6 DEF Truthful, Done
  <2>8. message' = [message EXCEPT ![t] = message[t]]
    BY <1>1, <1>2 DEF TicketsInv, TicketsTypeOK
  <2>9. /\ case' \in [Cases -> CaseRows] /\ message' \in [Cases -> Messages]
        /\ RowsTruthful'
        /\ \A u \in Cases : ~ Exists(u)' => case'[u] = NoCase
    BY <1>2, <2>1, <2>2, <2>3, <2>6, <2>7, <2>8, OneCase
  <2>10. RequestsAware'
    BY <1>2, <2>1, <2>2, <2>3, <2>5, RacedAware DEF Exists
  <2>11. events' \in [Cases -> Nat]
    BY <1>2, <2>1 DEF TicketsInv, TicketsTypeOK
  <2> QED BY <1>1, <2>5, <2>9, <2>10, <2>11 DEF TicketsInv, TicketsTypeOK
<1> QED BY <1>3, <1>4

\* An agent sets the status.
LEMMA UpdateTicketKeeps ==
  ASSUME TicketsInv, NEW t \in Cases, NEW next \in AgentStatuses, UpdateAdminTicket(t, next)
  PROVE  TicketsInv'
<1> USE TicketsAssumption
<1> DEFINE row == AdminUpdateTicket(case[t], next)
<1>1. /\ Exists(t)
      /\ case' = [case EXCEPT ![t] = row]
      /\ request' = Race(t, row)
      /\ UNCHANGED <<message, events, late>>
  BY DEF UpdateAdminTicket, TicketsInv, TicketsTypeOK
<1>2. case[t] \in CaseRows
  BY DEF TicketsInv, TicketsTypeOK
<1>3. /\ row \in CaseRows /\ row.count = case[t].count /\ row.status = next
      /\ row.answered = case[t].answered
      /\ row.resolvedAt = (next = "closed") /\ row.closedAt = (next = "closed")
  BY <1>2, SetByAgent
<1> HIDE DEF row
<1>4. row.status # None
  BY <1>3 DEF AgentStatuses, Statuses
<1>5. Race(t, row) \in [Callers -> UserWork \cup {None}]
  BY <1>3, <1>4, RaceFlags
<1>6. message[t] \in Messages /\ Truthful(case[t], message[t])
  BY RowByRow DEF TicketsInv, TicketsTypeOK
<1>7. Truthful(row, message[t])
  <2>1. (next \in Done) = (next = "closed")
    BY DEF AgentStatuses, Done
  <2> QED BY <1>3, <1>6, <2>1 DEF Truthful
<1>8. message' = [message EXCEPT ![t] = message[t]]
  BY <1>1 DEF TicketsInv, TicketsTypeOK
<1>9. /\ case' \in [Cases -> CaseRows] /\ message' \in [Cases -> Messages]
      /\ RowsTruthful'
      /\ \A u \in Cases : ~ Exists(u)' => case'[u] = NoCase
  BY <1>1, <1>3, <1>4, <1>6, <1>7, <1>8, OneCase
<1>10. RequestsAware'
  BY <1>1, <1>3, <1>4, RacedAware
<1> QED BY <1>1, <1>5, <1>9, <1>10 DEF TicketsInv, TicketsTypeOK

\* A request of a user reads the ticket it is about.
LEMMA BeginKeeps ==
  ASSUME TicketsInv, NEW r \in Callers, NEW t \in Cases, NEW act \in {"reply", "close"},
         Begin(r, t, act)
  PROVE  TicketsInv'
<1> USE TicketsAssumption
<1> DEFINE work == [act |-> act, on |-> t, seen |-> case[t].status, raced |-> FALSE]
<1>1. /\ case[t].status # None /\ request' = [request EXCEPT ![r] = work]
      /\ UNCHANGED <<case, message, events, late>>
  BY DEF Begin, Exists
<1>2. case[t].status \in Statuses
  BY <1>1 DEF TicketsInv, TicketsTypeOK, CaseRows
<1>3. work \in UserWork
  BY <1>2 DEF UserWork
<1>4. \A q \in Callers : request'[q] = IF q = r THEN work ELSE request[q]
  BY <1>1 DEF TicketsInv, TicketsTypeOK
<1>5. RequestsAware'
  BY <1>1, <1>4 DEF TicketsInv, RequestsAware, Exists
<1> QED
  BY <1>1, <1>3, <1>5 DEF TicketsInv, TicketsTypeOK, RowsTruthful, Total, Exists

\* Every step of the tickets keeps the invariant.
LEMMA TicketsStep == TicketsInv /\ [TicketsNext]_ticketVars => TicketsInv'
<1> SUFFICES ASSUME TicketsInv, [TicketsNext]_ticketVars PROVE TicketsInv'
  OBVIOUS
<1>1. CASE UNCHANGED ticketVars
  BY <1>1 DEF ticketVars, TicketsInv, TicketsTypeOK, RowsTruthful, RequestsAware, Total, Exists
<1>2. ASSUME NEW t \in Cases, CreateTicket(t) PROVE TicketsInv'
  BY <1>2, CreateTicketKeeps
<1>3. ASSUME NEW t \in Cases, NEW next \in AgentStatuses, UpdateAdminTicket(t, next)
      PROVE  TicketsInv'
  BY <1>3, UpdateTicketKeeps
<1>4. ASSUME NEW t \in Cases, NEW internal \in BOOLEAN, CreateAdminTicketMessage(t, internal)
      PROVE  TicketsInv'
  BY <1>4, AgentMessageKeeps
<1>5. ASSUME NEW r \in Callers, NEW t \in Cases, NEW act \in {"reply", "close"}, Begin(r, t, act)
      PROVE  TicketsInv'
  BY <1>5, BeginKeeps
<1>6. ASSUME NEW r \in Callers, CreateTicketMessage(r) \/ CloseTicket(r) PROVE TicketsInv'
  BY <1>6, ReplyKeeps, CloseKeeps
<1> QED BY <1>1, <1>2, <1>3, <1>4, <1>5, <1>6 DEF TicketsNext

\* What the console and the alarms read off a ticket is so, however the user's
\* requests and the agents' interleave: the count, the list of those to
\* answer, the stamps, and that nobody replies into a ticket he saw closed.
THEOREM TicketsAreTruthful == TicketsSpec => []TicketTruthful
<1>1. TicketsInv => TicketTruthful
  <2> SUFFICES ASSUME TicketsInv, NEW t \in Cases
               PROVE  /\ case[t].count = Total(t)
                      /\ (Exists(t) /\ case[t].status \notin Done) =>
                           (Breaching(t) <=> message[t]["public"] = 0)
                      /\ case[t].resolvedAt <=> case[t].status \in Done
                      /\ case[t].closedAt <=> case[t].status = "closed"
                      /\ late[t] = 0
    BY DEF TicketTruthful
  <2>1. message[t]["public"] \in Nat
    BY DEF TicketsInv, TicketsTypeOK, Messages, MessageKinds
  <2>2. (~ case[t].answered) <=> message[t]["public"] = 0
    BY <2>1 DEF TicketsInv, RowsTruthful
  <2> QED BY <2>2 DEF TicketsInv, RowsTruthful, Breaching
<1> QED BY <1>1, TicketsBegin, TicketsStep, PTL DEF TicketsSpec

-----------------------------------------------------------------------------
(* Subscription tokens.                                                    *)

\* There is no token at first, nor a revocation.
LEMMA TokensBegin == TokensInit => TokensInv
<1> SUFFICES ASSUME TokensInit PROVE TokensInv
  OBVIOUS
<1>1. 1 \in Ticks /\ 0 \in 0..LastTick
  BY SubTokensAssumption DEF Ticks
<1>2. [state |-> "none", at |-> 0, revoked |-> FALSE] \in TokenRows
  BY <1>1 DEF TokenRows
<1> QED BY <1>1, <1>2 DEF TokensInit, TokensInv, TokensTypeOK

\* A step on one token that is not there yet, or only comes of age or is ended.
LEMMA OneToken ==
  ASSUME TokensInv, NEW t \in Tokens, NEW row \in TokenRows,
         token' = [token EXCEPT ![t] = row],
         UNCHANGED <<tick, subRevokedAt, revoking, backwards>>,
         row.state # "none", dead' \subseteq Tokens,
         \A u \in dead' : u \in dead \/ (u = t /\ row.revoked),
         t \in dead => row.at = token[t].at /\ (token[t].revoked => row.revoked)
  PROVE  TokensInv'
<1>1. \A u \in Tokens : token'[u] = IF u = t THEN row ELSE token[u]
  BY DEF TokensInv, TokensTypeOK
<1>2. TokensTypeOK'
  BY DEF TokensInv, TokensTypeOK
<1>3. \A u \in dead' : token'[u].state # "none"
  BY <1>1 DEF TokensInv
<1>4. ASSUME ~ backwards, NEW u \in dead'
      PROVE  token'[u].revoked \/ token'[u].at <= subRevokedAt
  BY <1>1, <1>4 DEF TokensInv
<1> QED BY <1>2, <1>3, <1>4 DEF TokensInv

\* Every step of the subscription tokens keeps the invariant.
LEMMA TokensStep == TokensInv /\ [TokensNext]_tokenVars => TokensInv'
<1> SUFFICES ASSUME TokensInv, [TokensNext]_tokenVars PROVE TokensInv'
  OBVIOUS
<1> USE SubTokensAssumption
<1>1. CASE UNCHANGED tokenVars
  BY <1>1 DEF tokenVars, TokensInv, TokensTypeOK
<1>2. CASE ClockTick
  <2>1. tick' \in Ticks
    BY <1>2 DEF ClockTick, TokensInv, TokensTypeOK, Ticks
  <2> QED BY <1>2, <2>1 DEF ClockTick, TokensInv, TokensTypeOK
<1>3. ASSUME NEW t \in Tokens, CreateSubscriptionToken(t) PROVE TokensInv'
  <2> DEFINE row == [token[t] EXCEPT !.state = "issuing", !.at = tick]
  <2>1. row \in TokenRows /\ row.state # "none"
    <3>1. token[t] \in TokenRows /\ tick \in 0..LastTick
      BY DEF TokensInv, TokensTypeOK, Ticks
    <3> QED BY <3>1 DEF TokenRows
  <2>2. t \notin dead
    BY <1>3 DEF CreateSubscriptionToken, TokensInv
  <2>3. /\ token' = [token EXCEPT ![t] = row]
        /\ UNCHANGED <<tick, subRevokedAt, revoking, dead, backwards>>
    BY <1>3 DEF CreateSubscriptionToken, TokensInv, TokensTypeOK
  <2>4. dead' = dead /\ dead \subseteq Tokens
    BY <2>3 DEF TokensInv, TokensTypeOK
  <2> HIDE DEF row
  <2> QED BY <2>1, <2>2, <2>3, <2>4, OneToken
<1>4. ASSUME NEW t \in Tokens, TokenIssued(t) PROVE TokensInv'
  <2> DEFINE row == [token[t] EXCEPT !.state = "issued"]
  <2>1. /\ row \in TokenRows /\ row.state # "none" /\ row.at = token[t].at
        /\ row.revoked = token[t].revoked
    BY DEF TokensInv, TokensTypeOK, TokenRows
  <2>2. /\ token' = [token EXCEPT ![t] = row]
        /\ UNCHANGED <<tick, subRevokedAt, revoking, dead, backwards>>
    BY <1>4 DEF TokenIssued, TokensInv, TokensTypeOK
  <2>3. dead' = dead /\ dead \subseteq Tokens
    BY <2>2 DEF TokensInv, TokensTypeOK
  <2> HIDE DEF row
  <2> QED BY <2>1, <2>2, <2>3, OneToken
<1>5. ASSUME NEW t \in Tokens, RevokeSubscriptionToken(t) PROVE TokensInv'
  <2> DEFINE row == [token[t] EXCEPT !.revoked = TRUE]
  <2>1. token[t] \in TokenRows /\ token[t].state = "issued"
    BY <1>5 DEF RevokeSubscriptionToken, TokensInv, TokensTypeOK
  <2>2. row \in TokenRows /\ row.state # "none" /\ row.at = token[t].at /\ row.revoked
    BY <2>1 DEF TokenRows
  <2>3. /\ token' = [token EXCEPT ![t] = row] /\ dead' = dead \cup {t}
        /\ UNCHANGED <<tick, subRevokedAt, revoking, backwards>>
    BY <1>5 DEF RevokeSubscriptionToken, TokensInv, TokensTypeOK
  <2>4. dead' \subseteq Tokens
    BY <2>3 DEF TokensInv, TokensTypeOK
  <2> HIDE DEF row
  <2> QED BY <2>2, <2>3, <2>4, OneToken
<1>6. ASSUME NEW r \in Revokers, RevokeAllBegins(r) PROVE TokensInv'
  BY <1>6 DEF RevokeAllBegins, TokensInv, TokensTypeOK
<1>7. ASSUME NEW r \in Revokers, RevokeAllUserSubscriptionTokens(r) PROVE TokensInv'
  <2>1. /\ revoking[r] \in Ticks
        /\ subRevokedAt' = revoking[r]
        /\ backwards' = (backwards \/ revoking[r] < subRevokedAt)
        /\ dead' = dead \cup
             {t \in Tokens : token[t].state # "none" /\ token[t].at <= revoking[r]}
        /\ revoking' = [revoking EXCEPT ![r] = None]
        /\ UNCHANGED <<tick, token>>
    BY <1>7 DEF RevokeAllUserSubscriptionTokens, TokensInv, TokensTypeOK
  <2>2. TokensTypeOK'
    BY <2>1 DEF TokensInv, TokensTypeOK, Ticks
  <2>3. \A t \in dead' : token'[t].state # "none"
    BY <2>1 DEF TokensInv
  <2>4. ASSUME ~ backwards', NEW t \in dead'
        PROVE  token'[t].revoked \/ token'[t].at <= subRevokedAt'
    <3>1. ~ backwards /\ ~ (revoking[r] < subRevokedAt)
      BY <2>1, <2>4
    <3>2. CASE token[t].at <= revoking[r]
      BY <2>1, <3>2
    <3>3. CASE t \in dead
      <4>1. token[t].at \in Nat /\ subRevokedAt \in Nat /\ revoking[r] \in Nat
        BY <2>1, <3>3 DEF TokensInv, TokensTypeOK, TokenRows, Ticks
      <4>2. token[t].revoked \/ token[t].at <= subRevokedAt
        BY <3>1, <3>3 DEF TokensInv
      <4>3. CASE token[t].at <= subRevokedAt
        BY <2>1, <3>1, <4>1, <4>3
      <4> QED BY <2>1, <4>2, <4>3
    <3> QED BY <2>1, <2>4, <3>2, <3>3
  <2> QED BY <2>2, <2>3, <2>4 DEF TokensInv
<1> QED BY <1>1, <1>2, <1>3, <1>4, <1>5, <1>6, <1>7 DEF TokensNext

\* A token revoked alone or with all others is not honoured again, whatever is
\* being issued and however many revocations follow, unless the time of one
\* is written over that of one which began later (RevokeAllUserSubscriptionTokens).
THEOREM RevokedIsOut == TokensSpec => []RevokedStaysOut
<1>1. TokensInv => RevokedStaysOut
  <2> SUFFICES ASSUME TokensInv, ~ backwards, NEW t \in dead
               PROVE  ~ ResolveSubscriptionToken(t)
    BY DEF RevokedStaysOut
  <2>1. token[t].at \in Int /\ subRevokedAt \in Int
    BY SubTokensAssumption DEF TokensInv, TokensTypeOK, TokenRows
  <2>2. token[t].revoked \/ token[t].at <= subRevokedAt
    BY DEF TokensInv
  <2> QED BY <2>1, <2>2 DEF ResolveSubscriptionToken
<1> QED BY <1>1, TokensBegin, TokensStep, PTL DEF TokensSpec

-----------------------------------------------------------------------------
(* Mail.                                                                   *)

\* No mail is queued at first.
LEMMA MailBegins == MailInit => MailInv
<1> SUFFICES ASSUME MailInit PROVE MailInv
  OBVIOUS
<1> USE MailAssumption
<1>1. MailTypeOK
  <2>1. [status |-> "none", template |-> None, to |-> None, day |-> 0] \in MailRows
    BY DEF MailRows
  <2>2. mail \in [Mails -> MailRows]
    BY <2>1 DEF MailInit
  <2>3. delivered \in [Mails -> Nat] /\ call \in [Calls -> CallRows \cup {None}]
    BY DEF MailInit
  <2>4. sweep \in [Sweeps -> SUBSET People] /\ doubled \in SUBSET (People \X (0..LastDay))
    <3>1. {} \in SUBSET People /\ {} \in SUBSET (People \X (0..LastDay))
      OBVIOUS
    <3> QED BY <3>1, Zenon DEF MailInit
  <2>5. wired \in BOOLEAN
    BY DEF MailInit
  <2>6. today \in 0..LastDay
    BY DEF MailInit
  <2> QED BY <2>2, <2>3, <2>4, <2>5, <2>6 DEF MailTypeOK
<1>2. \A m \in Mails : mail[m].status = "none" /\ mail[m].template = None
  BY DEF MailInit
<1>3. ClaimedOnce /\ HandedOverOnce
  BY <1>2 DEF MailInit, ClaimedOnce, HandedOverOnce
<1>4. \A p, d : Reminders(p, d) = {}
  BY <1>2 DEF Reminders, Templates
<1>5. FoundOnce /\ RemindedOnce
  BY <1>4 DEF MailInit, FoundOnce, RemindedOnce
<1> QED BY <1>1, <1>3, <1>5 DEF MailInv

\* A step that makes no reminder and unmakes none.
LEMMA RemindersStay ==
  ASSUME MailInv, UNCHANGED <<today, sweep, doubled>>,
         \A m \in Mails :
           \/ /\ mail'[m].to = mail[m].to /\ mail'[m].day = mail[m].day
              /\ mail'[m].template = mail[m].template
           \/ mail[m].template # "expire_remind" /\ mail'[m].template # "expire_remind"
  PROVE  FoundOnce' /\ RemindedOnce'
<1>1. \A p, d : Reminders(p, d)' = Reminders(p, d)
  BY DEF Reminders
<1> QED BY <1>1 DEF MailInv, FoundOnce, RemindedOnce

\* What is queued: a row of its own for each of these people.
LEMMA Enqueued ==
  ASSUME MailTypeOK, NEW people \in SUBSET People, NEW template \in Templates,
         Enqueue(people, template)
  PROVE  /\ mail' \in [Mails -> MailRows]
         /\ \A m \in Mails :
              \/ mail'[m] = mail[m]
              \/ /\ mail[m].status = "none"
                 /\ mail'[m].status = "queued" /\ mail'[m].template = template
                 /\ mail'[m].to \in people /\ mail'[m].day = today
         /\ \A m, n \in Mails :
              (mail'[m] # mail[m] /\ mail'[n] # mail[n] /\ mail'[m].to = mail'[n].to) => m = n
<1>1. PICK slot \in [people -> Free] :
        mail' = [m \in Mails |->
          IF \E p \in people : slot[p] = m
            THEN Row("queued", template, CHOOSE p \in people : slot[p] = m) ELSE mail[m]]
  BY DEF Enqueue
<1> DEFINE taken(m) == \E p \in people : slot[p] = m
           who(m)   == CHOOSE p \in people : slot[p] = m
<1>2. \A m \in Mails : mail'[m] = IF taken(m) THEN Row("queued", template, who(m)) ELSE mail[m]
  BY <1>1
<1>3. \A m \in Mails : taken(m) => who(m) \in people /\ slot[who(m)] = m /\ m \in Free
  OBVIOUS
<1> HIDE DEF who, taken
<1>4. \A m \in Mails : taken(m) => /\ Row("queued", template, who(m)) \in MailRows
                                   /\ mail[m].status = "none"
  BY <1>3 DEF MailTypeOK, MailRows, Row, Free
<1>5. mail' \in [Mails -> MailRows]
  <2>1. \A m \in Mails : mail'[m] \in MailRows
    BY <1>2, <1>4 DEF MailTypeOK
  <2>2. mail' = [m \in Mails |-> mail'[m]]
    BY <1>1
  <2> QED BY <2>1, <2>2
<1>6. ASSUME NEW m \in Mails, mail'[m] # mail[m]
      PROVE  /\ taken(m) /\ mail'[m].status = "queued" /\ mail'[m].template = template
             /\ mail'[m].to = who(m) /\ mail'[m].day = today
  <2>1. taken(m) /\ mail'[m] = Row("queued", template, who(m))
    BY <1>2, <1>6
  <2> QED BY <2>1 DEF Row
<1> QED BY <1>3, <1>4, <1>5, <1>6

\* Rows that wait in the queue have no call and were not handed over.
LEMMA EnqueuedApart ==
  ASSUME MailInv, UNCHANGED <<delivered, call>>,
         mail' \in [Mails -> MailRows],
         \A m \in Mails :
           \/ mail'[m] = mail[m]
           \/ mail[m].status = "none" /\ mail'[m].status = "queued"
  PROVE  ClaimedOnce' /\ HandedOverOnce'
<1>1. \A c \in Calls : call[c] # None => call[c].row \in Mails
  BY DEF MailInv, MailTypeOK, CallRows
<1>2. ClaimedOnce'
  BY <1>1 DEF MailInv, ClaimedOnce
<1>3. HandedOverOnce'
  BY DEF MailInv, HandedOverOnce
<1> QED BY <1>2, <1>3

\* A sweep finds who has no reminder of today.
LEMMA SweepFindsKeeps ==
  ASSUME MailInv, NEW s \in Sweeps, NEW due \in SUBSET People, RemindSweepFinds(s, due)
  PROVE  MailInv'
<1> DEFINE found == ListRemindableExpiringUsers(due)
<1>1. /\ sweep[s] = {} /\ sweep' = [sweep EXCEPT ![s] = found]
      /\ doubled' = doubled \cup {<<p, today>> : p \in found \cap FoundElsewhere(s)}
      /\ UNCHANGED <<mail, delivered, call, wired, today>>
  BY DEF RemindSweepFinds
<1>2. found \in SUBSET People
  BY DEF ListRemindableExpiringUsers
<1>3. \A p \in found : Reminders(p, today) = {}
  BY MailAssumption DEF ListRemindableExpiringUsers, RemindedToday, Reminders, MailInv,
     HandedOverOnce, Templates
<1> HIDE DEF found
<1>4. MailTypeOK'
  <2>1. doubled' \in SUBSET (People \X (0..LastDay))
    BY <1>1, <1>2 DEF MailInv, MailTypeOK
  <2> QED BY <1>1, <1>2, <2>1 DEF MailInv, MailTypeOK
<1>5. ClaimedOnce' /\ HandedOverOnce'
  BY <1>1 DEF MailInv, ClaimedOnce, HandedOverOnce
<1>6. \A p, d : Reminders(p, d)' = Reminders(p, d)
  BY <1>1 DEF Reminders
<1>7. \A x \in Sweeps : sweep'[x] = IF x = s THEN found ELSE sweep[x]
  BY <1>1 DEF MailInv, MailTypeOK
<1>8. FoundOnce'
  <2> SUFFICES ASSUME NEW p \in People, <<p, today>> \notin doubled'
               PROVE  /\ \A x \in Sweeps : p \in sweep'[x] => Reminders(p, today) = {}
                      /\ \A x, y \in Sweeps : (p \in sweep'[x] /\ p \in sweep'[y]) => x = y
    BY <1>1, <1>6 DEF FoundOnce
  <2>1. <<p, today>> \notin doubled /\ ~ (p \in found /\ p \in FoundElsewhere(s))
    BY <1>1
  <2>2. p \in found => \A x \in Sweeps \ {s} : p \notin sweep[x]
    BY <2>1 DEF FoundElsewhere
  <2>3. \A x \in Sweeps : p \in sweep'[x] => Reminders(p, today) = {}
    BY <1>3, <1>7, <2>1 DEF MailInv, FoundOnce
  <2>4. \A x, y \in Sweeps : (p \in sweep'[x] /\ p \in sweep'[y]) => x = y
    BY <1>7, <2>1, <2>2 DEF MailInv, FoundOnce
  <2> QED BY <2>3, <2>4
<1>9. RemindedOnce'
  BY <1>1, <1>6 DEF MailInv, RemindedOnce
<1> QED BY <1>4, <1>5, <1>8, <1>9 DEF MailInv

\* It writes each of them one.
LEMMA SweepQueuesKeeps ==
  ASSUME MailInv, NEW s \in Sweeps, RemindSweepQueues(s)
  PROVE  MailInv'
<1> USE MailAssumption
<1>1. /\ Enqueue(sweep[s], "expire_remind") /\ sweep' = [sweep EXCEPT ![s] = {}]
      /\ UNCHANGED <<delivered, call, wired, today, doubled>>
  BY DEF RemindSweepQueues
<1>2. sweep[s] \in SUBSET People /\ "expire_remind" \in Templates /\ MailTypeOK
  BY DEF MailInv, MailTypeOK, Templates
<1>3. /\ mail' \in [Mails -> MailRows]
      /\ \A m \in Mails :
           \/ mail'[m] = mail[m]
           \/ /\ mail[m].status = "none"
              /\ mail'[m].status = "queued" /\ mail'[m].template = "expire_remind"
              /\ mail'[m].to \in sweep[s] /\ mail'[m].day = today
      /\ \A m, n \in Mails :
           (mail'[m] # mail[m] /\ mail'[n] # mail[n] /\ mail'[m].to = mail'[n].to) => m = n
  BY <1>1, <1>2, Enqueued
<1>4. MailTypeOK'
  BY <1>1, <1>3 DEF MailInv, MailTypeOK
<1>5. ClaimedOnce' /\ HandedOverOnce'
  BY <1>1, <1>3, EnqueuedApart
<1>6. \A x \in Sweeps : sweep'[x] = IF x = s THEN {} ELSE sweep[x]
  BY <1>1 DEF MailInv, MailTypeOK
<1>7. ASSUME NEW m \in Mails, NEW p, NEW d, m \in Reminders(p, d)', mail'[m] # mail[m]
      PROVE  p \in sweep[s] /\ d = today
  BY <1>3, <1>7 DEF Reminders
<1>8. ASSUME NEW m \in Mails, NEW p, NEW d, m \in Reminders(p, d)', mail'[m] = mail[m]
      PROVE  m \in Reminders(p, d)
  BY <1>8 DEF Reminders
<1>9. \A p, d : Reminders(p, d)' \subseteq Mails
  BY DEF Reminders
<1>10. FoundOnce'
  <2> SUFFICES ASSUME NEW p \in People, <<p, today>> \notin doubled
               PROVE  /\ \A x \in Sweeps : p \in sweep'[x] => Reminders(p, today)' = {}
                      /\ \A x, y \in Sweeps : (p \in sweep'[x] /\ p \in sweep'[y]) => x = y
    BY <1>1 DEF FoundOnce, Reminders
  <2>1. \A x, y \in Sweeps : (p \in sweep[x] /\ p \in sweep[y]) => x = y
    BY DEF MailInv, FoundOnce
  <2>2. ASSUME NEW x \in Sweeps, p \in sweep'[x] PROVE Reminders(p, today)' = {}
    <3>1. x # s /\ p \in sweep[x] /\ p \notin sweep[s]
      BY <1>6, <2>1, <2>2
    <3>2. Reminders(p, today) = {}
      BY <3>1 DEF MailInv, FoundOnce
    <3> SUFFICES ASSUME NEW m \in Mails, mail'[m].to = p, mail'[m].day = today',
                        mail'[m].template = "expire_remind"
                 PROVE  FALSE
      BY DEF Reminders
    <3>3. mail'[m] # mail[m]
      BY <1>1, <3>2 DEF Reminders
    <3> QED BY <1>3, <3>1, <3>3
  <2> QED BY <1>6, <2>1, <2>2
<1>11. RemindedOnce'
  <2> SUFFICES ASSUME NEW p \in People, NEW d \in 0..LastDay, <<p, d>> \notin doubled,
                      NEW m \in Reminders(p, d)', NEW n \in Reminders(p, d)'
               PROVE  m = n
    BY <1>1 DEF RemindedOnce
  <2>1. m \in Mails /\ n \in Mails /\ mail'[m].to = p /\ mail'[n].to = p
    BY <1>9 DEF Reminders
  <2>2. CASE mail'[m] = mail[m] /\ mail'[n] = mail[n]
    BY <1>8, <2>1, <2>2 DEF MailInv, RemindedOnce
  <2>3. CASE mail'[m] # mail[m] /\ mail'[n] # mail[n]
    BY <1>3, <2>1, <2>3
  <2>4. CASE mail'[m] # mail[m] \/ mail'[n] # mail[n]
    <3>1. p \in sweep[s] /\ d = today
      BY <1>7, <2>1, <2>4
    <3>2. Reminders(p, d) = {}
      BY <3>1 DEF MailInv, FoundOnce
    <3> QED BY <1>8, <2>1, <2>3, <3>2
  <2> QED BY <2>2, <2>4
<1> QED BY <1>4, <1>5, <1>10, <1>11 DEF MailInv

\* A broadcast queues one mail for each of its audience.
LEMMA BroadcastKeeps ==
  ASSUME MailInv, NEW audience \in SUBSET People, BroadcastAdminMail(audience)
  PROVE  MailInv'
<1> USE MailAssumption
<1>1. /\ Enqueue(audience, "domain_broadcast")
      /\ UNCHANGED <<delivered, call, sweep, wired, today, doubled>>
  BY DEF BroadcastAdminMail
<1>2. /\ mail' \in [Mails -> MailRows]
      /\ \A m \in Mails :
           \/ mail'[m] = mail[m]
           \/ /\ mail[m].status = "none"
              /\ mail'[m].status = "queued" /\ mail'[m].template = "domain_broadcast"
  <2>1. "domain_broadcast" \in Templates /\ MailTypeOK
    BY DEF MailInv, Templates
  <2> QED BY <1>1, <2>1, Enqueued
<1>3. MailTypeOK'
  BY <1>1, <1>2 DEF MailInv, MailTypeOK
<1>4. ClaimedOnce' /\ HandedOverOnce'
  BY <1>1, <1>2, EnqueuedApart
<1>5. \A m \in Mails : mail[m].status = "none" => mail[m].template # "expire_remind"
  BY DEF MailInv, HandedOverOnce, Templates
<1>6. FoundOnce' /\ RemindedOnce'
  BY <1>1, <1>2, <1>5, RemindersStay
<1> QED BY <1>3, <1>4, <1>6 DEF MailInv

\* A code: queued for nobody, or sent at once.
LEMMA VerificationKeeps ==
  ASSUME MailInv, NEW p \in People, NEW m \in Mails,
         \/ IssueVerificationUnwired(p, m)
         \/ \E outcome \in {"sent", "failed"}, taken \in 0..1 :
              IssueVerificationSent(p, m, outcome, taken)
  PROVE  MailInv'
<1> USE MailAssumption
<1>1. PICK outcome \in {"queued", "sent", "failed"}, taken \in 0..1 :
        /\ mail[m].status = "none"
        /\ mail' = [mail EXCEPT ![m] = Row(outcome, "verify_code", p)]
        /\ delivered' = [delivered EXCEPT ![m] = taken]
        /\ outcome = "queued" => taken = 0
        /\ UNCHANGED <<call, sweep, wired, today, doubled>>
  <2>1. CASE IssueVerificationUnwired(p, m)
    <3>1. mail[m].status = "none" /\ delivered[m] = 0
      BY <2>1 DEF IssueVerificationUnwired, Free, MailInv, HandedOverOnce
    <3>2. delivered' = [delivered EXCEPT ![m] = 0]
      BY <2>1, <3>1 DEF IssueVerificationUnwired, MailInv, MailTypeOK
    <3>3. "queued" \in {"queued", "sent", "failed"} /\ 0 \in 0..1
      OBVIOUS
    <3>4. /\ mail' = [mail EXCEPT ![m] = Row("queued", "verify_code", p)]
          /\ UNCHANGED <<call, sweep, wired, today, doubled>>
      BY <2>1 DEF IssueVerificationUnwired
    <3> QED BY <3>1, <3>2, <3>3, <3>4
  <2>2. CASE \E outcome \in {"sent", "failed"}, taken \in 0..1 :
               IssueVerificationSent(p, m, outcome, taken)
    BY <2>2 DEF IssueVerificationSent, Free
  <2> QED BY <2>1, <2>2
<1> DEFINE row == Row(outcome, "verify_code", p)
<1>2. row \in MailRows /\ row.status = outcome /\ row.template = "verify_code"
  BY DEF Row, MailRows, Templates, MailInv, MailTypeOK
<1> HIDE DEF row
<1>3. \A n \in Mails : /\ mail'[n] = IF n = m THEN row ELSE mail[n]
                       /\ delivered'[n] = IF n = m THEN taken ELSE delivered[n]
  BY <1>1 DEF MailInv, MailTypeOK, row
<1>4. MailTypeOK'
  BY <1>1, <1>2 DEF MailInv, MailTypeOK, row
<1>5. \A c \in Calls : call[c] # None => call[c].row \in Mails /\ call[c].row # m
  BY <1>1 DEF MailInv, MailTypeOK, CallRows, ClaimedOnce
<1>6. ClaimedOnce'
  BY <1>1, <1>3, <1>5 DEF MailInv, ClaimedOnce
<1>7. HandedOverOnce'
  BY <1>1, <1>2, <1>3 DEF MailInv, HandedOverOnce
<1>8. mail[m].template = None
  BY <1>1 DEF MailInv, HandedOverOnce
<1>9. FoundOnce' /\ RemindedOnce'
  BY <1>1, <1>2, <1>3, <1>8, RemindersStay DEF Templates
<1> QED BY <1>4, <1>6, <1>7, <1>9 DEF MailInv

\* A claim finds a row that waits, so nobody else has it.
LEMMA RunMailSendKeeps ==
  ASSUME MailInv, NEW c \in Calls, NEW m \in Mails, RunMailSend(c, m)
  PROVE  MailInv'
<1> USE MailAssumption
<1> DEFINE row  == [mail[m] EXCEPT !.status = "sent"]
           work == [row |-> m, phase |-> "claimed"]
<1>1. /\ mail[m].status = "queued" /\ mail' = [mail EXCEPT ![m] = row]
      /\ call' = [call EXCEPT ![c] = work]
      /\ UNCHANGED <<delivered, sweep, wired, today, doubled>>
  BY DEF RunMailSend, ClaimQueuedMail, MailInv, MailTypeOK
<1>2. /\ row \in MailRows /\ row.status = "sent" /\ row.template = mail[m].template
      /\ row.to = mail[m].to /\ row.day = mail[m].day
  BY DEF MailInv, MailTypeOK, MailRows
<1>3. work \in CallRows /\ work.row = m
  BY DEF CallRows
<1> HIDE DEF row, work
<1>4. /\ \A n \in Mails : mail'[n] = IF n = m THEN row ELSE mail[n]
      /\ \A d \in Calls : call'[d] = IF d = c THEN work ELSE call[d]
  BY <1>1 DEF MailInv, MailTypeOK
<1>5. MailTypeOK'
  BY <1>1, <1>2, <1>3 DEF MailInv, MailTypeOK
<1>6. \A d \in Calls : call[d] # None => call[d].row \in Mails /\ call[d].row # m
  BY <1>1 DEF MailInv, MailTypeOK, CallRows, ClaimedOnce
<1>7. ClaimedOnce'
  BY <1>1, <1>2, <1>3, <1>4, <1>6 DEF MailInv, ClaimedOnce, HandedOverOnce
<1>8. HandedOverOnce'
  BY <1>1, <1>2, <1>4 DEF MailInv, HandedOverOnce
<1>9. FoundOnce' /\ RemindedOnce'
  BY <1>1, <1>2, <1>4, RemindersStay
<1> QED BY <1>5, <1>7, <1>8, <1>9 DEF MailInv

\* Its one call hands the message over, or does not.
LEMMA HandOverKeeps ==
  ASSUME MailInv, NEW c \in Calls,
         SendSucceeds(c) \/ \E taken \in 0..1 : SendFails(c, taken)
  PROVE  MailInv'
<1> USE MailAssumption
<1> DEFINE m == call[c].row
<1>1. PICK taken \in 0..1, phase \in {"done", "refused"} :
        /\ call[c] # None /\ call[c].phase = "claimed"
        /\ delivered' = [delivered EXCEPT ![m] = @ + taken]
        /\ call' = [call EXCEPT ![c] = [@ EXCEPT !.phase = phase]]
        /\ UNCHANGED <<mail, sweep, wired, today, doubled>>
  BY DEF SendSucceeds, SendFails
<1>2. call[c] \in CallRows /\ m \in Mails
  BY <1>1 DEF MailInv, MailTypeOK, CallRows
<1> DEFINE work == [call[c] EXCEPT !.phase = phase]
<1>3. work \in CallRows /\ work.row = m /\ work.phase = phase
  BY <1>2 DEF CallRows
<1>4. delivered[m] = 0 /\ mail[m].status \in {"sent", "failed"}
  BY <1>1, <1>2 DEF MailInv, ClaimedOnce
<1> HIDE DEF work
<1>5. /\ \A n \in Mails : delivered'[n] = IF n = m THEN taken ELSE delivered[n]
      /\ \A d \in Calls : call'[d] = IF d = c THEN work ELSE call[d]
  BY <1>1, <1>2, <1>4 DEF MailInv, MailTypeOK, work
<1>6. MailTypeOK'
  BY <1>1, <1>2, <1>3 DEF MailInv, MailTypeOK, work
<1>7. \A d \in Calls : (call[d] # None /\ d # c) => call[d].row \in Mails /\ call[d].row # m
  BY <1>1 DEF MailInv, MailTypeOK, CallRows, ClaimedOnce
<1> HIDE DEF m
<1>8. ClaimedOnce'
  BY <1>1, <1>3, <1>4, <1>5, <1>7 DEF MailInv, ClaimedOnce
<1>9. HandedOverOnce'
  BY <1>1, <1>2, <1>4, <1>5 DEF MailInv, HandedOverOnce
<1>10. FoundOnce' /\ RemindedOnce'
  BY <1>1, RemindersStay
<1> QED BY <1>6, <1>8, <1>9, <1>10 DEF MailInv

\* A row that could not be sent is marked; a call that stops leaves its row.
LEMMA MailSendEndsKeeps ==
  ASSUME MailInv, NEW c \in Calls, MailSendEnds(c) \/ MailSendStops(c)
  PROVE  MailInv'
<1> USE MailAssumption
<1>1. /\ call' = [call EXCEPT ![c] = None] /\ call[c] # None
      /\ UNCHANGED <<delivered, sweep, wired, today, doubled>>
  BY DEF MailSendEnds, MailSendStops
<1>2. call[c].row \in Mails
  BY <1>1 DEF MailInv, MailTypeOK, CallRows
<1>3. /\ mail' \in [Mails -> MailRows]
      /\ \A m \in Mails :
           /\ mail'[m].template = mail[m].template
           /\ mail'[m].to = mail[m].to /\ mail'[m].day = mail[m].day
           /\ mail'[m].status = mail[m].status
                \/ (mail[m].status = "sent" /\ mail'[m].status = "failed")
  <2>1. CASE mail' = mail
    BY <2>1 DEF MailInv, MailTypeOK
  <2>2. CASE mail' = [mail EXCEPT ![call[c].row] = MarkMailSendFailed(@)]
    <3> DEFINE m   == call[c].row
               row == MarkMailSendFailed(mail[m])
    <3>1. mail[m] \in MailRows
      BY <1>2 DEF MailInv, MailTypeOK
    <3>2. /\ row \in MailRows /\ row.template = mail[m].template
          /\ row.to = mail[m].to /\ row.day = mail[m].day
          /\ row.status = mail[m].status \/ (mail[m].status = "sent" /\ row.status = "failed")
      BY <3>1 DEF MarkMailSendFailed, MailRows
    <3>3. mail' = [mail EXCEPT ![m] = row]
      BY <1>2, <2>2 DEF MailInv, MailTypeOK
    <3> HIDE DEF m, row
    <3> QED BY <3>2, <3>3 DEF MailInv, MailTypeOK
  <2> QED BY <2>1, <2>2 DEF MailSendEnds, MailSendStops
<1>4. \A d \in Calls : call'[d] # None => call[d] # None /\ call'[d] = call[d]
                                          /\ call[d].row \in Mails
  BY <1>1 DEF MailInv, MailTypeOK, CallRows
<1>5. MailTypeOK'
  BY <1>1, <1>3 DEF MailInv, MailTypeOK
<1>6. ClaimedOnce'
  BY <1>1, <1>3, <1>4 DEF MailInv, ClaimedOnce
<1>7. HandedOverOnce'
  BY <1>1, <1>3 DEF MailInv, HandedOverOnce
<1>8. FoundOnce' /\ RemindedOnce'
  BY <1>1, <1>3, RemindersStay
<1> QED BY <1>5, <1>6, <1>7, <1>8 DEF MailInv

\* The sender is wired, a day passes, or nothing happens.
LEMMA MailSurroundingsKeep ==
  ASSUME MailInv, Wire \/ NewDay \/ UNCHANGED mailVars
  PROVE  MailInv'
<1> USE MailAssumption
<1>1. UNCHANGED <<mail, delivered, call, sweep, doubled>>
  BY DEF Wire, NewDay, mailVars
<1>2. wired' \in BOOLEAN
  BY DEF Wire, NewDay, mailVars, MailInv, MailTypeOK
<1>3. /\ today' \in 0..LastDay
      /\ today' = today \/ \A s \in Sweeps : sweep[s] = {}
  BY DEF Wire, NewDay, mailVars, MailInv, MailTypeOK
<1>4. MailTypeOK'
  BY <1>1, <1>2, <1>3 DEF MailInv, MailTypeOK
<1>5. ClaimedOnce' /\ HandedOverOnce'
  BY <1>1 DEF MailInv, ClaimedOnce, HandedOverOnce
<1>6. \A p, d : Reminders(p, d)' = Reminders(p, d)
  BY <1>1 DEF Reminders
<1>7. RemindedOnce'
  BY <1>1, <1>6 DEF MailInv, RemindedOnce
<1>8. CASE today' = today
  <2>1. FoundOnce'
    BY <1>1, <1>8 DEF MailInv, FoundOnce, Reminders
  <2> QED BY <1>4, <1>5, <1>7, <2>1 DEF MailInv
<1>9. CASE \A s \in Sweeps : sweep[s] = {}
  <2>1. FoundOnce'
    BY <1>1, <1>9 DEF FoundOnce
  <2> QED BY <1>4, <1>5, <1>7, <2>1 DEF MailInv
<1> QED BY <1>3, <1>8, <1>9

\* Every step of the mail keeps the invariant.
LEMMA MailStep == MailInv /\ [MailNext]_mailVars => MailInv'
<1> SUFFICES ASSUME MailInv, [MailNext]_mailVars PROVE MailInv'
  OBVIOUS
<1>1. CASE Wire \/ NewDay \/ UNCHANGED mailVars
  BY <1>1, MailSurroundingsKeep
<1>2. ASSUME NEW s \in Sweeps, NEW due \in SUBSET People, RemindSweepFinds(s, due)
      PROVE  MailInv'
  BY <1>2, SweepFindsKeeps
<1>3. ASSUME NEW s \in Sweeps, RemindSweepQueues(s) PROVE MailInv'
  BY <1>3, SweepQueuesKeeps
<1>4. ASSUME NEW audience \in SUBSET People, BroadcastAdminMail(audience) PROVE MailInv'
  BY <1>4, BroadcastKeeps
<1>5. ASSUME NEW p \in People, NEW m \in Mails,
             \/ IssueVerificationUnwired(p, m)
             \/ \E outcome \in {"sent", "failed"}, taken \in 0..1 :
                  IssueVerificationSent(p, m, outcome, taken)
      PROVE  MailInv'
  BY <1>5, VerificationKeeps
<1>6. ASSUME NEW c \in Calls, NEW m \in Mails, RunMailSend(c, m) PROVE MailInv'
  BY <1>6, RunMailSendKeeps
<1>7. ASSUME NEW c \in Calls, SendSucceeds(c) \/ \E taken \in 0..1 : SendFails(c, taken)
      PROVE  MailInv'
  BY <1>7, HandOverKeeps
<1>8. ASSUME NEW c \in Calls, MailSendEnds(c) \/ MailSendStops(c) PROVE MailInv'
  BY <1>8, MailSendEndsKeeps
<1> QED BY <1>1, <1>2, <1>3, <1>4, <1>5, <1>6, <1>7, <1>8 DEF MailNext

\* However often mail-send is delivered for a row and wherever it stops, the
\* message goes out once at the most; and of reminders a user has one a day,
\* unless two sweeps found him at once (ClaimQueuedMail, RemindSweepFinds).
THEOREM SentAtMostOnce == MailSpec => []SentOnce
<1>1. MailInv => SentOnce
  <2> SUFFICES ASSUME MailInv PROVE SentOnce
    OBVIOUS
  <2>1. ASSUME NEW p \in People, NEW d \in 0..LastDay, <<p, d>> \notin doubled
        PROVE  Cardinality(Reminders(p, d)) <= 1
    <3>1. CASE Reminders(p, d) = {}
      BY <3>1, FS_EmptySet
    <3>2. CASE Reminders(p, d) # {}
      <4>1. \A m, n \in Reminders(p, d) : m = n
        BY <2>1 DEF MailInv, RemindedOnce
      <4>2. PICK m : m \in Reminders(p, d)
        BY <3>2
      <4>3. Reminders(p, d) = {m}
        BY <4>1, <4>2
      <4> QED BY <4>3, FS_Singleton
    <3> QED BY <3>1, <3>2
  <2> QED BY <2>1 DEF SentOnce, MailInv, HandedOverOnce
<1> QED BY <1>1, MailBegins, MailStep, PTL DEF MailSpec
-----------------------------------------------------------------------------
(* The caches of the signing keys.                                         *)

\* Times are integers, from the one that stands for never.
LEMMA TimesAre ==
  /\ LongAgo \in Times /\ 0 \in Times /\ Times \subseteq Int
  /\ \A t \in Int : t \in Times <=> LongAgo <= t /\ t <= LastClock
  /\ LongAgo \in Int /\ LongAgo <= 0
<1> PICK z \in Int : z = -Refetch
  BY KeyCacheAssumption
<1>1. z <= 0
  BY KeyCacheAssumption
<1>2. LongAgo = z /\ Times = z .. LastClock
  BY DEF LongAgo, Times
<1> QED BY <1>1, <1>2, KeyCacheAssumption

\* An empty cache keeps its distances.
LEMMA KeysBegin == KeysInit => KeysInv
<1> SUFFICES ASSUME KeysInit PROVE KeysInv
  OBVIOUS
<1>1. KeysTypeOK
  <2>1. tries \in Seq(Times) /\ Len(tries) <= 3
    BY DEF KeysInit
  <2>2. /\ published \in [Kids -> {"unknown", "signing", "gone"}]
        /\ since \in [Kids -> Times]
    BY TimesAre DEF KeysInit
  <2> QED BY <2>1, <2>2, TimesAre DEF KeysInit, KeysTypeOK
<1>2. Spaced
  BY DEF KeysInit, Spaced
<1> QED
  BY <1>1, <1>2, TimesAre DEF KeysInit, KeysInv, HeldAsFetched, MissedAreNew

\* What the last three of a sequence and one more are.
LEMMA LastThree ==
  ASSUME NEW S, NEW s \in Seq(S), Len(s) <= 3, NEW c \in S,
         NEW t, t = IF Len(s) < 3 THEN Append(s, c) ELSE Append(Tail(s), c)
  PROVE  \E n \in 0..3, m \in 1..3 :
           /\ n = Len(s) /\ DOMAIN s = 1..n /\ \A i \in 1..n : s[i] \in S
           /\ m = Len(t) /\ DOMAIN t = 1..m /\ \A i \in 1..m : t[i] \in S
           /\ t \in Seq(S) /\ t # <<>> /\ t[m] = c
           /\ m = IF n < 3 THEN n + 1 ELSE 3
           /\ \A i \in 1..(m - 1) :
                /\ n < 3 => t[i] = s[i]
                /\ n = 3 => t[i] = s[i + 1]
<1>1. PICK n \in 0..3 : n = Len(s) /\ DOMAIN s = 1..n /\ \A i \in 1..n : s[i] \in S
  <2>1. Len(s) \in Nat /\ DOMAIN s = 1..Len(s)
    BY LenProperties
  <2>2. ASSUME NEW i \in 1..Len(s) PROVE s[i] \in S
    BY <2>2, ElementOfSeq
  <2> QED BY <2>1, <2>2
<1>2. PICK m \in 1..3 :
        /\ m = Len(t) /\ t \in Seq(S) /\ t # <<>> /\ t[m] = c
        /\ m = IF n < 3 THEN n + 1 ELSE 3
        /\ \A i \in 1..(m - 1) :
             /\ n < 3 => t[i] = s[i]
             /\ n = 3 => t[i] = s[i + 1]
  <2>1. CASE n < 3
    <3>1. t = Append(s, c)
      BY <1>1, <2>1
    <3>2. /\ t \in Seq(S) /\ t # <<>> /\ Len(t) = n + 1
          /\ \A i \in 1..n : t[i] = s[i]
          /\ t[n + 1] = c
      BY <1>1, <3>1, AppendProperties
    <3>3. PICK m \in 1..3 : m = n + 1 /\ m - 1 = n
      BY <2>1
    <3>4. \A i \in 1..(m - 1) : t[i] = s[i]
      BY <3>2, <3>3
    <3>5. \A i \in 1..(m - 1) :
            /\ n < 3 => t[i] = s[i]
            /\ n = 3 => t[i] = s[i + 1]
      <4>1. n # 3
        BY <2>1
      <4> QED BY <4>1, <3>4, Zenon
    <3>6. m = Len(t) /\ t[m] = c
      <4>1. m = n + 1
        BY <3>3
      <4> QED BY <3>2, <4>1, Zenon
    <3>7. m = IF n < 3 THEN n + 1 ELSE 3
      BY <2>1, <3>3
    <3> QED BY <3>2, <3>5, <3>6, <3>7
  <2>2. CASE n = 3
    <3>1. t = Append(Tail(s), c) /\ s # <<>>
      BY <1>1, <2>2
    <3>2. Tail(s) \in Seq(S) /\ Len(Tail(s)) = 2 /\ \A i \in 1..2 : Tail(s)[i] = s[i + 1]
      <4>1. s \in Seq(S) /\ Len(s) = 3
        BY <1>1, <2>2
      <4>2. /\ Tail(s) \in Seq(S) /\ Len(Tail(s)) = Len(s) - 1
            /\ \A i \in 1..Len(Tail(s)) : Tail(s)[i] = s[i + 1]
        BY <3>1, <4>1, HeadTailProperties
      <4>3. Len(Tail(s)) = 2
        BY <4>1, <4>2
      <4> QED BY <4>2, <4>3
    <3>3. PICK u \in Seq(S) : u = Tail(s)
      BY <3>2
    <3>4. /\ t \in Seq(S) /\ t # <<>> /\ Len(t) = Len(u) + 1
          /\ \A i \in 1..Len(u) : t[i] = u[i]
          /\ t[Len(u) + 1] = c
      BY <3>1, <3>3, AppendProperties
    <3>5. Len(t) = 3 /\ t[3] = c /\ \A i \in 1..2 : t[i] = s[i + 1]
      BY <3>2, <3>3, <3>4
    <3> QED BY <2>2, <3>4, <3>5
  <2> QED BY <2>1, <2>2
<1>3. DOMAIN t = 1..m /\ \A i \in 1..m : t[i] \in S
  <2>1. DOMAIN t = 1..Len(t)
    BY <1>2, LenProperties
  <2>2. ASSUME NEW i \in 1..Len(t) PROVE t[i] \in S
    BY <1>2, <2>2, ElementOfSeq
  <2> QED BY <1>2, <2>1, <2>2
<1> QED BY <1>1, <1>2, <1>3

\* A call that may fetch is far enough from the attempts before it.
LEMMA FetchBeginsKeeps ==
  ASSUME KeysInv, NEW k \in Kids, FetchBegins(k)
  PROVE  KeysInv'
<1> USE KeyCacheAssumption
<1>1. /\ tries \in Seq(Times) /\ Len(tries) <= 3
      /\ clock \in Int /\ lastFetch \in Int /\ lastMiss \in Int /\ expires \in Int
      /\ clock \in Times /\ lastMiss \in Times /\ Times \subseteq Int
      /\ lastMiss <= lastFetch /\ lastFetch <= clock /\ 0 <= clock
  BY TimesAre DEF KeysInv, KeysTypeOK
<1>2. /\ fetching' = k /\ lastFetch' = clock
      /\ lastMiss' = IF cache = "IAPKeySet" /\ Fresh THEN clock ELSE lastMiss
      /\ tries' = IF Len(tries) < 3 THEN Append(tries, clock) ELSE Append(Tail(tries), clock)
      /\ UNCHANGED <<cache, keys, expires, clock, published, since, failed>>
  BY DEF FetchBegins
<1>3. ~ Throttled
  BY DEF FetchBegins, Accepts, Refuses
<1>4. /\ lastMiss' \in Times /\ lastMiss' <= lastFetch' /\ lastFetch' <= clock'
      /\ tries' \in Seq(Times) /\ Len(tries') <= 3
  BY <1>1, <1>2
<1>5. KeysTypeOK'
  BY <1>1, <1>2, <1>4 DEF KeysInv, KeysTypeOK
<1>6. Spaced'
  <2>s. PICK s \in Seq(Times), u \in Seq(Times), c \in Times : s = tries /\ u = tries' /\ c = clock
    BY <1>1, <1>4
  <2>l. PICK n \in 0..3, m \in 1..3 :
          /\ n = Len(s) /\ DOMAIN s = 1..n /\ \A i \in 1..n : s[i] \in Times
          /\ m = Len(u) /\ DOMAIN u = 1..m /\ \A i \in 1..m : u[i] \in Times
          /\ u \in Seq(Times) /\ u # <<>> /\ u[m] = c
          /\ m = IF n < 3 THEN n + 1 ELSE 3
          /\ \A i \in 1..(m - 1) :
               /\ n < 3 => u[i] = s[i]
               /\ n = 3 => u[i] = s[i + 1]
    <3>1. Len(s) <= 3 /\ u = IF Len(s) < 3 THEN Append(s, c) ELSE Append(Tail(s), c)
      BY <1>1, <1>2, <2>s
    <3> QED BY <3>1, LastThree
  <2>n. n = Len(tries) /\ DOMAIN tries = 1..n
    BY <2>s, <2>l
  <2>m. m = Len(tries') /\ m = (IF n < 3 THEN n + 1 ELSE 3)
    BY <2>s, <2>l
  <2>1. /\ tries'[m] = clock
        /\ \A i \in 1..(m - 1) :
             /\ n < 3 => tries'[i] = tries[i]
             /\ n = 3 => tries'[i] = tries[i + 1]
    <3>1. u[m] = clock
      BY <2>s, <2>l
    <3>2. \A i \in 1..(m - 1) :
            /\ n < 3 => u[i] = tries[i]
            /\ n = 3 => u[i] = tries[i + 1]
      BY <2>s, <2>l
    <3> QED BY <3>1, <3>2, <2>s
  <2>2. n \in 0..3 /\ \A i \in 1..n : tries[i] \in Int
    BY <2>s, <2>l, <1>1
  <2>6. tries' # <<>> /\ DOMAIN tries' = 1..m
    BY <2>s, <2>l
  <2>0. \A i \in 1..m : tries'[i] \in Int
    BY <2>s, <2>l, <1>1
  <2>3. /\ Refetch \in Int
        /\ n > 0 => tries # <<>> /\ tries[n] = lastFetch
        /\ \A i \in 1..(n - 1) : tries[i] <= tries[i + 1]
        /\ n >= 2 =>
             \/ tries[n] - tries[n - 1] >= Refetch
             \/ cache = "IAPKeySet" /\ lastMiss = lastFetch
    BY <1>1, <2>n DEF KeysInv, Spaced
  <2>4. \A i, j \in 1..n :
          j - i = (IF cache = "IAPKeySet" THEN 2 ELSE 1) => tries[j] - tries[i] >= Refetch
    BY <1>1, <2>n DEF KeysInv, Spaced
  <2>5. IF cache = "IAPKeySet" /\ Fresh THEN clock - lastMiss >= Refetch
        ELSE clock - lastFetch >= Refetch
    BY <1>1, <1>3 DEF Throttled
  <2>7. m >= 2 =>
          /\ tries'[m - 1] = lastFetch
          /\ \/ clock - lastFetch >= Refetch
             \/ cache = "IAPKeySet" /\ lastMiss' = clock
    <3> SUFFICES ASSUME m >= 2
                 PROVE  /\ tries'[m - 1] = lastFetch
                        /\ \/ clock - lastFetch >= Refetch
                           \/ cache = "IAPKeySet" /\ lastMiss' = clock
      OBVIOUS
    <3>1. tries'[m - 1] = lastFetch
      <4>1. CASE n < 3
        BY <4>1, <2>1, <2>2, <2>3, <2>m
      <4>2. CASE n = 3
        BY <4>2, <2>1, <2>2, <2>3, <2>m
      <4> QED BY <4>1, <4>2, <2>2
    <3> QED BY <3>1, <2>5, <1>2
  <2>8. m = 3 /\ cache = "IAPKeySet" => clock - tries'[1] >= Refetch
    <3> SUFFICES ASSUME m = 3, cache = "IAPKeySet" PROVE clock - tries'[1] >= Refetch
      OBVIOUS
    <3>1. n \in 2..3 /\ tries'[1] = tries[n - 1]
      BY <2>1, <2>2, <2>m
    <3>2. tries'[1] \in Int /\ tries'[1] <= lastFetch
      BY <3>1, <2>2, <2>3
    <3>3. lastFetch - tries'[1] >= Refetch \/ lastMiss = lastFetch
      BY <3>1, <2>2, <2>3
    <3> QED BY <3>2, <3>3, <2>5, <2>3, <1>1
  <2>9. \A i \in 1..(m - 1) : tries'[i] <= tries'[i + 1]
    <3> SUFFICES ASSUME NEW i \in 1..(m - 1) PROVE tries'[i] <= tries'[i + 1]
      OBVIOUS
    <3>1. CASE i = m - 1
      BY <3>1, <2>1, <2>6, <2>7, <1>1
    <3>2. CASE i # m - 1
      <4>1. i + 1 \in 1..(m - 1)
        BY <3>2
      <4>2. CASE n < 3
        BY <4>1, <4>2, <2>1, <2>2, <2>3, <2>m
      <4>3. CASE n = 3
        BY <4>1, <4>3, <2>1, <2>2, <2>3, <2>m
      <4> QED BY <4>2, <4>3, <2>2
    <3> QED BY <3>1, <3>2
  <2>10. ASSUME NEW i \in 1..m, NEW j \in 1..m,
                j - i = (IF cache = "IAPKeySet" THEN 2 ELSE 1)
         PROVE  tries'[j] - tries'[i] >= Refetch
    <3>1. CASE j = m /\ cache = "IAPKeySet"
      <4>1. i = 1 /\ m = 3
        BY <3>1, <2>10
      <4> QED BY <4>1, <3>1, <2>8, <2>1
    <3>2. CASE j = m /\ cache # "IAPKeySet"
      <4>1. i = m - 1 /\ m >= 2
        BY <3>2, <2>10
      <4> QED BY <4>1, <3>2, <2>7, <2>1
    <3>3. CASE j # m
      <4>1. i \in 1..(m - 1) /\ j \in 1..(m - 1)
        BY <3>3, <2>10
      <4>2. CASE n < 3
        <5>1. /\ i \in 1..n /\ j \in 1..n
              /\ tries'[i] = tries[i] /\ tries'[j] = tries[j]
          BY <4>1, <4>2, <2>1, <2>2, <2>m
        <5> QED BY <5>1, <2>4, <2>10
      <4>3. CASE n = 3
        <5>1. /\ i + 1 \in 1..n /\ j + 1 \in 1..n
              /\ (j + 1) - (i + 1) = j - i
              /\ tries'[i] = tries[i + 1] /\ tries'[j] = tries[j + 1]
          BY <4>1, <4>3, <2>1, <2>2, <2>m
        <5> QED BY <5>1, <2>4, <2>10
      <4> QED BY <4>2, <4>3, <2>2
    <3> QED BY <3>1, <3>2, <3>3
  <2> QED BY <2>1, <2>m, <2>6, <2>7, <2>9, <2>10, <1>2 DEF Spaced
<1> QED
  BY <1>1, <1>2, <1>4, <1>5, <1>6 DEF KeysInv, HeldAsFetched, MissedAreNew

\* A fetch that ends: the set is the one Google signs with, or what it was.
LEMMA FetchEndsKeeps ==
  ASSUME KeysInv, (\E ttl \in Ttls : KeysFetched(ttl)) \/ FetchFails
  PROVE  KeysInv'
<1> USE KeyCacheAssumption
<1>1. /\ clock \in Int /\ lastFetch \in Int /\ lastMiss \in Int /\ expires \in Int
      /\ UNCHANGED <<cache, lastFetch, lastMiss, clock, published, since, tries>>
      /\ fetching' = None /\ failed' \in BOOLEAN
  <2>1. /\ UNCHANGED <<cache, lastFetch, lastMiss, clock, published, since, tries>>
        /\ fetching' = None /\ failed' \in BOOLEAN
    BY DEF KeysFetched, FetchFails
  <2> QED BY <2>1, TimesAre DEF KeysInv, KeysTypeOK
<1>2. Spaced'
  BY <1>1 DEF KeysInv, Spaced
<1>3. CASE FetchFails
  <2>1. UNCHANGED <<keys, expires>> /\ failed'
    BY <1>3 DEF FetchFails
  <2>2. HeldAsFetched'
    BY <1>1, <2>1 DEF KeysInv, HeldAsFetched
  <2> QED BY <1>1, <1>2, <2>1, <2>2 DEF KeysInv, KeysTypeOK, MissedAreNew
<1>4. ASSUME NEW ttl \in Ttls, KeysFetched(ttl) PROVE KeysInv'
  <2>1. /\ keys' = {k \in Kids : published[k] = "signing"}
        /\ expires' = lastFetch + ttl /\ ~ failed'
    BY <1>4 DEF KeysFetched
  <2>2. ttl \in Int /\ expires' \in Int /\ expires' - ttl = lastFetch
    BY <1>1, <2>1
  <2>3. HeldAsFetched'
    BY <1>1, <2>1, <2>2 DEF HeldAsFetched
  <2>4. MissedAreNew'
    BY <1>1, <2>1 DEF MissedAreNew
  <2>5. KeysTypeOK'
    BY <1>1, <2>1, <2>2 DEF KeysInv, KeysTypeOK
  <2> QED BY <1>1, <1>2, <2>3, <2>4, <2>5 DEF KeysInv
<1> QED BY <1>3, <1>4

\* Google, and time, leave what is held as it was fetched.
LEMMA OutsideKeeps ==
  ASSUME KeysInv, (\E k \in Kids : Rotate(k)) \/ TimePasses \/ UNCHANGED keyVars
  PROVE  KeysInv'
<1> USE KeyCacheAssumption
<1>1. /\ clock \in Times /\ Times \subseteq Int
      /\ clock \in Int /\ lastFetch \in Int /\ lastMiss \in Int /\ expires \in Int
      /\ lastFetch <= clock /\ 0 <= clock
      /\ published \in [Kids -> {"unknown", "signing", "gone"}] /\ since \in [Kids -> Times]
      /\ UNCHANGED <<cache, keys, expires, lastFetch, lastMiss, fetching, failed, tries>>
  BY TimesAre DEF KeysInv, KeysTypeOK, Rotate, TimePasses, keyVars
<1>2. Spaced'
  BY <1>1 DEF KeysInv, Spaced
<1>3. ASSUME NEW k \in Kids, Rotate(k) PROVE KeysInv'
  <2>1. /\ clock' = clock
        /\ published' = [published EXCEPT ![k] = IF @ = "unknown" THEN "signing" ELSE "gone"]
        /\ since' = [since EXCEPT ![k] = clock]
    BY <1>3 DEF Rotate
  <2>2. HeldAsFetched'
    <3>1. ASSUME keys # {}
          PROVE  \E ttl \in Ttls :
                   /\ expires - ttl <= lastFetch
                   /\ (fetching = None /\ ~ failed) => expires - ttl = lastFetch
                   /\ \A x \in keys : published'[x] = "gone" => since'[x] >= expires - ttl
      <4>1. PICK ttl \in Ttls :
              /\ expires - ttl <= lastFetch
              /\ (fetching = None /\ ~ failed) => expires - ttl = lastFetch
              /\ \A x \in keys : published[x] = "gone" => since[x] >= expires - ttl
        BY <3>1 DEF KeysInv, HeldAsFetched
      <4>2. ttl \in Int /\ clock >= expires - ttl /\ keys \subseteq Kids
        BY <1>1, <4>1 DEF KeysInv, KeysTypeOK
      <4>3. ASSUME NEW x \in keys, published'[x] = "gone" PROVE since'[x] >= expires - ttl
        BY <1>1, <2>1, <4>1, <4>2, <4>3
      <4> QED BY <4>1, <4>3
    <3> QED BY <3>1, <1>1 DEF HeldAsFetched
  <2>3. MissedAreNew'
    BY <1>1, <2>1 DEF KeysInv, MissedAreNew
  <2>4. KeysTypeOK'
    BY <1>1, <2>1 DEF KeysInv, KeysTypeOK
  <2> QED BY <1>1, <1>2, <2>1, <2>2, <2>3, <2>4 DEF KeysInv
<1>4. ASSUME TimePasses \/ UNCHANGED keyVars PROVE KeysInv'
  <2>1. clock' \in Times /\ clock' >= clock /\ UNCHANGED <<published, since>>
    BY <1>1, <1>4, TimesAre DEF TimePasses, keyVars, KeysInv, KeysTypeOK
  <2>2. HeldAsFetched' /\ MissedAreNew'
    BY <1>1, <2>1 DEF KeysInv, HeldAsFetched, MissedAreNew
  <2>3. KeysTypeOK'
    BY <1>1, <2>1 DEF KeysInv, KeysTypeOK
  <2>4. lastFetch' <= clock' /\ 0 <= clock' /\ lastMiss' <= lastFetch'
    BY <1>1, <2>1 DEF KeysInv
  <2> QED BY <1>2, <2>2, <2>3, <2>4 DEF KeysInv
<1> QED BY <1>3, <1>4

\* What is held, and when it was fetched, bounds what the caches say.
LEMMA CacheFollows == KeysInv => KeysFollow
<1> SUFFICES ASSUME KeysInv PROVE KeysFollow
  OBVIOUS
<1> USE KeyCacheAssumption
<1>1. /\ clock \in Int /\ lastFetch \in Int /\ lastMiss \in Int /\ expires \in Int
      /\ lastMiss <= lastFetch /\ lastFetch <= clock
      /\ failed \in BOOLEAN /\ Refetch \in Int
      /\ \A k \in Kids : since[k] \in Int
  <2>1. since \in [Kids -> Times] /\ Refetch \in Int
    BY DEF KeysInv, KeysTypeOK
  <2>2. \A k \in Kids : since[k] \in Times
    BY <2>1
  <2> QED BY <2>1, <2>2, TimesAre DEF KeysInv, KeysTypeOK
<1>2. Throttled => clock - lastFetch < Refetch
  BY <1>1 DEF Throttled
<1>3. ASSUME fetching = None, NEW k \in Kids, published[k] = "signing", Refuses(k), ~ Excused
      PROVE  clock - since[k] < Refetch
  <2>1. ~ failed /\ clock - lastFetch < Refetch
    BY <1>1, <1>2, <1>3 DEF Refuses, Excused
  <2>2. since[k] >= lastFetch
    BY <1>3, <2>1 DEF KeysInv, MissedAreNew, Refuses
  <2> QED BY <1>1, <2>1, <2>2
<1>4. ASSUME fetching = None, NEW k \in Kids, published[k] = "gone", Accepts(k), ~ Excused
      PROVE  \E ttl \in Ttls : clock - since[k] <= ttl
  <2>1. PICK ttl \in Ttls :
          /\ (fetching = None /\ ~ failed) => expires - ttl = lastFetch
          /\ \A x \in keys : published[x] = "gone" => since[x] >= expires - ttl
    BY <1>4 DEF KeysInv, HeldAsFetched, Accepts
  <2>2. /\ ttl \in Int /\ Refetch <= ttl
        /\ since[k] >= expires - ttl
    <3>1. k \in keys
      BY <1>4 DEF Accepts
    <3>2. since[k] >= expires - ttl
      BY <1>4, <2>1, <3>1
    <3>3. FetchTimeout \in Nat /\ ttl \in Nat /\ Refetch + FetchTimeout <= ttl
      OBVIOUS
    <3> QED BY <1>1, <3>2, <3>3
  <2>3. Fresh => clock <= expires
    BY <1>1 DEF Fresh
  <2>4. ~ Fresh => clock <= expires
    <3> SUFFICES ASSUME ~ Fresh PROVE clock <= expires
      OBVIOUS
    <3>1. ~ failed /\ clock - lastFetch < Refetch
      BY <1>1, <1>2, <1>4 DEF Accepts, Excused
    <3> QED BY <3>1, <2>1, <2>2, <1>1, <1>4
  <2> QED BY <1>1, <2>2, <2>3, <2>4
<1> QED BY <1>3, <1>4 DEF KeysFollow, KeysInv, Spaced

\* Every step of a cache and of what is around it keeps the invariant.
LEMMA KeysStep == KeysInv /\ [KeysNext]_keyVars => KeysInv'
  BY FetchBeginsKeeps, FetchEndsKeeps, OutsideKeeps DEF KeysNext

\* A signing key is refused, and one given up accepted, no longer than the
\* throttle and the set last, whatever the caches are asked for and however the
\* fetches end (PublicKey, KeyFor).
THEOREM CachesFollow == KeysSpec => []KeysFollow
  BY KeysBegin, KeysStep, CacheFollows, PTL DEF KeysSpec

-----------------------------------------------------------------------------
(* The catalog.                                                            *)

\* Nothing is sold at first.
LEMMA CatalogBegins == CatalogInit => CatalogInv
<1> SUFFICES ASSUME CatalogInit PROVE CatalogInv
  OBVIOUS
<1>1. CatalogTypeOK
  BY DEF CatalogInit, CatalogTypeOK, SaleRows, NoSale, Kinds
<1>2. \A o \in Sales : sale[o] = NoSale
  BY DEF CatalogInit
<1>3. Written = {} /\ \A c \in Coupons : OfCoupon(c) \cap Written = {}
  BY <1>2 DEF Written, Phase, NoSale
<1>4. \A c \in Coupons : coupon[c].used = 0
  BY DEF CatalogInit
<1>5. UsesCounted
  BY <1>3, <1>4, FS_EmptySet DEF UsesCounted
<1>6. IsFiniteSet(Written)
  BY <1>3, FS_EmptySet
<1> QED
  BY <1>1, <1>2, <1>5, <1>6 DEF CatalogInit, CatalogInv, DraftedAsListed, CountedSettled, NoSale

\* What the rows of an order, a plan and a coupon may hold.
LEMMA CatalogRows ==
  ASSUME CatalogInv
  PROVE  /\ \A o \in Sales : sale[o] \in SaleRows
         /\ \A p \in Plans : plan[p].state \in {"none", "listed", "archived"} /\ plan[p].kind \in Kinds
         /\ \A c \in Coupons : coupon[c].used \in Nat /\ coupon[c].limit \in Nat
         /\ \A a \in Clerks : desk[a] # None => desk[a] \in DeskWork
         /\ \A a \in Clerks : (desk[a] # None /\ desk[a].act \in {"edit plan", "archive plan"}) =>
              desk[a].on \in Plans
         /\ \A a \in Clerks : (desk[a] # None /\ desk[a].act \in {"edit coupon", "delete coupon"}) =>
              desk[a].on \in Coupons
<1>1. CatalogTypeOK
  BY DEF CatalogInv
<1>2. \A a \in Clerks : desk[a] # None => desk[a] \in DeskWork
  BY <1>1 DEF CatalogTypeOK
<1> QED BY <1>1, <1>2 DEF CatalogTypeOK, DeskWork

\* An order that is not written leaves the counts as they are.
LEMMA CountsStay ==
  ASSUME CatalogInv, NEW o \in Sales,
         sale' = [sale EXCEPT ![o] = sale'[o]],
         o \in Written <=> o \in Written',
         sale'[o].coupon = sale[o].coupon \/ o \notin Written,
         UNCHANGED coupon
  PROVE  IsFiniteSet(Written') /\ UsesCounted'
<1>1. \A x \in Sales : sale'[x] = IF x = o THEN sale'[o] ELSE sale[x]
  BY DEF CatalogInv, CatalogTypeOK
<1>2. Written' = Written
  BY <1>1 DEF Written, Phase
<1>3. \A c \in Coupons : OfCoupon(c)' \cap Written' = OfCoupon(c) \cap Written
  BY <1>1, <1>2 DEF OfCoupon
<1> QED BY <1>2, <1>3 DEF CatalogInv, UsesCounted

\* A step of one order before it is written, or after.
LEMMA OrderKeeps ==
  ASSUME CatalogInv, NEW o \in Sales,
         \/ \E p \in Plans, c \in Coupons \cup {None} : BuildOrderDraft(o, p, c)
         \/ WriteOrder(o) \/ RollBackOrder(o) \/ CouponRaced(o) \/ OrderCloses(o)
  PROVE  CatalogInv'
<1>1. /\ UNCHANGED <<plan, coupon, desk>>
      /\ sale' = [sale EXCEPT ![o] = sale'[o]]
      /\ sale'[o] \in SaleRows /\ overtaken' \in SUBSET Sales
      /\ \A x \in Sales : x # o => (x \in overtaken' <=> x \in overtaken)
      /\ \A x \in Sales : x # o => sale'[x] = sale[x]
  <2>0. CatalogTypeOK /\ sale[o] \in SaleRows
    BY CatalogRows DEF CatalogInv
  <2>1. ASSUME NEW p \in Plans, NEW c \in Coupons \cup {None}, BuildOrderDraft(o, p, c)
        PROVE  sale'[o] \in SaleRows /\ sale' = [sale EXCEPT ![o] = sale'[o]] /\ UNCHANGED overtaken
    <3>1. PICK row : row = [phase |-> "drafted", plan |-> p, type |-> plan[p].kind,
                            coupon |-> c, discounted |-> c # None]
      OBVIOUS
    <3>2. row \in SaleRows
      BY <3>1, <2>0, CatalogRows DEF SaleRows
    <3>3. sale' = [sale EXCEPT ![o] = row] /\ UNCHANGED overtaken
      BY <2>1, <3>1 DEF BuildOrderDraft
    <3> QED BY <3>2, <3>3, <2>0 DEF CatalogTypeOK
  <2>2. ASSUME WriteOrder(o) \/ OrderCloses(o)
        PROVE  sale'[o] \in SaleRows /\ sale' = [sale EXCEPT ![o] = sale'[o]] /\ UNCHANGED overtaken
    <3>1. PICK phase \in {"writing", "closed"} :
            sale' = [sale EXCEPT ![o] = [sale[o] EXCEPT !.phase = phase]]
      BY <2>2 DEF WriteOrder, OrderCloses
    <3>2. [sale[o] EXCEPT !.phase = phase] \in SaleRows
      BY <2>0 DEF SaleRows
    <3> QED
      BY <3>1, <3>2, <2>0, <2>2 DEF CatalogTypeOK, WriteOrder, OrderCloses
  <2>3. ASSUME RollBackOrder(o) \/ CouponRaced(o)
        PROVE  /\ sale'[o] \in SaleRows /\ sale' = [sale EXCEPT ![o] = sale'[o]]
               /\ overtaken' = overtaken \ {o}
    <3>1. sale' = [sale EXCEPT ![o] = NoSale] /\ overtaken' = overtaken \ {o}
      BY <2>3 DEF RollBackOrder, CouponRaced
    <3>2. NoSale \in SaleRows
      BY DEF NoSale, SaleRows
    <3> QED BY <3>1, <3>2, <2>0 DEF CatalogTypeOK
  <2>4. sale'[o] \in SaleRows /\ sale' = [sale EXCEPT ![o] = sale'[o]]
    BY <2>1, <2>2, <2>3
  <2>5. overtaken' = overtaken \/ overtaken' = overtaken \ {o}
    BY <2>1, <2>2, <2>3
  <2>6. UNCHANGED <<plan, coupon, desk>>
    BY DEF BuildOrderDraft, WriteOrder, RollBackOrder, CouponRaced, OrderCloses
  <2> QED BY <2>0, <2>4, <2>5, <2>6 DEF CatalogTypeOK
<1>2. /\ o \in Written <=> o \in Written'
      /\ sale'[o].coupon = sale[o].coupon \/ o \notin Written
      /\ sale[o].phase = "closed" => sale'[o].phase = "closed"
      /\ sale'[o].phase # "none" =>
           \/ /\ sale'[o].plan \in Plans /\ plan[sale'[o].plan].state = "listed"
              /\ sale'[o].type = plan[sale'[o].plan].kind
              /\ sale'[o].discounted => sale'[o].coupon # None
           \/ /\ sale[o].phase \notin {"none", "closed"}
              /\ sale'[o].plan = sale[o].plan /\ sale'[o].type = sale[o].type
              /\ sale'[o].discounted = sale[o].discounted /\ sale'[o].coupon = sale[o].coupon
              /\ overtaken' = overtaken
  <2>0. sale \in [Sales -> SaleRows]
    BY DEF CatalogInv, CatalogTypeOK
  <2>1. ASSUME NEW p \in Plans, NEW c \in Coupons \cup {None}, BuildOrderDraft(o, p, c)
        PROVE  /\ sale[o].phase = "none" /\ sale'[o].phase = "drafted"
               /\ sale'[o].plan = p /\ plan[p].state = "listed" /\ sale'[o].type = plan[p].kind
               /\ sale'[o].discounted => sale'[o].coupon # None
    BY <2>0, <2>1 DEF BuildOrderDraft
  <2>2. ASSUME WriteOrder(o)
        PROVE  /\ sale[o].phase = "drafted" /\ overtaken' = overtaken
               /\ sale'[o] = [sale[o] EXCEPT !.phase = "writing"]
    BY <2>0, <2>2 DEF WriteOrder
  <2>3. ASSUME OrderCloses(o)
        PROVE  /\ sale[o].phase = "open" /\ overtaken' = overtaken
               /\ sale'[o] = [sale[o] EXCEPT !.phase = "closed"]
    BY <2>0, <2>3 DEF OrderCloses
  <2>4. ASSUME RollBackOrder(o) \/ CouponRaced(o)
        PROVE  sale[o].phase \in {"drafted", "writing"} /\ sale'[o].phase = "none"
    BY <2>0, <2>4 DEF RollBackOrder, CouponRaced, NoSale
  <2>5. sale[o] \in SaleRows
    BY <2>0
  <2>6. ASSUME WriteOrder(o) \/ OrderCloses(o)
        PROVE  /\ sale'[o].plan = sale[o].plan /\ sale'[o].type = sale[o].type
               /\ sale'[o].discounted = sale[o].discounted /\ sale'[o].coupon = sale[o].coupon
    BY <2>2, <2>3, <2>5, <2>6 DEF SaleRows
  <2>7. /\ WriteOrder(o) => sale'[o].phase = "writing"
        /\ OrderCloses(o) => sale'[o].phase = "closed"
    BY <2>2, <2>3, <2>5 DEF SaleRows
  <2> QED BY <2>1, <2>2, <2>3, <2>4, <2>6, <2>7 DEF Written, Phase
<1>3. IsFiniteSet(Written') /\ UsesCounted'
  BY <1>1, <1>2, CountsStay
<1>4. CatalogTypeOK'
  <2>1. sale' \in [Sales -> SaleRows]
    BY <1>1 DEF CatalogInv, CatalogTypeOK
  <2> QED BY <1>1, <2>1 DEF CatalogInv, CatalogTypeOK
<1>5. DraftedAsListed'
  <2> SUFFICES ASSUME NEW x \in Sales, sale'[x].phase # "none"
               PROVE  /\ sale'[x].plan \in Plans /\ plan[sale'[x].plan].state # "none"
                      /\ x \notin overtaken' =>
                           /\ sale'[x].phase # "closed" => plan[sale'[x].plan].state = "listed"
                           /\ sale'[x].type = plan[sale'[x].plan].kind
                           /\ sale'[x].discounted => sale'[x].coupon # None
    BY <1>1 DEF DraftedAsListed
  <2>1. sale[x].phase # "none" =>
          /\ sale[x].plan \in Plans /\ plan[sale[x].plan].state # "none"
          /\ x \notin overtaken =>
               /\ sale[x].phase # "closed" => plan[sale[x].plan].state = "listed"
               /\ sale[x].type = plan[sale[x].plan].kind
               /\ sale[x].discounted => sale[x].coupon # None
    BY DEF CatalogInv, DraftedAsListed
  <2> QED BY <1>1, <1>2, <2>1
<1>6. CountedSettled'
  <2>1. \A x \in Sales : sale[x].phase = "closed" => sale'[x].phase = "closed"
    BY <1>1, <1>2
  <2> QED
    BY <1>1, <2>1, CatalogRows DEF CatalogInv, CountedSettled, DeskWork
<1> QED BY <1>3, <1>4, <1>5, <1>6 DEF CatalogInv

\* The commit counts one use and writes one order.
LEMMA CommitKeeps ==
  ASSUME CatalogInv, NEW o \in Sales, CommitOrder(o)
  PROVE  CatalogInv'
<1>1. /\ sale \in [Sales -> SaleRows] /\ sale[o] \in SaleRows
      /\ sale[o].phase = "writing"
      /\ sale' = [sale EXCEPT ![o] = [sale[o] EXCEPT !.phase = "open"]]
      /\ coupon' = IF sale[o].coupon = None THEN coupon
                   ELSE [coupon EXCEPT ![sale[o].coupon].used = @ + 1]
      /\ UNCHANGED <<plan, desk, overtaken>>
  BY DEF CatalogInv, CatalogTypeOK, CommitOrder
<1>2. /\ \A x \in Sales : x # o => sale'[x] = sale[x]
      /\ sale'[o] \in SaleRows /\ sale'[o].phase = "open"
      /\ sale'[o].plan = sale[o].plan /\ sale'[o].type = sale[o].type
      /\ sale'[o].discounted = sale[o].discounted /\ sale'[o].coupon = sale[o].coupon
  BY <1>1 DEF SaleRows
<1>3. Written' = Written \cup {o} /\ o \notin Written
  BY <1>1, <1>2 DEF Written, Phase
<1>4. IsFiniteSet(Written')
  BY <1>3, FS_AddElement DEF CatalogInv
<1>5. \A c \in Coupons :
        /\ coupon'[c].state = coupon[c].state /\ coupon'[c].limit = coupon[c].limit
        /\ coupon'[c].used = coupon[c].used + (IF c = sale[o].coupon THEN 1 ELSE 0)
  <2> SUFFICES ASSUME NEW c \in Coupons
               PROVE  /\ coupon'[c].state = coupon[c].state /\ coupon'[c].limit = coupon[c].limit
                      /\ coupon'[c].used = coupon[c].used + (IF c = sale[o].coupon THEN 1 ELSE 0)
    OBVIOUS
  <2>1. /\ coupon \in [Coupons -> [state : {"none", "live", "ended", "deleted"},
                                  used : Nat, limit : Nat]]
        /\ coupon[c].used \in Nat /\ c # None
    BY CatalogAssumption, CatalogRows DEF CatalogInv, CatalogTypeOK
  <2>2. CASE c = sale[o].coupon
    <3>1. coupon' = [coupon EXCEPT ![c].used = @ + 1]
      BY <1>1, <2>1, <2>2
    <3> QED BY <2>1, <2>2, <3>1
  <2>3. CASE c # sale[o].coupon
    <3>1. coupon'[c] = coupon[c]
      BY <1>1, <2>1, <2>3
    <3> QED BY <2>1, <2>3, <3>1
  <2> QED BY <2>2, <2>3
<1>6. CatalogTypeOK'
  <2>1. sale' \in [Sales -> SaleRows]
    BY <1>1, <1>2
  <2>2. coupon' \in [Coupons -> [state : {"none", "live", "ended", "deleted"},
                                 used : Nat, limit : Nat]]
    <3>1. CASE sale[o].coupon = None
      BY <1>1, <3>1 DEF CatalogInv, CatalogTypeOK
    <3>2. ASSUME NEW c \in Coupons, sale[o].coupon = c, c # None
          PROVE  coupon' \in [Coupons -> [state : {"none", "live", "ended", "deleted"},
                                          used : Nat, limit : Nat]]
      <4>1. coupon' = [coupon EXCEPT ![c].used = @ + 1]
        BY <1>1, <3>2
      <4>2. coupon \in [Coupons -> [state : {"none", "live", "ended", "deleted"},
                                    used : Nat, limit : Nat]]
        BY DEF CatalogInv, CatalogTypeOK
      <4>3. PICK row : row = [coupon[c] EXCEPT !.used = coupon[c].used + 1]
        OBVIOUS
      <4>4. row \in [state : {"none", "live", "ended", "deleted"}, used : Nat, limit : Nat]
        BY <4>2, <4>3
      <4>5. coupon' = [coupon EXCEPT ![c] = row]
        BY <4>1, <4>3
      <4> QED BY <4>2, <4>4, <4>5
    <3> QED BY <1>1, <3>1, <3>2 DEF SaleRows
  <2> QED BY <1>1, <2>1, <2>2 DEF CatalogInv, CatalogTypeOK
<1>7. UsesCounted'
  <2> SUFFICES ASSUME NEW c \in Coupons, coupon'[c].state # "deleted"
               PROVE  coupon'[c].used = Cardinality(OfCoupon(c)' \cap Written')
    BY DEF UsesCounted
  <2>1. /\ coupon[c].used = Cardinality(OfCoupon(c) \cap Written) /\ coupon[c].used \in Nat
        /\ IsFiniteSet(OfCoupon(c) \cap Written)
    BY <1>5, CatalogRows, FS_Subset DEF CatalogInv, UsesCounted
  <2>2. OfCoupon(c)' = OfCoupon(c)
    BY <1>2 DEF OfCoupon
  <2>3. CASE c = sale[o].coupon
    <3>1. OfCoupon(c)' \cap Written' = (OfCoupon(c) \cap Written) \cup {o}
      BY <1>3, <2>2, <2>3 DEF OfCoupon
    <3>2. Cardinality((OfCoupon(c) \cap Written) \cup {o}) = Cardinality(OfCoupon(c) \cap Written) + 1
      BY <1>3, <2>1, FS_AddElement
    <3> QED BY <1>5, <2>1, <2>3, <3>1, <3>2
  <2>4. CASE c # sale[o].coupon
    <3>1. OfCoupon(c)' \cap Written' = OfCoupon(c) \cap Written
      BY <1>3, <2>2, <2>4 DEF OfCoupon
    <3>2. coupon'[c].used = coupon[c].used
      BY <1>5, <2>1, <2>4
    <3> QED BY <2>1, <3>1, <3>2
  <2> QED BY <2>3, <2>4
<1>8. DraftedAsListed'
  BY <1>1, <1>2 DEF CatalogInv, DraftedAsListed
<1>9. CountedSettled'
  <2>1. \A x \in Sales : sale[x].phase = "closed" => sale'[x].phase = "closed"
    BY <1>1, <1>2
  <2> QED
    BY <1>1, <2>1, CatalogRows DEF CatalogInv, CountedSettled, DeskWork
<1> QED BY <1>4, <1>6, <1>7, <1>8, <1>9 DEF CatalogInv

\* What an admin's operation on a plan or a coupon leaves alone.
LEMMA ClerkKeepsCounts ==
  ASSUME CatalogInv, UNCHANGED <<coupon, sale>>
  PROVE  IsFiniteSet(Written') /\ UsesCounted'
<1>1. Written' = Written /\ \A c \in Coupons : OfCoupon(c)' = OfCoupon(c)
  BY DEF Written, Phase, OfCoupon
<1> QED BY <1>1 DEF CatalogInv, UsesCounted

\* A clerk who is done, or has begun, leaves what the others counted.
LEMMA CountsStand ==
  ASSUME CatalogInv, NEW a \in Clerks,
         \A b \in Clerks : b # a => desk'[b] = desk[b],
         \/ desk'[a] = None
         \/ desk'[a].act = "archive plan" =>
              \A o \in (desk'[a].counted \ desk'[a].unsettled) \cap Sales : sale'[o].phase = "closed",
         \A o \in Sales : sale'[o].phase = sale[o].phase,
         CatalogTypeOK'
  PROVE  CountedSettled'
<1> SUFFICES ASSUME NEW b \in Clerks, desk'[b] # None, desk'[b].act = "archive plan",
                    NEW o \in desk'[b].counted \ desk'[b].unsettled
             PROVE  sale'[o].phase = "closed"
  BY DEF CountedSettled
<1>1. desk'[b] \in DeskWork
  BY DEF CatalogTypeOK
<1>2. o \in Sales
  BY <1>1 DEF DeskWork
<1>3. CASE b = a
  BY <1>2, <1>3
<1>4. CASE b # a
  <2>1. desk[b] = desk'[b]
    BY <1>4
  <2> QED BY <1>2, <2>1 DEF CatalogInv, CountedSettled
<1> QED BY <1>3, <1>4

\* A new plan has no orders.
LEMMA CreatePlanKeeps ==
  ASSUME CatalogInv, NEW p \in Plans, NEW kind \in Kinds, CreateAdminPlan(p, kind)
  PROVE  CatalogInv'
<1>1. /\ plan \in [Plans -> [state : {"none", "listed", "archived"}, kind : Kinds]]
      /\ plan[p].state = "none"
      /\ plan' = [plan EXCEPT ![p] = [state |-> "listed", kind |-> kind]]
      /\ UNCHANGED <<coupon, sale, desk, overtaken>>
  BY DEF CatalogInv, CatalogTypeOK, CreateAdminPlan
<1>2. CatalogTypeOK'
  BY <1>1 DEF CatalogInv, CatalogTypeOK
<1>3. DraftedAsListed'
  <2>1. ASSUME NEW o \in Sales, sale[o].phase # "none"
        PROVE  sale[o].plan \in Plans /\ plan'[sale[o].plan] = plan[sale[o].plan]
    BY <1>1, <2>1 DEF CatalogInv, DraftedAsListed
  <2> QED BY <1>1, <2>1 DEF CatalogInv, DraftedAsListed
<1>4. CountedSettled'
  BY <1>1 DEF CatalogInv, CountedSettled
<1> QED BY <1>1, <1>2, <1>3, <1>4, ClerkKeepsCounts DEF CatalogInv

\* An operation on a plan counts what it finds.
LEMMA GetPlanKeeps ==
  ASSUME CatalogInv, NEW a \in Clerks, NEW p \in Plans, NEW act \in {"edit plan", "archive plan"},
         AdminGetPlanForUpdate(a, p, act)
  PROVE  CatalogInv'
<1>1. PICK work : work =
        [act |-> act, on |-> p, counted |-> OfPlan(p) \cap Written,
         unsettled |-> OfPlan(p) \cap Phase({"open"})]
  OBVIOUS
<1>2. /\ desk' = [desk EXCEPT ![a] = work]
      /\ UNCHANGED <<plan, coupon, sale, overtaken>>
  BY <1>1 DEF AdminGetPlanForUpdate
<1>3. work \in DeskWork
  BY <1>1 DEF DeskWork, OfPlan, Written, Phase
<1>4. desk \in [Clerks -> DeskWork \cup {None}]
  BY DEF CatalogInv, CatalogTypeOK
<1>5. CatalogTypeOK'
  BY <1>2, <1>3, <1>4 DEF CatalogInv, CatalogTypeOK
<1>6. \A o \in work.counted \ work.unsettled : sale[o].phase = "closed"
  BY <1>1 DEF OfPlan, Written, Phase
<1>7. CountedSettled'
  BY <1>2, <1>4, <1>5, <1>6, CountsStand
<1>8. DraftedAsListed'
  BY <1>2 DEF CatalogInv, DraftedAsListed
<1> QED BY <1>2, <1>5, <1>7, <1>8, ClerkKeepsCounts DEF CatalogInv

\* A change of kind meets no order that was counted, an archived plan none that
\* is open; those that were missed are overtaken.
LEMMA ChangePlanKeeps ==
  ASSUME CatalogInv, NEW a \in Clerks,
         (\E kind \in Kinds : UpdateAdminPlan(a, kind)) \/ DeleteAdminPlan(a)
  PROVE  CatalogInv'
<1>1. /\ plan \in [Plans -> [state : {"none", "listed", "archived"}, kind : Kinds]]
      /\ desk \in [Clerks -> DeskWork \cup {None}] /\ overtaken \in SUBSET Sales
  BY DEF CatalogInv, CatalogTypeOK
<1>2. PICK p : p = desk[a].on
  OBVIOUS
<1>3. /\ p \in Plans
      /\ desk' = [desk EXCEPT ![a] = None]
      /\ UNCHANGED <<coupon, sale>>
  BY <1>2, CatalogRows DEF UpdateAdminPlan, DeleteAdminPlan
<1>4. /\ plan' \in [Plans -> [state : {"none", "listed", "archived"}, kind : Kinds]]
      /\ overtaken \subseteq overtaken' /\ overtaken' \in SUBSET Sales
      /\ \A q \in Plans : q # p => plan'[q] = plan[q]
      /\ \A o \in OfPlan(p) \ overtaken' :
           sale[o].phase # "none" /\ o \notin overtaken =>
             /\ plan'[p].kind = plan[p].kind
             /\ sale[o].phase # "closed" => plan'[p].state = plan[p].state
      /\ plan'[p].state = "none" => plan[p].state = "none"
  <2>1. ASSUME NEW kind \in Kinds, UpdateAdminPlan(a, kind)
        PROVE  \/ UNCHANGED <<plan, overtaken>>
               \/ /\ plan' = [plan EXCEPT ![p].kind = kind]
                  /\ kind = plan[p].kind /\ overtaken' = overtaken
               \/ /\ plan' = [plan EXCEPT ![p].kind = kind]
                  /\ overtaken' = overtaken \cup OfPlan(p)
    BY <1>2, <2>1 DEF UpdateAdminPlan, AdminUpdatePlan, PlanMissed
  <2>2. ASSUME DeleteAdminPlan(a)
        PROVE  \/ UNCHANGED <<plan, overtaken>>
               \/ /\ plan' = [plan EXCEPT ![p].state = "archived"]
                  /\ overtaken' = overtaken \cup (OfPlan(p) \ desk[a].counted)
                  /\ desk[a].unsettled = {} /\ desk[a] # None /\ desk[a].act = "archive plan"
    BY <1>2, <2>2 DEF DeleteAdminPlan, AdminArchivePlan, PlanMissed
  <2>3. OfPlan(p) \subseteq Sales
    BY DEF OfPlan
  <2>4. ASSUME UNCHANGED <<plan, overtaken>> PROVE <1>4!:
    BY <1>1, <2>4
  <2>5. ASSUME NEW kind \in Kinds, plan' = [plan EXCEPT ![p].kind = kind],
               \/ kind = plan[p].kind /\ overtaken' = overtaken
               \/ overtaken' = overtaken \cup OfPlan(p)
        PROVE  <1>4!:
    BY <1>1, <1>3, <2>3, <2>5
  <2>6. ASSUME plan' = [plan EXCEPT ![p].state = "archived"],
               overtaken' = overtaken \cup (OfPlan(p) \ desk[a].counted),
               desk[a].unsettled = {}, desk[a] # None, desk[a].act = "archive plan"
        PROVE  <1>4!:
    <3>1. \A o \in OfPlan(p) \ overtaken' : sale[o].phase = "closed"
      BY <2>6 DEF CatalogInv, CountedSettled
    <3> QED BY <1>1, <1>3, <2>3, <2>6, <3>1
  <2> QED BY <2>1, <2>2, <2>4, <2>5, <2>6
<1>5. CatalogTypeOK'
  BY <1>1, <1>3, <1>4 DEF CatalogInv, CatalogTypeOK
<1>6. DraftedAsListed'
  <2> SUFFICES ASSUME NEW o \in Sales, sale[o].phase # "none"
               PROVE  /\ sale[o].plan \in Plans /\ plan'[sale[o].plan].state # "none"
                      /\ o \notin overtaken' =>
                           /\ sale[o].phase # "closed" => plan'[sale[o].plan].state = "listed"
                           /\ sale[o].type = plan'[sale[o].plan].kind
                           /\ sale[o].discounted => sale[o].coupon # None
    BY <1>3 DEF DraftedAsListed
  <2>1. /\ sale[o].plan \in Plans /\ plan[sale[o].plan].state # "none"
        /\ o \notin overtaken =>
             /\ sale[o].phase # "closed" => plan[sale[o].plan].state = "listed"
             /\ sale[o].type = plan[sale[o].plan].kind
             /\ sale[o].discounted => sale[o].coupon # None
    BY DEF CatalogInv, DraftedAsListed
  <2>2. CASE sale[o].plan # p
    BY <1>4, <2>1, <2>2
  <2>3. CASE sale[o].plan = p
    <3>1. o \in OfPlan(p)
      BY <2>3 DEF OfPlan
    <3> QED BY <1>4, <2>1, <2>3, <3>1
  <2> QED BY <2>2, <2>3
<1>7. CountedSettled'
  BY <1>1, <1>3, <1>5, CountsStand
<1> QED BY <1>3, <1>5, <1>6, <1>7, ClerkKeepsCounts DEF CatalogInv

\* A coupon is made, changed or looked at: no order and no use.
LEMMA CouponKeeps ==
  ASSUME CatalogInv,
         \/ \E c \in Coupons, limit \in UseLimits : CreateAdminCoupon(c, limit)
         \/ \E a \in Clerks, c \in Coupons, act \in {"edit coupon", "delete coupon"} :
              AdminGetCouponForUpdate(a, c, act)
         \/ \E a \in Clerks, disabled \in BOOLEAN, limit \in UseLimits :
              UpdateAdminCoupon(a, disabled, limit)
         \/ UNCHANGED catalogVars
  PROVE  CatalogInv'
<1>1. /\ coupon \in [Coupons -> [state : {"none", "live", "ended", "deleted"},
                                 used : Nat, limit : Nat]]
      /\ desk \in [Clerks -> DeskWork \cup {None}] /\ UseLimits \subseteq Nat
  BY CatalogAssumption DEF CatalogInv, CatalogTypeOK
<1>2. UNCHANGED <<plan, sale, overtaken>>
  BY DEF CreateAdminCoupon, AdminGetCouponForUpdate, UpdateAdminCoupon, catalogVars
<1>3. /\ coupon' \in [Coupons -> [state : {"none", "live", "ended", "deleted"},
                                  used : Nat, limit : Nat]]
      /\ \A c \in Coupons : coupon'[c].used = coupon[c].used
      /\ \A c \in Coupons : coupon[c].state = "deleted" => coupon'[c].state = "deleted"
  <2>1. ASSUME NEW c \in Coupons, NEW limit \in UseLimits, CreateAdminCoupon(c, limit)
        PROVE  <1>3!:
    <3>1. /\ coupon[c].state = "none"
          /\ coupon' = [coupon EXCEPT ![c] = [coupon[c] EXCEPT !.state = "live", !.limit = limit]]
      BY <2>1 DEF CreateAdminCoupon
    <3> QED BY <1>1, <3>1
  <2>2. ASSUME NEW a \in Clerks, NEW disabled \in BOOLEAN, NEW limit \in UseLimits,
               UpdateAdminCoupon(a, disabled, limit)
        PROVE  <1>3!:
    <3>1. PICK c : c = desk[a].on
      OBVIOUS
    <3>2. c \in Coupons
      BY <2>2, <3>1, CatalogRows DEF UpdateAdminCoupon
    <3>3. PICK state \in {"live", "ended"} : state = CouponEndsAtForWrite(disabled)
      BY DEF CouponEndsAtForWrite
    <3>4. \/ coupon' = coupon
          \/ /\ coupon[c].state # "deleted"
             /\ coupon' = [coupon EXCEPT ![c] = [coupon[c] EXCEPT !.state = state, !.limit = limit]]
      BY <2>2, <3>1, <3>3 DEF UpdateAdminCoupon
    <3>5. [coupon[c] EXCEPT !.state = state, !.limit = limit]
            \in [state : {"none", "live", "ended", "deleted"}, used : Nat, limit : Nat]
      BY <1>1, <3>2
    <3>6. [coupon[c] EXCEPT !.state = state, !.limit = limit].used = coupon[c].used
      BY <1>1, <3>2
    <3> QED BY <1>1, <3>2, <3>4, <3>5, <3>6
  <2>3. ASSUME coupon' = coupon PROVE <1>3!:
    BY <1>1, <2>3
  <2> QED BY <2>1, <2>2, <2>3 DEF AdminGetCouponForUpdate, catalogVars
<1>4. CatalogTypeOK' /\ CountedSettled'
  <2>1. ASSUME UNCHANGED desk PROVE CatalogTypeOK' /\ CountedSettled'
    BY <1>2, <1>3, <2>1 DEF CatalogInv, CatalogTypeOK, CountedSettled
  <2>2. ASSUME NEW a \in Clerks, NEW row \in DeskWork \cup {None},
               desk' = [desk EXCEPT ![a] = row], row = None \/ row.act # "archive plan"
        PROVE  CatalogTypeOK' /\ CountedSettled'
    <3>1. CatalogTypeOK'
      BY <1>1, <1>2, <1>3, <2>2 DEF CatalogInv, CatalogTypeOK
    <3> QED BY <1>1, <1>2, <2>2, <3>1, CountsStand
  <2>3. ASSUME NEW a \in Clerks, NEW c \in Coupons, NEW act \in {"edit coupon", "delete coupon"},
               AdminGetCouponForUpdate(a, c, act)
        PROVE  CatalogTypeOK' /\ CountedSettled'
    <3>1. PICK row : row = [act |-> act, on |-> c, counted |-> OfCoupon(c) \cap Written,
                            unsettled |-> {}]
      OBVIOUS
    <3>2. row \in DeskWork /\ row.act # "archive plan"
      BY <3>1 DEF DeskWork, OfCoupon
    <3>3. desk' = [desk EXCEPT ![a] = row]
      BY <2>3, <3>1 DEF AdminGetCouponForUpdate
    <3> QED BY <2>2, <3>2, <3>3
  <2>4. ASSUME NEW a \in Clerks, NEW disabled \in BOOLEAN, NEW limit \in UseLimits,
               UpdateAdminCoupon(a, disabled, limit)
        PROVE  CatalogTypeOK' /\ CountedSettled'
    BY <2>2, <2>4 DEF UpdateAdminCoupon
  <2> QED BY <2>1, <2>3, <2>4 DEF CreateAdminCoupon, catalogVars
<1>5. DraftedAsListed'
  BY <1>2 DEF CatalogInv, DraftedAsListed
<1>6. Written' = Written /\ \A c \in Coupons : OfCoupon(c)' = OfCoupon(c)
  BY <1>2 DEF Written, Phase, OfCoupon
<1>7. UsesCounted'
  BY <1>3, <1>6 DEF CatalogInv, UsesCounted
<1> QED BY <1>4, <1>5, <1>6, <1>7 DEF CatalogInv

\* The orders a deleted coupon leaves without one are overtaken.
LEMMA DeleteCouponKeeps ==
  ASSUME CatalogInv, NEW a \in Clerks, DeleteAdminCoupon(a)
  PROVE  CatalogInv'
<1>1. PICK c : c = desk[a].on
  OBVIOUS
<1>2. /\ c \in Coupons
      /\ desk' = [desk EXCEPT ![a] = None] /\ UNCHANGED plan
      /\ \/ UNCHANGED <<coupon, sale, overtaken>>
         \/ /\ coupon' = [coupon EXCEPT ![c] = [coupon[c] EXCEPT !.state = "deleted"]]
            /\ ForgetCoupon(c)
            /\ overtaken' = overtaken \cup (OfCoupon(c) \cap Written)
  BY <1>1, CatalogRows DEF DeleteAdminCoupon, AdminDeleteCoupon
<1>3. /\ sale \in [Sales -> SaleRows] /\ desk \in [Clerks -> DeskWork \cup {None}]
      /\ coupon \in [Coupons -> [state : {"none", "live", "ended", "deleted"},
                                 used : Nat, limit : Nat]]
      /\ \A o \in Sales : sale[o] \in SaleRows
  BY CatalogRows DEF CatalogInv, CatalogTypeOK
<1>4. CASE UNCHANGED <<coupon, sale, overtaken>>
  <2>1. CatalogTypeOK'
    BY <1>2, <1>3, <1>4 DEF CatalogInv, CatalogTypeOK
  <2>2. CountedSettled'
    BY <1>2, <1>3, <1>4, <2>1, CountsStand
  <2>3. DraftedAsListed'
    BY <1>2, <1>4 DEF CatalogInv, DraftedAsListed
  <2> QED BY <1>4, <2>1, <2>2, <2>3, ClerkKeepsCounts DEF CatalogInv
<1>5. CASE /\ coupon' = [coupon EXCEPT ![c] = [coupon[c] EXCEPT !.state = "deleted"]]
           /\ ForgetCoupon(c)
           /\ overtaken' = overtaken \cup (OfCoupon(c) \cap Written)
  <2>1. sale' = [o \in Sales |-> IF o \in OfCoupon(c) \cap Written
                                   THEN [sale[o] EXCEPT !.coupon = None] ELSE sale[o]]
    BY <1>5 DEF ForgetCoupon
  <2>2. \A o \in Sales :
          /\ sale'[o] \in SaleRows
          /\ sale'[o].phase = sale[o].phase /\ sale'[o].plan = sale[o].plan
          /\ sale'[o].type = sale[o].type /\ sale'[o].discounted = sale[o].discounted
          /\ \/ sale'[o].coupon = sale[o].coupon
             \/ o \in overtaken' /\ sale[o].coupon = c /\ sale'[o].coupon = None
    <3> SUFFICES ASSUME NEW o \in Sales
                 PROVE  /\ sale'[o] \in SaleRows
                        /\ sale'[o].phase = sale[o].phase /\ sale'[o].plan = sale[o].plan
                        /\ sale'[o].type = sale[o].type
                        /\ sale'[o].discounted = sale[o].discounted
                        /\ \/ sale'[o].coupon = sale[o].coupon
                           \/ o \in overtaken' /\ sale[o].coupon = c /\ sale'[o].coupon = None
      OBVIOUS
    <3>1. CASE o \in OfCoupon(c) \cap Written
      <4>1. sale'[o] = [sale[o] EXCEPT !.coupon = None] /\ o \in overtaken' /\ sale[o].coupon = c
        BY <1>5, <2>1, <3>1 DEF OfCoupon
      <4> QED BY <1>3, <4>1 DEF SaleRows
    <3>2. CASE o \notin OfCoupon(c) \cap Written
      <4>1. sale'[o] = sale[o]
        BY <2>1, <3>2
      <4> QED BY <1>3, <4>1
    <3> QED BY <3>1, <3>2
  <2>3. sale' \in [Sales -> SaleRows]
    BY <2>1, <2>2
  <2>4. /\ coupon' \in [Coupons -> [state : {"none", "live", "ended", "deleted"},
                                    used : Nat, limit : Nat]]
        /\ coupon'[c].state = "deleted"
        /\ \A d \in Coupons : d # c => coupon'[d] = coupon[d]
    BY <1>2, <1>3, <1>5
  <2>5. CatalogTypeOK'
    <3>1. OfCoupon(c) \cap Written \subseteq Sales
      BY DEF OfCoupon
    <3>2. overtaken' \in SUBSET Sales
      BY <1>5, <3>1 DEF CatalogInv, CatalogTypeOK
    <3>3. plan' = plan /\ desk' \in [Clerks -> DeskWork \cup {None}]
      BY <1>2, <1>3
    <3> QED BY <2>3, <2>4, <3>2, <3>3 DEF CatalogInv, CatalogTypeOK
  <2>6. CountedSettled'
    <3>1. desk'[a] = None /\ \A b \in Clerks : b # a => desk'[b] = desk[b]
      BY <1>2, <1>3
    <3>2. \A o \in Sales : sale'[o].phase = sale[o].phase
      BY <2>2
    <3> QED BY <2>5, <3>1, <3>2, CountsStand
  <2>7. DraftedAsListed'
    BY <1>2, <1>5, <2>2 DEF CatalogInv, DraftedAsListed
  <2>8. Written' = Written
    BY <2>2 DEF Written, Phase
  <2>9. UsesCounted'
    <3> SUFFICES ASSUME NEW d \in Coupons, coupon'[d].state # "deleted"
                 PROVE  coupon'[d].used = Cardinality(OfCoupon(d)' \cap Written')
      BY DEF UsesCounted
    <3>1. d # c /\ d # None
      BY <2>4, CatalogAssumption
    <3>2. OfCoupon(d)' = OfCoupon(d)
      BY <2>2, <3>1 DEF OfCoupon
    <3> QED BY <2>4, <2>8, <3>1, <3>2 DEF CatalogInv, UsesCounted
  <2> QED BY <2>5, <2>6, <2>7, <2>8, <2>9 DEF CatalogInv
<1> QED BY <1>2, <1>4, <1>5

\* Every step of the catalog and of the orders on it keeps the invariant.
LEMMA CatalogStep == CatalogInv /\ [CatalogNext]_catalogVars => CatalogInv'
  BY OrderKeeps, CommitKeeps, CreatePlanKeeps, GetPlanKeeps, ChangePlanKeeps, CouponKeeps,
     DeleteCouponKeeps
  DEF CatalogNext

\* Orders are placed, and plans and coupons edited, by any number of buyers
\* and admins at once: an order nobody's change overtook can be held against
\* its plan and coupon, and every use of a coupon is an order (writeOrder,
\* IncrementCouponUse, AdminGetPlanForUpdate, AdminDeleteCoupon).
THEOREM SoldIsAsListed == CatalogSpec => []SoldAsListed
<1>1. CatalogInv => SoldAsListed
  BY DEF CatalogInv, DraftedAsListed, SoldAsListed, Written, Phase
<1> QED BY <1>1, CatalogBegins, CatalogStep, PTL DEF CatalogSpec

-----------------------------------------------------------------------------
(* The desktop.                                                            *)

\* Nothing runs at first.
LEMMA DesktopBegins == DesktopInit => DesktopInv
<1> SUFFICES ASSUME DesktopInit PROVE DesktopInv
  OBVIOUS
<1> USE DesktopAssumption
<1>1. DesktopTypeOK
  <2>1. core \in [proc : Processes \cup {None}, port : Ports \cup {None},
                  restarts : 0..MaxRestarts, stopping : BOOLEAN]
    BY DEF DesktopInit
  <2>2. process \in [Processes -> ProcessRows]
    BY DEF DesktopInit, ProcessRows, NoProcess
  <2> QED BY <2>1, <2>2 DEF DesktopInit, DesktopTypeOK, ConnectionStatuses
<1>2. /\ \A c \in Operations : operation[c] = None
      /\ \A p \in Processes : process[p] = NoProcess
      /\ core.proc = None
  BY DEF DesktopInit
<1>3. \A stages : \A c \in Operations : ~ At(c, stages)
  BY <1>2 DEF At
<1>4. WaitersWait /\ Waiting = {}
  BY <1>2 DEF WaitersWait, Waiting, NoProcess
<1>5. KeptApart
  BY <1>2, <1>3, <1>4 DEF KeptApart, UnderWayAt, DesktopInit, NoProcess
<1> QED BY <1>1, <1>2, <1>3, <1>4, <1>5 DEF DesktopInv, DesktopInit

\* What the rows hold.
LEMMA DesktopRows ==
  ASSUME DesktopTypeOK
  PROVE  /\ \A p \in Processes :
              /\ process[p] \in ProcessRows
              /\ process[p].state \in {"none", "running", "killed"}
              /\ process[p].port \in Ports \cup {None}
              /\ process[p].waiter \in Operations \cup {"restart", None}
              /\ process[p].backoff \in BOOLEAN
         /\ \A c \in Operations : operation[c] # None =>
              /\ operation[c] \in OperationRows
              /\ operation[c].stage \in Stages /\ operation[c].ends \in {"on", "off", "failed"}
         /\ core.proc \in Processes \cup {None} /\ core.port \in Ports \cup {None}
         /\ core.restarts \in 0..MaxRestarts /\ core.stopping \in BOOLEAN
  BY DEF DesktopTypeOK, ProcessRows, OperationRows

\* The rows of the operations, when one goes on, ends or begins.
LEMMA OneGoes ==
  ASSUME DesktopTypeOK, NEW c \in Operations, NEW stage \in Stages,
         operation[c] # None, Goes(c, stage)
  PROVE  /\ operation' \in [Operations -> OperationRows \cup {None}]
         /\ operation'[c] # None /\ operation'[c].stage = stage
         /\ operation'[c].ends = operation[c].ends
         /\ \A d \in Operations : d # c => operation'[d] = operation[d]
<1>1. operation' = [operation EXCEPT ![c] = [operation[c] EXCEPT !.stage = stage]]
  BY DEF Goes
<1>2. operation \in [Operations -> OperationRows \cup {None}]
  BY DEF DesktopTypeOK
<1>3. PICK row : row = [operation[c] EXCEPT !.stage = stage]
  OBVIOUS
<1>4. /\ row \in OperationRows
      /\ row.stage = stage /\ row.ends = operation[c].ends /\ row # None
  BY <1>2, <1>3, DesktopAssumption DEF OperationRows
<1> QED BY <1>1, <1>2, <1>3, <1>4

\* The row of an operation that begins.
LEMMA OneBegins ==
  ASSUME DesktopTypeOK, NEW c \in Operations, NEW stage \in Stages,
         NEW ends \in {"on", "off", "failed"}, Begins(c, stage, ends)
  PROVE  /\ operation' \in [Operations -> OperationRows \cup {None}]
         /\ operation[c] = None
         /\ operation'[c] # None /\ operation'[c].stage = stage /\ operation'[c].ends = ends
         /\ \A d \in Operations : d # c => operation'[d] = operation[d]
<1>1. PICK row : row = [stage |-> stage, ends |-> ends]
  OBVIOUS
<1>2. operation' = [operation EXCEPT ![c] = row] /\ operation[c] = None
  BY <1>1 DEF Begins
<1>3. row \in OperationRows /\ row.stage = stage /\ row.ends = ends /\ row # None
  BY <1>1, DesktopAssumption DEF OperationRows
<1> QED BY <1>2, <1>3 DEF DesktopTypeOK

\* The row of an operation that ends.
LEMMA OneEnds ==
  ASSUME DesktopTypeOK, NEW c \in Operations, Ends(c)
  PROVE  /\ operation' \in [Operations -> OperationRows \cup {None}]
         /\ operation'[c] = None
         /\ \A d \in Operations : d # c => operation'[d] = operation[d]
  BY DEF DesktopTypeOK, Ends

\* The button: nothing is stopping, or it is entangled.
LEMMA ConnectKeeps ==
  ASSUME DesktopInv, NEW c \in Operations, Connect(c)
  PROVE  DesktopInv'
<1>1. DesktopTypeOK
  BY DEF DesktopInv
<1>2. /\ Begins(c, "loading", "on")
      /\ status' = "starting" /\ lastError' = FALSE
      /\ entangled' = (entangled \/ UnderWayAt({"clearing", "cleared", "stopped"}) # {})
      /\ UNCHANGED <<proxy, core, process>>
  BY DEF Connect
<1>3. /\ operation' \in [Operations -> OperationRows \cup {None}]
      /\ operation[c] = None
      /\ operation'[c] # None /\ operation'[c].stage = "loading" /\ operation'[c].ends = "on"
      /\ \A d \in Operations : d # c => operation'[d] = operation[d]
  BY <1>1, <1>2, OneBegins DEF Stages
<1>4. DesktopTypeOK'
  BY <1>1, <1>2, <1>3 DEF DesktopTypeOK, ConnectionStatuses
<1>5. \A stages : \A d \in Operations :
        At(d, stages)' <=> IF d = c THEN "loading" \in stages ELSE At(d, stages)
  BY <1>3 DEF At
<1>6. \A d \in Operations : At(d, {"clearing", "cleared"})' => operation'[d].ends # "on"
  BY <1>3, <1>5 DEF DesktopInv
<1>7. UnderWayAt({"loading", "checking", "waiting", "applying"})' # {}
  BY <1>5 DEF UnderWayAt
<1>8. WaitersWait'
  <2>1. \A d \in Operations : At(d, {"waiting"}) => At(d, {"waiting"})'
    BY <1>3, <1>5 DEF At
  <2> QED BY <1>2, <2>1 DEF DesktopInv, WaitersWait
<1>9. ASSUME ~ entangled' PROVE KeptApart'
  <2>1. ~ entangled /\ KeptApart
    BY <1>1, <1>2, <1>9 DEF DesktopInv, DesktopTypeOK
  <2>2. UnderWayAt({"clearing", "cleared"})' = {} /\ UnderWayAt({"cleared"})' = {}
    BY <1>1, <1>2, <1>5, <1>9 DEF UnderWayAt, At, DesktopTypeOK
  <2>3. UnderWayAt({"applying"})' = UnderWayAt({"applying"})
    BY <1>3, <1>5 DEF UnderWayAt, At
  <2> QED BY <1>2, <2>1, <2>2, <2>3 DEF KeptApart, Served
<1> QED BY <1>4, <1>6, <1>7, <1>8, <1>9 DEF DesktopInv

\* It fails before the core is started: the window says so.
LEMMA ConnectFailsKeeps ==
  ASSUME DesktopInv, NEW c \in Operations, ConnectFails(c)
  PROVE  DesktopInv'
<1>1. DesktopTypeOK
  BY DEF DesktopInv
<1>2. /\ At(c, {"loading", "checking"})
      /\ Ends(c) /\ status' = "failed" /\ lastError' = TRUE
      /\ UNCHANGED <<proxy, core, process, entangled>>
  BY DEF ConnectFails
<1>3. /\ operation' \in [Operations -> OperationRows \cup {None}]
      /\ operation'[c] = None
      /\ \A d \in Operations : d # c => operation'[d] = operation[d]
  BY <1>1, <1>2, OneEnds
<1>4. DesktopTypeOK'
  BY <1>1, <1>2, <1>3 DEF DesktopTypeOK, ConnectionStatuses
<1>5. \A stages : \A d \in Operations : At(d, stages)' <=> d # c /\ At(d, stages)
  BY <1>3 DEF At
<1>6. \A d \in Operations : At(d, {"clearing", "cleared"})' => operation'[d].ends # "on"
  BY <1>3, <1>5 DEF DesktopInv
<1>7. WaitersWait'
  <2>1. \A d \in Operations : At(d, {"waiting"}) => At(d, {"waiting"})'
    BY <1>2, <1>5 DEF At
  <2> QED BY <1>2, <2>1 DEF DesktopInv, WaitersWait
<1>8. ASSUME ~ entangled' PROVE KeptApart'
  <2>1. ~ entangled /\ KeptApart
    BY <1>2, <1>8 DEF DesktopInv
  <2>2. \A stages : UnderWayAt(stages)' \subseteq UnderWayAt(stages)
    BY <1>5 DEF UnderWayAt
  <2>3. Waiting' = Waiting /\ (Served <=> Served')
    BY <1>2 DEF Waiting, Served
  <2> QED BY <1>2, <2>1, <2>2, <2>3 DEF KeptApart
<1> QED BY <1>2, <1>4, <1>6, <1>7, <1>8 DEF DesktopInv

\* It ends without a link: the error is on record.
LEMMA NoLinkKeeps ==
  ASSUME DesktopInv, NEW c \in Operations, NoLink(c)
  PROVE  DesktopInv'
<1>1. DesktopTypeOK
  BY DEF DesktopInv
<1>2. /\ At(c, {"loading"})
      /\ Ends(c) /\ lastError' = TRUE
      /\ UNCHANGED <<status, proxy, core, process, entangled>>
  BY DEF NoLink
<1>3. /\ operation' \in [Operations -> OperationRows \cup {None}]
      /\ operation'[c] = None
      /\ \A d \in Operations : d # c => operation'[d] = operation[d]
  BY <1>1, <1>2, OneEnds
<1>4. DesktopTypeOK'
  BY <1>1, <1>2, <1>3 DEF DesktopTypeOK, ConnectionStatuses
<1>5. \A stages : \A d \in Operations : At(d, stages)' <=> d # c /\ At(d, stages)
  BY <1>3 DEF At
<1>6. \A d \in Operations : At(d, {"clearing", "cleared"})' => operation'[d].ends # "on"
  BY <1>3, <1>5 DEF DesktopInv
<1>7. WaitersWait'
  <2>1. \A d \in Operations : At(d, {"waiting"}) => At(d, {"waiting"})'
    BY <1>2, <1>5 DEF At
  <2> QED BY <1>2, <2>1 DEF DesktopInv, WaitersWait
<1>8. ASSUME ~ entangled' PROVE KeptApart'
  <2>1. ~ entangled /\ KeptApart
    BY <1>2, <1>8 DEF DesktopInv
  <2>2. \A stages : UnderWayAt(stages)' \subseteq UnderWayAt(stages)
    BY <1>5 DEF UnderWayAt
  <2>3. Waiting' = Waiting /\ (Served <=> Served')
    BY <1>2 DEF Waiting, Served
  <2>4. UnderWayAt({"cleared"})' = UnderWayAt({"cleared"})
    BY <1>2, <1>5 DEF UnderWayAt, At
  <2> QED BY <1>2, <2>1, <2>2, <2>3, <2>4 DEF KeptApart
<1> QED BY <1>2, <1>4, <1>6, <1>7, <1>8 DEF DesktopInv

\* So does a refresh for the tick or the sign-in.
LEMMA RefreshKeeps ==
  ASSUME DesktopInv, refreshSubscription
  PROVE  DesktopInv'
<1>1. /\ lastError' = TRUE
      /\ UNCHANGED <<status, proxy, core, process, operation, entangled>>
  BY DEF refreshSubscription
<1> QED
  BY <1>1 DEF DesktopInv, DesktopTypeOK, At, UnderWayAt, WaitersWait, KeptApart, Served, Waiting,
     Quiet

\* The core is started: no process waits or is to be launched, or it is
\* entangled.
LEMMA StartCoreKeeps ==
  ASSUME DesktopInv, NEW c \in Operations, StartCore(c)
  PROVE  DesktopInv'
<1>1. DesktopTypeOK
  BY DEF DesktopInv
<1>2. /\ At(c, {"loading"}) /\ operation[c] # None
      /\ core' = [core EXCEPT !.stopping = FALSE, !.restarts = 0]
      /\ Goes(c, "checking")
      /\ entangled' = (entangled \/ Waiting # {} \/ \E p \in Processes : process[p].backoff)
      /\ UNCHANGED <<status, lastError, proxy, process>>
  BY DEF StartCore, At
<1>3. /\ operation' \in [Operations -> OperationRows \cup {None}]
      /\ operation'[c] # None /\ operation'[c].stage = "checking"
      /\ operation'[c].ends = operation[c].ends
      /\ \A d \in Operations : d # c => operation'[d] = operation[d]
  BY <1>1, <1>2, OneGoes DEF Stages
<1>4. core'.proc = core.proc
  BY <1>1, <1>2 DEF DesktopTypeOK
<1>5. DesktopTypeOK'
  <2>1. core' \in [proc : Processes \cup {None}, port : Ports \cup {None},
                   restarts : 0..MaxRestarts, stopping : BOOLEAN]
    <3>1. 0 \in 0..MaxRestarts
      BY DesktopAssumption
    <3> QED BY <1>1, <1>2, <3>1 DEF DesktopTypeOK
  <2> QED BY <1>1, <1>2, <1>3, <2>1 DEF DesktopTypeOK
<1>6. \A stages : \A d \in Operations :
        At(d, stages)' <=> IF d = c THEN "checking" \in stages ELSE At(d, stages)
  BY <1>3 DEF At
<1>7. \A d \in Operations : At(d, {"clearing", "cleared"})' => operation'[d].ends # "on"
  BY <1>3, <1>6 DEF DesktopInv
<1>8. UnderWayAt({"loading", "checking", "waiting", "applying"})' # {}
  BY <1>6 DEF UnderWayAt
<1>9. WaitersWait'
  <2>1. \A d \in Operations : At(d, {"waiting"}) => At(d, {"waiting"})'
    BY <1>2, <1>6 DEF At
  <2> QED BY <1>2, <2>1 DEF DesktopInv, WaitersWait
<1>10. ASSUME ~ entangled' PROVE KeptApart'
  <2>1. /\ ~ entangled /\ KeptApart /\ Waiting = {}
        /\ \A p \in Processes : ~ process[p].backoff
    BY <1>1, <1>2, <1>10 DEF DesktopInv, DesktopTypeOK
  <2>2. UnderWayAt(Connecting) # {}
    BY <1>2 DEF UnderWayAt, At, Connecting
  <2>3. UnderWayAt({"clearing", "cleared"}) = {} /\ UnderWayAt({"cleared"}) = {}
    <3>1. UnderWayAt({"clearing", "cleared"}) = {}
      BY <2>1, <2>2 DEF KeptApart
    <3> QED BY <3>1 DEF UnderWayAt, At
  <2>4. UnderWayAt({"clearing", "cleared"})' = {} /\ UnderWayAt({"cleared"})' = {}
    BY <1>6, <2>3 DEF UnderWayAt, At
  <2>5. UnderWayAt({"applying"})' \subseteq UnderWayAt({"applying"})
    BY <1>6 DEF UnderWayAt
  <2>6. ~ Quiet'
    BY <1>3 DEF Quiet
  <2>7. Waiting' = {} /\ (Served <=> Served')
    BY <1>2, <2>1 DEF Waiting, Served
  <2>8. \A p \in Processes : process'[p].waiter # "restart"
    BY <2>7, DesktopAssumption DEF Waiting
  <2>9. /\ status' \in {"on", "degraded"} => Served'
        /\ status' = "off" => proxy' = None
        /\ core'.proc # None => Served'
        /\ UnderWayAt({"applying"})' # {} => proxy' # None
    BY <1>2, <1>4, <2>1, <2>3, <2>5, <2>7 DEF KeptApart
  <2> QED BY <1>2, <2>1, <2>4, <2>8, <2>9 DEF KeptApart
<1> QED BY <1>5, <1>7, <1>8, <1>9, <1>10 DEF DesktopInv

\* A launch of a connect: it waits for the process it starts.
LEMMA LaunchCoreKeeps ==
  ASSUME DesktopInv, NEW c \in Operations, LaunchCore(c)
  PROVE  DesktopInv'
<1>1. DesktopTypeOK
  BY DEF DesktopInv
<1>2. PICK port \in Ports, p \in Processes :
        /\ At(c, {"checking"}) /\ operation[c] # None
        /\ process[p] = NoProcess
        /\ process' = [process EXCEPT
             ![p] = [NoProcess EXCEPT !.state = "running", !.port = port, !.waiter = c]]
        /\ core' = [core EXCEPT !.proc = p, !.port = port]
        /\ Goes(c, "waiting")
        /\ UNCHANGED <<status, lastError, proxy, entangled>>
  BY Zenon DEF LaunchCore, launch, At
<1>3. /\ operation' \in [Operations -> OperationRows \cup {None}]
      /\ operation'[c] # None /\ operation'[c].stage = "waiting"
      /\ operation'[c].ends = operation[c].ends
      /\ \A d \in Operations : d # c => operation'[d] = operation[d]
  BY <1>1, <1>2, OneGoes DEF Stages
<1>4. PICK row : row = [NoProcess EXCEPT !.state = "running", !.port = port, !.waiter = c]
  OBVIOUS
<1>5. /\ process' = [process EXCEPT ![p] = row] /\ row \in ProcessRows
      /\ row.waiter = c /\ ~ row.backoff
  <2>1. row \in ProcessRows /\ row.waiter = c /\ ~ row.backoff
    BY <1>4 DEF NoProcess, ProcessRows
  <2> QED BY <1>2, <1>4, <2>1
<1>6. /\ process'[p] = row
      /\ \A q \in Processes : q # p => process'[q] = process[q]
      /\ process[p].waiter = None
  BY <1>1, <1>2, <1>5 DEF DesktopTypeOK, NoProcess
<1>7. core'.stopping = core.stopping
  BY <1>1, <1>2 DEF DesktopTypeOK
<1>8. DesktopTypeOK'
  <2>1. core' \in [proc : Processes \cup {None}, port : Ports \cup {None},
                   restarts : 0..MaxRestarts, stopping : BOOLEAN]
    BY <1>1, <1>2 DEF DesktopTypeOK
  <2>2. process' \in [Processes -> ProcessRows]
    BY <1>1, <1>5 DEF DesktopTypeOK
  <2> QED BY <1>1, <1>2, <1>3, <2>1, <2>2 DEF DesktopTypeOK
<1>9. \A stages : \A d \in Operations :
        At(d, stages)' <=> IF d = c THEN "waiting" \in stages ELSE At(d, stages)
  BY <1>3 DEF At
<1>10. \A d \in Operations : At(d, {"clearing", "cleared"})' => operation'[d].ends # "on"
  BY <1>3, <1>9 DEF DesktopInv
<1>11. UnderWayAt({"loading", "checking", "waiting", "applying"})' # {}
  BY <1>9 DEF UnderWayAt
<1>12. WaitersWait'
  <2> SUFFICES ASSUME NEW q \in Processes, NEW w \in Operations, process'[q].waiter = w
               PROVE  /\ At(w, {"waiting"})'
                      /\ \A r \in Processes : process'[r].waiter = w => r = q
    BY DEF WaitersWait, At
  <2>1. \A r \in Processes : process[r].waiter # c
    BY <1>2 DEF DesktopInv, WaitersWait, At
  <2>2. CASE q = p
    BY <1>5, <1>6, <1>9, <2>1, <2>2
  <2>3. CASE q # p
    <3>1. process[q].waiter = w /\ w # c
      BY <1>6, <2>1, <2>3
    <3>2. /\ At(w, {"waiting"})
          /\ \A r \in Processes : process[r].waiter = w => r = q
      BY <3>1 DEF DesktopInv, WaitersWait
    <3> QED BY <1>5, <1>6, <1>9, <3>1, <3>2
  <2> QED BY <2>2, <2>3
<1>13. ASSUME ~ entangled' PROVE KeptApart'
  <2>1. ~ entangled /\ KeptApart
    BY <1>2, <1>13 DEF DesktopInv
  <2>2. UnderWayAt(Connecting) # {}
    BY <1>2 DEF UnderWayAt, At, Connecting
  <2>3. UnderWayAt({"clearing", "cleared"}) = {}
    BY <2>1, <2>2 DEF KeptApart
  <2>4. UnderWayAt({"clearing", "cleared"})' = {} /\ UnderWayAt({"cleared"})' = {}
    BY <1>9, <2>3 DEF UnderWayAt, At
  <2>5. UnderWayAt({"applying"})' \subseteq UnderWayAt({"applying"})
    BY <1>9 DEF UnderWayAt
  <2>6. ~ Quiet' /\ Served'
    BY <1>3, <1>5, <1>6 DEF Quiet, Served
  <2> QED BY <1>2, <2>1, <2>4, <2>5, <2>6 DEF KeptApart
<1> QED BY <1>8, <1>10, <1>11, <1>12, <1>13 DEF DesktopInv

\* It is connected, through the proxy it set.
LEMMA ConnectedKeeps ==
  ASSUME DesktopInv, NEW c \in Operations, Connected(c)
  PROVE  DesktopInv'
<1>1. DesktopTypeOK
  BY DEF DesktopInv
<1>2. /\ At(c, {"applying"})
      /\ Ends(c) /\ status' = "on" /\ lastError' = FALSE
      /\ UNCHANGED <<proxy, core, process, entangled>>
  BY DEF Connected
<1>3. /\ operation' \in [Operations -> OperationRows \cup {None}]
      /\ operation'[c] = None
      /\ \A d \in Operations : d # c => operation'[d] = operation[d]
  BY <1>1, <1>2, OneEnds
<1>4. DesktopTypeOK'
  BY <1>1, <1>2, <1>3 DEF DesktopTypeOK, ConnectionStatuses
<1>5. \A stages : \A d \in Operations : At(d, stages)' <=> d # c /\ At(d, stages)
  BY <1>3 DEF At
<1>6. \A d \in Operations : At(d, {"clearing", "cleared"})' => operation'[d].ends # "on"
  BY <1>3, <1>5 DEF DesktopInv
<1>7. WaitersWait'
  <2>1. \A d \in Operations : At(d, {"waiting"}) => At(d, {"waiting"})'
    BY <1>2, <1>5 DEF At
  <2> QED BY <1>2, <2>1 DEF DesktopInv, WaitersWait
<1>8. ASSUME ~ entangled' PROVE KeptApart'
  <2>1. ~ entangled /\ KeptApart
    BY <1>2, <1>8 DEF DesktopInv
  <2>2. \A stages : UnderWayAt(stages)' \subseteq UnderWayAt(stages)
    BY <1>5 DEF UnderWayAt
  <2>3. Waiting' = Waiting /\ (Served <=> Served')
    BY <1>2 DEF Waiting, Served
  <2>4. proxy # None
    BY <1>2, <2>1 DEF KeptApart, UnderWayAt
  <2> QED BY <1>2, <2>1, <2>2, <2>3, <2>4 DEF KeptApart, Served
<1> QED BY <1>2, <1>4, <1>6, <1>7, <1>8 DEF DesktopInv

\* The proxy is unset: the core is stopped, and no launch will set it again.
LEMMA ClearProxyKeeps ==
  ASSUME DesktopInv, NEW c \in Operations, ClearProxy(c)
  PROVE  DesktopInv'
<1>1. DesktopTypeOK
  BY DEF DesktopInv
<1>2. /\ At(c, {"clearing"}) /\ operation[c] # None
      /\ proxy' = None
      /\ Goes(c, "cleared")
      /\ UNCHANGED <<status, lastError, core, process, entangled>>
  BY DEF ClearProxy, At
<1>3. /\ operation' \in [Operations -> OperationRows \cup {None}]
      /\ operation'[c] # None /\ operation'[c].stage = "cleared"
      /\ operation'[c].ends = operation[c].ends
      /\ \A d \in Operations : d # c => operation'[d] = operation[d]
  BY <1>1, <1>2, OneGoes DEF Stages
<1>4. DesktopTypeOK'
  BY <1>1, <1>2, <1>3 DEF DesktopTypeOK
<1>5. \A stages : \A d \in Operations :
        At(d, stages)' <=> IF d = c THEN "cleared" \in stages ELSE At(d, stages)
  BY <1>3 DEF At
<1>6. \A d \in Operations : At(d, {"clearing", "cleared"})' => operation'[d].ends # "on"
  BY <1>2, <1>3, <1>5 DEF DesktopInv, At
<1>7. status' = "starting" /\ ~ lastError' =>
        UnderWayAt({"loading", "checking", "waiting", "applying"})' # {}
  <2>1. \A d \in Operations : At(d, {"loading", "checking", "waiting", "applying"}) =>
          At(d, {"loading", "checking", "waiting", "applying"})'
    BY <1>2, <1>5 DEF At
  <2> QED BY <1>2, <2>1 DEF DesktopInv, UnderWayAt
<1>8. WaitersWait'
  <2>1. \A d \in Operations : At(d, {"waiting"}) => At(d, {"waiting"})'
    BY <1>2, <1>5 DEF At
  <2> QED BY <1>2, <2>1 DEF DesktopInv, WaitersWait
<1>9. ASSUME ~ entangled' PROVE KeptApart'
  <2>1. ~ entangled /\ KeptApart
    BY <1>2, <1>9 DEF DesktopInv
  <2>2. UnderWayAt({"clearing", "cleared"}) # {}
    BY <1>2 DEF UnderWayAt, At
  <2>3. UnderWayAt(Connecting) = {} /\ Waiting = {} /\ core.stopping /\ core.proc = None
    BY <2>1, <2>2 DEF KeptApart
  <2>4. UnderWayAt(Connecting)' = {} /\ UnderWayAt({"applying"})' = {}
    BY <1>5, <2>3 DEF UnderWayAt, At, Connecting
  <2>5. Waiting' = {} /\ ~ Quiet'
    BY <1>2, <1>3, <2>3 DEF Waiting, Quiet
  <2>6. \A p \in Processes : process[p].waiter # "restart"
    BY <2>3, DesktopAssumption DEF Waiting
  <2>7. UnderWayAt({"cleared"})' # {}
    BY <1>5 DEF UnderWayAt
  <2> QED BY <1>2, <2>3, <2>4, <2>5, <2>6, <2>7 DEF KeptApart
<1> QED BY <1>4, <1>6, <1>7, <1>8, <1>9 DEF DesktopInv

\* It is disconnected, with the proxy unset.
LEMMA DisconnectedKeeps ==
  ASSUME DesktopInv, NEW c \in Operations, Disconnected(c)
  PROVE  DesktopInv'
<1>1. DesktopTypeOK
  BY DEF DesktopInv
<1>2. /\ At(c, {"cleared"})
      /\ Ends(c) /\ status' = operation[c].ends /\ lastError' \in BOOLEAN
      /\ UNCHANGED <<proxy, core, process, entangled>>
  BY DEF Disconnected
<1>3. /\ operation' \in [Operations -> OperationRows \cup {None}]
      /\ operation'[c] = None
      /\ \A d \in Operations : d # c => operation'[d] = operation[d]
  BY <1>1, <1>2, OneEnds
<1>4. status' \in {"off", "failed"}
  <2>1. At(c, {"clearing", "cleared"}) /\ operation[c] # None
    BY <1>2 DEF At
  <2> QED BY <1>1, <1>2, <2>1, DesktopRows DEF DesktopInv
<1>5. DesktopTypeOK'
  BY <1>1, <1>2, <1>3, <1>4 DEF DesktopTypeOK, ConnectionStatuses
<1>6. \A stages : \A d \in Operations : At(d, stages)' <=> d # c /\ At(d, stages)
  BY <1>3 DEF At
<1>7. \A d \in Operations : At(d, {"clearing", "cleared"})' => operation'[d].ends # "on"
  BY <1>3, <1>6 DEF DesktopInv
<1>8. WaitersWait'
  <2>1. \A d \in Operations : At(d, {"waiting"}) => At(d, {"waiting"})'
    BY <1>2, <1>6 DEF At
  <2> QED BY <1>2, <2>1 DEF DesktopInv, WaitersWait
<1>9. ASSUME ~ entangled' PROVE KeptApart'
  <2>1. ~ entangled /\ KeptApart
    BY <1>2, <1>9 DEF DesktopInv
  <2>2. \A stages : UnderWayAt(stages)' \subseteq UnderWayAt(stages)
    BY <1>6 DEF UnderWayAt
  <2>3. Waiting' = Waiting /\ (Served <=> Served')
    BY <1>2 DEF Waiting, Served
  <2>4. proxy = None
    BY <1>2, <2>1 DEF KeptApart, UnderWayAt
  <2> QED BY <1>2, <1>4, <2>1, <2>2, <2>3, <2>4 DEF KeptApart
<1> QED BY <1>4, <1>5, <1>7, <1>8, <1>9 DEF DesktopInv

\* The core is to be started with other rules.
LEMMA ReconnectKeeps ==
  ASSUME DesktopInv, NEW c \in Operations, Reconnect(c)
  PROVE  DesktopInv'
<1>1. DesktopTypeOK
  BY DEF DesktopInv
<1>2. /\ At(c, {"stopped"}) /\ operation[c] # None
      /\ Goes(c, "loading") /\ status' = "starting" /\ lastError' = FALSE
      /\ UNCHANGED <<proxy, core, process, entangled>>
  BY DEF Reconnect, At
<1>3. /\ operation' \in [Operations -> OperationRows \cup {None}]
      /\ operation'[c] # None /\ operation'[c].stage = "loading"
      /\ operation'[c].ends = operation[c].ends
      /\ \A d \in Operations : d # c => operation'[d] = operation[d]
  BY <1>1, <1>2, OneGoes DEF Stages
<1>4. DesktopTypeOK'
  BY <1>1, <1>2, <1>3 DEF DesktopTypeOK, ConnectionStatuses
<1>5. \A stages : \A d \in Operations :
        At(d, stages)' <=> IF d = c THEN "loading" \in stages ELSE At(d, stages)
  BY <1>3 DEF At
<1>6. \A d \in Operations : At(d, {"clearing", "cleared"})' => operation'[d].ends # "on"
  BY <1>3, <1>5 DEF DesktopInv
<1>7. UnderWayAt({"loading", "checking", "waiting", "applying"})' # {}
  BY <1>5 DEF UnderWayAt
<1>8. WaitersWait'
  <2>1. \A d \in Operations : At(d, {"waiting"}) => At(d, {"waiting"})'
    BY <1>2, <1>5 DEF At
  <2> QED BY <1>2, <2>1 DEF DesktopInv, WaitersWait
<1>9. ASSUME ~ entangled' PROVE KeptApart'
  <2>1. ~ entangled /\ KeptApart
    BY <1>2, <1>9 DEF DesktopInv
  <2>2. UnderWayAt(Connecting) # {}
    BY <1>2 DEF UnderWayAt, At, Connecting
  <2>3. UnderWayAt({"clearing", "cleared"}) = {}
    BY <2>1, <2>2 DEF KeptApart
  <2>4. UnderWayAt({"clearing", "cleared"})' = {} /\ UnderWayAt({"cleared"})' = {}
    BY <1>5, <2>3 DEF UnderWayAt, At
  <2>5. UnderWayAt({"applying"})' \subseteq UnderWayAt({"applying"})
    BY <1>5 DEF UnderWayAt
  <2>6. Waiting' = Waiting /\ (Served <=> Served')
    BY <1>2 DEF Waiting, Served
  <2> QED BY <1>2, <2>1, <2>4, <2>5, <2>6 DEF KeptApart
<1> QED BY <1>4, <1>6, <1>7, <1>8, <1>9 DEF DesktopInv

\* A stop kills the process the core holds; who waits for it still does.
LEMMA StopStops ==
  ASSUME DesktopTypeOK, Stop
  PROVE  /\ core' \in [proc : Processes \cup {None}, port : Ports \cup {None},
                       restarts : 0..MaxRestarts, stopping : BOOLEAN]
         /\ core'.proc = None /\ core'.stopping
         /\ process' \in [Processes -> ProcessRows]
         /\ \A p \in Processes : /\ process'[p].waiter = process[p].waiter
                                 /\ process'[p].backoff = process[p].backoff
<1>1. core' = [core EXCEPT !.stopping = TRUE, !.proc = None, !.port = None]
  BY DEF Stop
<1>2. ASSUME NEW p \in Processes
      PROVE  /\ process'[p] \in ProcessRows
             /\ process'[p].waiter = process[p].waiter
             /\ process'[p].backoff = process[p].backoff
  <2>1. process[p] \in ProcessRows
    BY DesktopRows
  <2>2. \/ process'[p] = process[p]
        \/ process'[p] = [process[p] EXCEPT !.state = "killed"]
    BY DEF Stop
  <2> QED BY <2>1, <2>2 DEF ProcessRows
<1>3. process' \in [Processes -> ProcessRows]
  BY <1>2 DEF Stop
<1> QED BY <1>1, <1>2, <1>3 DEF DesktopTypeOK

\* The core is stopped: no one connects or waits, or it is entangled.
LEMMA DisconnectKeeps ==
  ASSUME DesktopInv, NEW c \in Operations, NEW ends \in {"off", "failed"}, Disconnect(c, ends)
  PROVE  DesktopInv'
<1>1. DesktopTypeOK
  BY DEF DesktopInv
<1>2. /\ Begins(c, "clearing", ends) /\ Stop
      /\ entangled' = (entangled \/ UnderWayAt(Connecting) # {} \/ Waiting # {})
      /\ UNCHANGED <<status, lastError, proxy>>
  BY DEF Disconnect
<1>3. /\ operation' \in [Operations -> OperationRows \cup {None}]
      /\ operation[c] = None
      /\ operation'[c] # None /\ operation'[c].stage = "clearing" /\ operation'[c].ends = ends
      /\ \A d \in Operations : d # c => operation'[d] = operation[d]
  BY <1>1, <1>2, OneBegins DEF Stages
<1>4. /\ core' \in [proc : Processes \cup {None}, port : Ports \cup {None},
                    restarts : 0..MaxRestarts, stopping : BOOLEAN]
      /\ core'.proc = None /\ core'.stopping
      /\ process' \in [Processes -> ProcessRows]
      /\ \A p \in Processes : /\ process'[p].waiter = process[p].waiter
                              /\ process'[p].backoff = process[p].backoff
  BY <1>1, <1>2, StopStops
<1>5. DesktopTypeOK'
  BY <1>1, <1>2, <1>3, <1>4 DEF DesktopTypeOK
<1>6. \A stages : \A d \in Operations :
        At(d, stages)' <=> IF d = c THEN "clearing" \in stages ELSE At(d, stages)
  BY <1>3 DEF At
<1>7. \A d \in Operations : At(d, {"clearing", "cleared"})' => operation'[d].ends # "on"
  BY <1>3, <1>6 DEF DesktopInv
<1>8. \A stages : \A d \in Operations : At(d, stages) => At(d, stages)'
  BY <1>3, <1>6 DEF At
<1>9. status' = "starting" /\ ~ lastError' =>
        UnderWayAt({"loading", "checking", "waiting", "applying"})' # {}
  BY <1>2, <1>8 DEF DesktopInv, UnderWayAt
<1>10. WaitersWait'
  BY <1>4, <1>8 DEF DesktopInv, WaitersWait
<1>11. ASSUME ~ entangled' PROVE KeptApart'
  <2>1. ~ entangled /\ KeptApart /\ UnderWayAt(Connecting) = {} /\ Waiting = {}
    BY <1>1, <1>2, <1>11 DEF DesktopInv, DesktopTypeOK
  <2>2. UnderWayAt(Connecting)' = {} /\ UnderWayAt({"applying"})' = {}
    BY <1>6, <2>1 DEF UnderWayAt, At, Connecting
  <2>3. UnderWayAt({"cleared"})' = UnderWayAt({"cleared"})
    BY <1>3, <1>6 DEF UnderWayAt, At
  <2>4. Waiting' = {} /\ ~ Quiet'
    BY <1>3, <1>4, <2>1 DEF Waiting, Quiet
  <2>5. \A p \in Processes : process'[p].waiter # "restart"
    BY <2>4, DesktopAssumption DEF Waiting
  <2>6. Served' <=> Served
    BY <1>2, <1>4 DEF Served
  <2> QED BY <1>2, <1>4, <2>1, <2>2, <2>3, <2>4, <2>5, <2>6 DEF KeptApart
<1> QED BY <1>5, <1>7, <1>9, <1>10, <1>11 DEF DesktopInv

\* The core is stopped, to be started again: no one else is at it, or it is
\* entangled.
LEMMA SetPrefsKeeps ==
  ASSUME DesktopInv, NEW c \in Operations, SetPrefs(c)
  PROVE  DesktopInv'
<1>1. DesktopTypeOK
  BY DEF DesktopInv
<1>2. /\ Begins(c, "stopped", "on") /\ Stop /\ status \in {"on", "degraded"}
      /\ entangled' = (entangled \/ UnderWayAt(Stages) # {} \/ Waiting # {})
      /\ UNCHANGED <<status, lastError, proxy>>
  BY DEF SetPrefs
<1>3. /\ operation' \in [Operations -> OperationRows \cup {None}]
      /\ operation[c] = None
      /\ operation'[c] # None /\ operation'[c].stage = "stopped" /\ operation'[c].ends = "on"
      /\ \A d \in Operations : d # c => operation'[d] = operation[d]
  BY <1>1, <1>2, OneBegins DEF Stages
<1>4. /\ core' \in [proc : Processes \cup {None}, port : Ports \cup {None},
                    restarts : 0..MaxRestarts, stopping : BOOLEAN]
      /\ core'.proc = None /\ core'.stopping
      /\ process' \in [Processes -> ProcessRows]
      /\ \A p \in Processes : /\ process'[p].waiter = process[p].waiter
                              /\ process'[p].backoff = process[p].backoff
  BY <1>1, <1>2, StopStops
<1>5. DesktopTypeOK'
  BY <1>1, <1>2, <1>3, <1>4 DEF DesktopTypeOK
<1>6. \A stages : \A d \in Operations :
        At(d, stages)' <=> IF d = c THEN "stopped" \in stages ELSE At(d, stages)
  BY <1>3 DEF At
<1>7. \A d \in Operations : At(d, {"clearing", "cleared"})' => operation'[d].ends # "on"
  BY <1>3, <1>6 DEF DesktopInv
<1>8. \A stages : \A d \in Operations : At(d, stages) => At(d, stages)'
  BY <1>3, <1>6 DEF At
<1>9. status' # "starting"
  BY <1>2
<1>10. WaitersWait'
  BY <1>4, <1>8 DEF DesktopInv, WaitersWait
<1>11. ASSUME ~ entangled' PROVE KeptApart'
  <2>1. ~ entangled /\ KeptApart /\ UnderWayAt(Stages) = {} /\ Waiting = {}
    BY <1>1, <1>2, <1>11 DEF DesktopInv, DesktopTypeOK
  <2>2. \A d \in Operations : ~ At(d, Stages)
    BY <2>1 DEF UnderWayAt
  <2>3. /\ UnderWayAt({"clearing", "cleared"})' = {} /\ UnderWayAt({"cleared"})' = {}
        /\ UnderWayAt({"applying"})' = {}
    <3>1. \A d \in Operations : operation[d] = None
      BY <1>1, <2>2, DesktopRows DEF At
    <3>2. \A stages : \A d \in Operations : At(d, stages)' => d = c /\ "stopped" \in stages
      BY <1>6, <3>1 DEF At
    <3> QED BY <3>2 DEF UnderWayAt
  <2>4. Waiting' = {} /\ ~ Quiet'
    BY <1>3, <1>4, <2>1 DEF Waiting, Quiet
  <2>5. \A p \in Processes : process'[p].waiter # "restart"
    BY <2>4, DesktopAssumption DEF Waiting
  <2>6. UnderWayAt({"cleared"}) = {}
    <3>1. \A d \in Operations : operation[d] = None
      BY <1>1, <2>2, DesktopRows DEF At
    <3> QED BY <3>1 DEF UnderWayAt, At
  <2>7. Served' <=> Served
    BY <1>2, <1>4 DEF Served
  <2> QED BY <1>2, <1>4, <2>1, <2>3, <2>4, <2>5, <2>6, <2>7 DEF KeptApart
<1> QED BY <1>5, <1>7, <1>9, <1>10, <1>11 DEF DesktopInv

\* Who waits for a process is no one who stops.
LEMMA WaiterAlone ==
  ASSUME DesktopInv, ~ entangled, NEW p \in Processes, process[p].waiter # None
  PROVE  KeptApart /\ UnderWayAt({"clearing", "cleared"}) = {} /\ UnderWayAt({"cleared"}) = {}
<1>1. KeptApart /\ Waiting # {}
  BY DEF DesktopInv, Waiting
<1>2. UnderWayAt({"clearing", "cleared"}) = {}
  BY <1>1 DEF KeptApart
<1> QED BY <1>1, <1>2 DEF UnderWayAt, At

\* The port answers: its connect sets the proxy, or a restart finds it set.
LEMMA StartedKeeps ==
  ASSUME DesktopInv, NEW p \in Processes, Started(p)
  PROVE  DesktopInv'
<1>1. DesktopTypeOK
  BY DEF DesktopInv
<1>2. PICK w \in Operations \cup {"restart"} : w = process[p].waiter
  BY <1>1, DesktopRows DEF Started
<1>3. /\ process[p].port \in Ports /\ process[p].port # None /\ w # None
      /\ status' = "on" /\ lastError' = FALSE /\ UNCHANGED <<core, entangled>>
      /\ w \in Operations => Goes(w, "applying") /\ proxy' = process[p].port
      /\ w \notin Operations => UNCHANGED <<operation, proxy>>
  BY <1>1, <1>2, DesktopRows DEF Started
<1>4. /\ process' \in [Processes -> ProcessRows]
      /\ process'[p].waiter = None /\ process'[p].backoff = process[p].backoff
      /\ \A q \in Processes : q # p => process'[q] = process[q]
  <2>1. PICK row : row = IF Alive(p) \/ process[p].backoff
                           THEN [process[p] EXCEPT !.waiter = None] ELSE NoProcess
    OBVIOUS
  <2>2. process' = [process EXCEPT ![p] = row]
    BY <2>1 DEF Started
  <2>3. process[p] \in ProcessRows
    BY <1>1, DesktopRows
  <2>4. row \in ProcessRows /\ row.waiter = None /\ row.backoff = process[p].backoff
    <3>1. CASE Alive(p) \/ process[p].backoff
      BY <2>1, <2>3, <3>1 DEF ProcessRows
    <3>2. CASE ~ (Alive(p) \/ process[p].backoff)
      BY <2>1, <2>3, <3>2 DEF ProcessRows, NoProcess
    <3> QED BY <3>1, <3>2
  <2> QED BY <1>1, <2>2, <2>4 DEF DesktopTypeOK
<1>5. CASE w \in Operations
  <2>1. At(w, {"waiting"}) /\ operation[w] # None /\ \A q \in Processes : process[q].waiter = w => q = p
    BY <1>2, <1>5 DEF DesktopInv, WaitersWait, At
  <2>2. /\ operation' \in [Operations -> OperationRows \cup {None}]
        /\ operation'[w] # None /\ operation'[w].stage = "applying"
        /\ operation'[w].ends = operation[w].ends
        /\ \A d \in Operations : d # w => operation'[d] = operation[d]
    BY <1>1, <1>3, <1>5, <2>1, OneGoes DEF Stages
  <2>3. proxy' \in Ports /\ proxy' # None
    BY <1>3, <1>5
  <2>4. DesktopTypeOK'
    BY <1>1, <1>3, <1>4, <2>2, <2>3 DEF DesktopTypeOK, ConnectionStatuses
  <2>5. \A stages : \A d \in Operations :
          At(d, stages)' <=> IF d = w THEN "applying" \in stages ELSE At(d, stages)
    BY <2>2 DEF At
  <2>6. \A d \in Operations : At(d, {"clearing", "cleared"})' => operation'[d].ends # "on"
    BY <2>2, <2>5 DEF DesktopInv
  <2>7. WaitersWait'
    <3> SUFFICES ASSUME NEW q \in Processes, NEW d \in Operations, process'[q].waiter = d
                 PROVE  /\ At(d, {"waiting"})'
                        /\ \A r \in Processes : process'[r].waiter = d => r = q
      BY DEF WaitersWait, At
    <3>1. q # p /\ process[q].waiter = d /\ d # w
      BY <1>4, <2>1, DesktopAssumption
    <3> QED
      BY <1>4, <2>5, <3>1, DesktopAssumption DEF DesktopInv, WaitersWait
  <2>8. ASSUME ~ entangled' PROVE KeptApart'
    <3>1. /\ KeptApart /\ UnderWayAt({"clearing", "cleared"}) = {}
          /\ UnderWayAt({"cleared"}) = {}
      BY <1>2, <1>3, <2>8, WaiterAlone
    <3>2. UnderWayAt({"clearing", "cleared"})' = {} /\ UnderWayAt({"cleared"})' = {}
      BY <2>5, <3>1 DEF UnderWayAt
    <3> QED BY <1>3, <2>3, <3>2 DEF KeptApart, Served
  <2> QED BY <1>3, <2>4, <2>6, <2>7, <2>8 DEF DesktopInv
<1>6. CASE w \notin Operations
  <2>1. w = "restart" /\ UNCHANGED <<operation, proxy>>
    BY <1>3, <1>6
  <2>2. DesktopTypeOK'
    BY <1>1, <1>3, <1>4, <2>1 DEF DesktopTypeOK, ConnectionStatuses
  <2>3. \A stages : \A d \in Operations : At(d, stages)' <=> At(d, stages)
    BY <2>1 DEF At
  <2>4. \A q \in Processes :
          /\ process'[q].waiter \in Operations <=> process[q].waiter \in Operations
          /\ process'[q].waiter \in Operations => process'[q].waiter = process[q].waiter
          /\ process'[q].waiter = "restart" => process[q].waiter = "restart"
          /\ process'[q].backoff = process[q].backoff
    BY <1>2, <1>4, <2>1, DesktopAssumption
  <2>5. WaitersWait'
    BY <2>3, <2>4 DEF DesktopInv, WaitersWait
  <2>6. ASSUME ~ entangled' PROVE KeptApart'
    <3>1. /\ KeptApart /\ UnderWayAt({"clearing", "cleared"}) = {}
          /\ UnderWayAt({"cleared"}) = {} /\ Served
      BY <1>2, <1>3, <2>1, <2>6, WaiterAlone DEF KeptApart
    <3>2. \A stages : UnderWayAt(stages)' = UnderWayAt(stages)
      BY <2>3 DEF UnderWayAt
    <3>3. Served'
      BY <2>1, <2>4, <3>1 DEF Served
    <3>4. proxy # None \/ ~ Quiet
      BY <3>1 DEF Served, Quiet, DesktopInv, WaitersWait, At
    <3>5. Quiet' <=> Quiet
      BY <2>1 DEF Quiet
    <3> QED BY <1>3, <2>1, <3>1, <3>2, <3>3, <3>4, <3>5 DEF KeptApart
  <2> QED BY <1>3, <2>1, <2>2, <2>3, <2>5, <2>6 DEF DesktopInv
<1> QED BY <1>5, <1>6

\* It does not: nothing runs or is to run that another launch waits for, or it
\* is entangled.
LEMMA NotStartedKeeps ==
  ASSUME DesktopInv, NEW p \in Processes, NotStarted(p)
  PROVE  DesktopInv'
<1>1. DesktopTypeOK
  BY DEF DesktopInv
<1>2. PICK w \in Operations \cup {"restart"} : w = process[p].waiter
  BY <1>1, DesktopRows DEF NotStarted
<1>3. /\ status' = "failed" /\ lastError' = TRUE /\ w # None
      /\ core' = [core EXCEPT !.stopping = TRUE, !.proc = None]
      /\ w \in Operations => Ends(w)
      /\ w \notin Operations => UNCHANGED operation
      /\ entangled' = (entangled \/ Waiting \ {p} # {})
      /\ UNCHANGED proxy
  BY <1>2 DEF NotStarted
<1>4. /\ process' \in [Processes -> ProcessRows]
      /\ process'[p].waiter = None
      /\ \A q \in Processes : q # p => process'[q] = process[q]
  <2>1. PICK row : row = IF Alive(p) THEN [process[p] EXCEPT !.waiter = None, !.state = "killed"]
                         ELSE IF process[p].backoff THEN [process[p] EXCEPT !.waiter = None]
                         ELSE NoProcess
    OBVIOUS
  <2>2. process' = [process EXCEPT ![p] = row]
    BY <2>1 DEF NotStarted
  <2>3. process[p] \in ProcessRows
    BY <1>1, DesktopRows
  <2>4. row \in ProcessRows /\ row.waiter = None
    <3>1. CASE Alive(p)
      BY <2>1, <2>3, <3>1 DEF ProcessRows
    <3>2. CASE ~ Alive(p) /\ process[p].backoff
      BY <2>1, <2>3, <3>2 DEF ProcessRows
    <3>3. CASE ~ Alive(p) /\ ~ process[p].backoff
      BY <2>1, <3>3 DEF ProcessRows, NoProcess
    <3> QED BY <3>1, <3>2, <3>3
  <2> QED BY <1>1, <2>2, <2>4 DEF DesktopTypeOK
<1>5. core' \in [proc : Processes \cup {None}, port : Ports \cup {None},
                 restarts : 0..MaxRestarts, stopping : BOOLEAN]
      /\ core'.proc = None /\ core'.stopping
  BY <1>1, <1>3 DEF DesktopTypeOK
<1>6. /\ operation' \in [Operations -> OperationRows \cup {None}]
      /\ \A d \in Operations : operation'[d] = IF d = w THEN None ELSE operation[d]
  <2>1. CASE w \in Operations
    BY <1>1, <1>3, <2>1, OneEnds
  <2>2. CASE w \notin Operations
    BY <1>1, <1>3, <2>2 DEF DesktopTypeOK
  <2> QED BY <2>1, <2>2
<1>7. DesktopTypeOK'
  <2>1. entangled' \in BOOLEAN
    BY <1>1, <1>3 DEF DesktopTypeOK
  <2> QED
    BY <1>1, <1>3, <1>4, <1>5, <1>6, <2>1 DEF DesktopTypeOK, ConnectionStatuses
<1>8. \A stages : \A d \in Operations : At(d, stages)' <=> d # w /\ At(d, stages)
  BY <1>6 DEF At
<1>9. \A d \in Operations : At(d, {"clearing", "cleared"})' => operation'[d].ends # "on"
  BY <1>6, <1>8 DEF DesktopInv
<1>10. WaitersWait'
  <2> SUFFICES ASSUME NEW q \in Processes, NEW d \in Operations, process'[q].waiter = d
               PROVE  /\ At(d, {"waiting"})'
                      /\ \A r \in Processes : process'[r].waiter = d => r = q
    BY DEF WaitersWait, At
  <2>1. q # p /\ process[q].waiter = d /\ d # None
    BY <1>4, DesktopAssumption
  <2>2. /\ At(d, {"waiting"})
        /\ \A r \in Processes : process[r].waiter = d => r = q
    BY <2>1 DEF DesktopInv, WaitersWait
  <2>3. d # w
    BY <1>2, <2>1, <2>2
  <2> QED BY <1>4, <1>8, <2>1, <2>2, <2>3
<1>11. ASSUME ~ entangled' PROVE KeptApart'
  <2>1. ~ entangled /\ Waiting \ {p} = {}
    BY <1>1, <1>3, <1>11 DEF DesktopTypeOK
  <2>2. /\ KeptApart /\ UnderWayAt({"clearing", "cleared"}) = {}
        /\ UnderWayAt({"cleared"}) = {}
    BY <1>2, <1>3, <2>1, WaiterAlone
  <2>3. \A stages : UnderWayAt(stages)' \subseteq UnderWayAt(stages)
    BY <1>8 DEF UnderWayAt
  <2>4. \A q \in Processes : process'[q].waiter = None
    BY <1>4, <2>1 DEF Waiting
  <2>5. \A q \in Processes : process'[q].waiter # "restart"
    BY <2>4, DesktopAssumption
  <2> QED BY <1>3, <1>5, <2>2, <2>3, <2>5 DEF KeptApart
<1> QED BY <1>3, <1>7, <1>9, <1>10, <1>11 DEF DesktopInv

\* A process exits: the proxy stays, and so does who waits for it.
LEMMA ExitKeeps ==
  ASSUME DesktopInv, NEW p \in Processes, onExit(p)
  PROVE  DesktopInv'
<1>1. DesktopTypeOK
  BY DEF DesktopInv
<1>0. lastError \in BOOLEAN
  BY <1>1 DEF DesktopTypeOK
<1> DEFINE again == ~ core.stopping /\ core.restarts < MaxRestarts
<1>2. /\ status' \in {status, "failed", "degraded"}
      /\ status' = "degraded" => status \in {"on", "degraded"}
      /\ lastError' \in BOOLEAN /\ (lastError => lastError')
      /\ core' = [core EXCEPT !.proc = None,
                              !.restarts = IF again THEN core.restarts + 1 ELSE core.restarts]
      /\ proxy' = proxy
      /\ entangled' = (entangled \/ (~ core.stopping /\ core.proc # p))
      /\ UNCHANGED operation
  BY <1>0 DEF onExit, Exited
<1>3. /\ process' \in [Processes -> ProcessRows]
      /\ process'[p].waiter = process[p].waiter
      /\ process'[p].backoff => ~ core.stopping
      /\ \A q \in Processes : q # p => process'[q] = process[q]
  <2>1. PICK row : row = IF again \/ process[p].waiter # None
                           THEN [process[p] EXCEPT !.state = "none", !.backoff = again]
                           ELSE NoProcess
    OBVIOUS
  <2>2. process' = [process EXCEPT ![p] = row]
    BY <2>1 DEF onExit, Exited
  <2>3. process[p] \in ProcessRows /\ again \in BOOLEAN
    BY <1>1, DesktopRows
  <2>4. row \in ProcessRows /\ row.waiter = process[p].waiter /\ (row.backoff => ~ core.stopping)
    <3>1. CASE again \/ process[p].waiter # None
      BY <2>1, <2>3, <3>1 DEF ProcessRows
    <3>2. CASE ~ (again \/ process[p].waiter # None)
      BY <2>1, <2>3, <3>2 DEF ProcessRows, NoProcess
    <3> QED BY <3>1, <3>2
  <2> QED BY <1>1, <2>2, <2>4 DEF DesktopTypeOK
<1>4. /\ core' \in [proc : Processes \cup {None}, port : Ports \cup {None},
                    restarts : 0..MaxRestarts, stopping : BOOLEAN]
      /\ core'.proc = None /\ core'.stopping = core.stopping
  <2>1. core.restarts \in 0..MaxRestarts
    BY <1>1, DesktopRows
  <2>2. (IF again THEN core.restarts + 1 ELSE core.restarts) \in 0..MaxRestarts
    BY <2>1, DesktopAssumption
  <2> HIDE DEF again
  <2> QED BY <1>1, <1>2, <2>2 DEF DesktopTypeOK
<1> HIDE DEF again
<1>5. DesktopTypeOK'
  <2>1. entangled' \in BOOLEAN /\ status' \in ConnectionStatuses
    BY <1>1, <1>2 DEF DesktopTypeOK, ConnectionStatuses
  <2> QED BY <1>1, <1>2, <1>3, <1>4, <2>1 DEF DesktopTypeOK
<1>6. \A stages : \A d \in Operations : At(d, stages)' <=> At(d, stages)
  BY <1>2 DEF At
<1>7. \A stages : UnderWayAt(stages)' = UnderWayAt(stages)
  BY <1>6 DEF UnderWayAt
<1>8. \A q \in Processes : process'[q].waiter = process[q].waiter
  BY <1>3
<1>9. WaitersWait' /\ Waiting' = Waiting /\ (Served' <=> Served) /\ (Quiet' <=> Quiet)
  BY <1>2, <1>6, <1>8 DEF DesktopInv, WaitersWait, Waiting, Served, Quiet
<1>10. ASSUME ~ entangled' PROVE KeptApart'
  <2>1. ~ entangled /\ KeptApart /\ (core.stopping \/ core.proc = p)
    BY <1>1, <1>2, <1>10 DEF DesktopInv, DesktopTypeOK
  <2>2. core.stopping \/ Served
    BY <2>1, DesktopAssumption DEF KeptApart
  <2>3. \A q \in Processes : process'[q].backoff => core.stopping \/ Served
    BY <1>3, <2>1, <2>2 DEF KeptApart
  <2> QED BY <1>2, <1>4, <1>7, <1>8, <1>9, <2>1, <2>3 DEF KeptApart
<1>11. \A d \in Operations : At(d, {"clearing", "cleared"})' => operation'[d].ends # "on"
  BY <1>2, <1>6 DEF DesktopInv
<1> QED BY <1>2, <1>5, <1>7, <1>9, <1>10, <1>11 DEF DesktopInv

\* It is launched again, on its port, or no more.
LEMMA RestartKeeps ==
  ASSUME DesktopInv, NEW p \in Processes, onUnexpectedExit(p)
  PROVE  DesktopInv'
<1>1. DesktopTypeOK
  BY DEF DesktopInv
<1>2. PICK rest : rest = [process EXCEPT
        ![p] = IF process[p].waiter = None THEN NoProcess ELSE [process[p] EXCEPT !.backoff = FALSE]]
  OBVIOUS
<1>3. /\ process[p].backoff /\ UNCHANGED <<status, lastError, proxy, operation, entangled>>
      /\ \/ core.stopping /\ process' = rest /\ UNCHANGED core
         \/ ~ core.stopping /\ launch(rest, core.port, "restart")
  BY <1>2 DEF onUnexpectedExit
<1>4. /\ rest \in [Processes -> ProcessRows]
      /\ \A q \in Processes : /\ rest[q].waiter = process[q].waiter
                              /\ rest[q].backoff => process[q].backoff
  <2>1. PICK row : row = IF process[p].waiter = None THEN NoProcess
                         ELSE [process[p] EXCEPT !.backoff = FALSE]
    OBVIOUS
  <2>2. process[p] \in ProcessRows
    BY <1>1, DesktopRows
  <2>3. row \in ProcessRows /\ row.waiter = process[p].waiter /\ ~ row.backoff
    <3>1. CASE process[p].waiter = None
      BY <2>1, <3>1 DEF ProcessRows, NoProcess
    <3>2. CASE process[p].waiter # None
      BY <2>1, <2>2, <3>2 DEF ProcessRows
    <3> QED BY <3>1, <3>2
  <2> QED BY <1>1, <1>2, <2>1, <2>3 DEF DesktopTypeOK
<1>5. \A stages : \A d \in Operations : At(d, stages)' <=> At(d, stages)
  BY <1>3 DEF At
<1>6. \A stages : UnderWayAt(stages)' = UnderWayAt(stages)
  BY <1>5 DEF UnderWayAt
<1>7. Quiet' <=> Quiet
  BY <1>3 DEF Quiet
<1>8. \A d \in Operations : At(d, {"clearing", "cleared"})' => operation'[d].ends # "on"
  BY <1>3, <1>5 DEF DesktopInv
<1>9. CASE core.stopping /\ process' = rest /\ UNCHANGED core
  <2>1. DesktopTypeOK'
    BY <1>1, <1>3, <1>4, <1>9 DEF DesktopTypeOK
  <2>2. WaitersWait' /\ Waiting' = Waiting /\ (Served' <=> Served)
    BY <1>3, <1>4, <1>5, <1>9 DEF DesktopInv, WaitersWait, Waiting, Served
  <2>3. KeptApart => KeptApart'
    BY <1>3, <1>4, <1>6, <1>7, <1>9, <2>2 DEF KeptApart
  <2> QED BY <1>3, <1>6, <1>8, <2>1, <2>2, <2>3 DEF DesktopInv
<1>10. CASE ~ core.stopping /\ launch(rest, core.port, "restart")
  <2>0. PICK row : row = [NoProcess EXCEPT !.state = "running", !.port = core.port,
                                           !.waiter = "restart"]
    OBVIOUS
  <2>1. PICK q \in Processes :
          /\ rest[q] = NoProcess
          /\ process' = [rest EXCEPT ![q] = row]
          /\ core' = [core EXCEPT !.proc = q, !.port = core.port]
    BY <1>10, <2>0, Zenon DEF launch
  <2>2. row \in ProcessRows /\ row.waiter = "restart" /\ ~ row.backoff
    BY <1>1, <2>0, DesktopRows DEF NoProcess, ProcessRows
  <2>3. /\ process' \in [Processes -> ProcessRows]
        /\ process'[q] = row /\ process[q].waiter = None
        /\ \A r \in Processes : r # q => process'[r] = rest[r]
    BY <1>4, <2>1, <2>2 DEF NoProcess
  <2>4. /\ core' \in [proc : Processes \cup {None}, port : Ports \cup {None},
                      restarts : 0..MaxRestarts, stopping : BOOLEAN]
        /\ core'.stopping = core.stopping
    BY <1>1, <2>1 DEF DesktopTypeOK
  <2>5. DesktopTypeOK'
    BY <1>1, <1>3, <2>3, <2>4 DEF DesktopTypeOK
  <2>6. \A r \in Processes :
          /\ process'[r].waiter \in Operations <=> process[r].waiter \in Operations
          /\ process'[r].waiter \in Operations => process'[r].waiter = process[r].waiter
    BY <1>4, <2>2, <2>3, DesktopAssumption
  <2>7. WaitersWait' /\ (Served' <=> Served)
    BY <1>3, <1>5, <2>6 DEF DesktopInv, WaitersWait, Served
  <2>8. ASSUME ~ entangled' PROVE KeptApart'
    <3>1. KeptApart /\ Served
      BY <1>3, <1>10, <2>8 DEF DesktopInv, KeptApart
    <3>2. UnderWayAt({"clearing", "cleared"})' = {}
      BY <1>6, <1>10, <3>1 DEF KeptApart
    <3> QED BY <1>3, <1>6, <1>7, <2>7, <3>1, <3>2 DEF KeptApart
  <2> QED BY <1>3, <1>6, <1>8, <2>5, <2>7, <2>8 DEF DesktopInv
<1> QED BY <1>3, <1>9, <1>10

\* Every step of the desktop client keeps the invariant.
LEMMA DesktopStep == DesktopInv /\ [DesktopNext]_desktopVars => DesktopInv'
<1>1. ASSUME DesktopInv, UNCHANGED desktopVars PROVE DesktopInv'
  BY <1>1 DEF desktopVars, DesktopInv, DesktopTypeOK, At, UnderWayAt, WaitersWait, KeptApart, Served,
     Waiting, Quiet
<1> QED
  BY <1>1, ConnectKeeps, NoLinkKeeps, RefreshKeeps, ConnectFailsKeeps, StartCoreKeeps, LaunchCoreKeeps, ConnectedKeeps,
     DisconnectKeeps, ClearProxyKeeps, DisconnectedKeeps, SetPrefsKeeps, ReconnectKeeps,
     StartedKeeps, NotStartedKeeps, ExitKeeps, RestartKeeps
  DEF DesktopNext

\* However connects, stops and changes of rules interleave with processes that
\* open their port late, never, or exit, and links that cannot be had: the window
\* stays at `starting' with an error on record only, and what it calls on, or
\* off, is so, unless operations or processes entangled (connect, disconnect,
\* setPrefs, handleCoreEvent, onUnexpectedExit).
THEOREM ProxyIsAsShown == DesktopSpec => []ProxyAsShown
<1>1. DesktopInv => ProxyAsShown
  <2>1. Quiet => UnderWayAt({"loading", "checking", "waiting", "applying"}) = {}
    BY DEF Quiet, UnderWayAt, At
  <2>2. Quiet => UnderWayAt({"cleared"}) = {}
    BY DEF Quiet, UnderWayAt, At
  <2>3. DesktopInv /\ Quiet /\ Served => proxy # None
    BY DEF DesktopInv, WaitersWait, Quiet, At, Served
  <2> QED BY <2>1, <2>2, <2>3 DEF DesktopInv, KeptApart, ProxyAsShown
<1> QED BY <1>1, DesktopBegins, DesktopStep, PTL DEF DesktopSpec

-----------------------------------------------------------------------------
(* The browser extension.                                                  *)

\* No job runs at first.
LEMMA ExtensionBegins == ExtensionInit => ExtensionInv
<1> SUFFICES ASSUME ExtensionInit PROVE ExtensionInv
  OBVIOUS
<1>1. \A j \in Jobs : job[j].at = "idle" /\ ~ job[j].aborted
  BY DEF ExtensionInit, Idle
<1>2. ExtensionTypeOK
  BY EmptySeq DEF ExtensionInit, ExtensionTypeOK, Links, JobRows, Idle
<1>3. JobsApart
  BY <1>1 DEF JobsApart, GoesOn, SetsUp, TakesDown, ConnectAwaits, ExtensionInit
<1> QED BY <1>1, <1>2, <1>3 DEF ExtensionInv, ExtensionInit

\* The jobs, when one of them goes on and another may have been aborted.
LEMMA OneMoves ==
  ASSUME NEW jobs \in [Jobs -> JobRows], NEW j \in Jobs, NEW at \in Awaits \cup {"idle"},
         job' = [jobs EXCEPT ![j].at = at]
  PROVE  /\ job' \in [Jobs -> JobRows]
         /\ job'[j].at = at /\ job'[j].aborted = jobs[j].aborted
         /\ \A k \in Jobs \ {j} : job'[k].at = jobs[k].at /\ job'[k].aborted = jobs[k].aborted
<1>1. PICK row : row = [jobs[j] EXCEPT !.at = at]
  OBVIOUS
<1>2. row \in JobRows /\ row.at = at /\ row.aborted = jobs[j].aborted
  BY <1>1 DEF JobRows
<1>3. job' = [jobs EXCEPT ![j] = row]
  BY <1>1
<1> QED BY <1>2, <1>3

\* The same for a job that moves on, and no other.
LEMMA OneMovesOn ==
  ASSUME ExtensionTypeOK, NEW j \in Jobs, NEW at \in Awaits \cup {"idle"}, Moves(j, at)
  PROVE  /\ job' \in [Jobs -> JobRows]
         /\ job'[j].at = at /\ job'[j].aborted = job[j].aborted
         /\ \A k \in Jobs \ {j} : job'[k].at = job[k].at /\ job'[k].aborted = job[k].aborted
<1>1. PICK jobs : jobs = job
  OBVIOUS
<1> QED BY <1>1, OneMoves DEF ExtensionTypeOK, Moves

\* The job that connectAbort is for, unless it has ended.
LEMMA TheAborted ==
  ASSUME ExtensionTypeOK, NEW jobs, jobs = Aborted(job)
  PROVE  /\ jobs \in [Jobs -> JobRows]
         /\ \A k \in Jobs :
              /\ jobs[k].at = job[k].at
              /\ jobs[k].aborted = (job[k].aborted \/ (k = aborter /\ job[k].at # "idle"))
<1>1. CASE aborter = None
  BY <1>1, ExtensionAssumption DEF Aborted, ExtensionTypeOK, JobRows
<1>2. CASE aborter # None
  <2>1. aborter \in Jobs /\ job \in [Jobs -> JobRows]
    BY <1>2 DEF ExtensionTypeOK
  <2>2. PICK row : row = [job[aborter] EXCEPT !.aborted = (@ \/ job[aborter].at # "idle")]
    OBVIOUS
  <2>3. row \in JobRows
    BY <2>1, <2>2 DEF JobRows
  <2>4. /\ row.at = job[aborter].at
        /\ row.aborted = (job[aborter].aborted \/ job[aborter].at # "idle")
    BY <2>1, <2>2 DEF JobRows
  <2>5. jobs = [job EXCEPT ![aborter] = row]
    BY <1>2, <2>2 DEF Aborted
  <2>6. jobs[aborter] = row /\ \A k \in Jobs \ {aborter} : jobs[k] = job[k]
    BY <2>1, <2>5
  <2>7. \A k \in Jobs : job[k].aborted \in BOOLEAN
    BY <2>1 DEF JobRows
  <2>8. jobs \in [Jobs -> JobRows]
    BY <2>1, <2>3, <2>5
  <2>9. ASSUME NEW k \in Jobs \ {aborter}
        PROVE  /\ jobs[k].at = job[k].at
               /\ jobs[k].aborted = (job[k].aborted \/ (k = aborter /\ job[k].at # "idle"))
    BY <2>6, <2>7
  <2> QED BY <2>1, <2>4, <2>6, <2>8, <2>9
<1> QED BY <1>1, <1>2

\* What j asks the browser for.
LEMMA OneAsks ==
  ASSUME ExtensionTypeOK, NEW j \in Jobs, NEW jobs \in [Jobs -> JobRows], NEW others,
         NEW setting \in {"none", "probe", "route"}, NEW at \in Awaits,
         Asks(j, jobs, others, setting, at)
  PROVE  /\ job' \in [Jobs -> JobRows] /\ line' \in Seq(Jobs)
         /\ pac' = setting
         /\ mingled' \in BOOLEAN
         /\ ~ mingled' => ~ mingled /\ others \subseteq {j}
         /\ job'[j].at = at /\ job'[j].aborted = jobs[j].aborted
         /\ \A k \in Jobs \ {j} : job'[k].at = jobs[k].at /\ job'[k].aborted = jobs[k].aborted
<1>1. /\ job' = [jobs EXCEPT ![j].at = at] /\ line' = Append(line, j) /\ pac' = setting
      /\ mingled' = (mingled \/ others \ {j} # {})
  BY DEF Asks
<1>2. line' \in Seq(Jobs)
  BY <1>1, AppendProperties DEF ExtensionTypeOK
<1>3. mingled' \in BOOLEAN /\ (~ mingled' => ~ mingled /\ others \subseteq {j})
  BY <1>1 DEF ExtensionTypeOK
<1>4. /\ job' \in [Jobs -> JobRows]
      /\ job'[j].at = at /\ job'[j].aborted = jobs[j].aborted
      /\ \A k \in Jobs \ {j} : job'[k].at = jobs[k].at /\ job'[k].aborted = jobs[k].aborted
  BY <1>1, OneMoves
<1> QED BY <1>1, <1>2, <1>3, <1>4

\* The browser has answered the first in line.
LEMMA LineGoesOn ==
  ASSUME ExtensionTypeOK, NEW j \in Jobs, Answers(j)
  PROVE  line' \in Seq(Jobs)
  BY HeadTailProperties DEF ExtensionTypeOK, Answers

\* The button, signing in and onStartup: the connect before is aborted, and
\* nobody takes the setting down.
LEMMA ConnectStartsKeeps ==
  ASSUME ExtensionInv, NEW j \in Jobs, ConnectStarts(j)
  PROVE  ExtensionInv'
<1>1. ExtensionTypeOK
  BY DEF ExtensionInv
<1>2. PICK jobs : jobs = Aborted(job)
  OBVIOUS
<1>3. /\ awake /\ job[j].at = "idle" /\ signedIn
      /\ job' = [jobs EXCEPT ![j].at = "announcing"]
      /\ aborter' = j /\ link' = "connecting"
      /\ mingled' = (mingled \/ Changing(job) # {} \/ \E k \in Jobs : job[k].at = "logout")
      /\ UNCHANGED <<pac, foreign, signedIn, line, kept, awake>>
  BY <1>2 DEF ConnectStarts, Starts
<1>4. /\ jobs \in [Jobs -> JobRows]
      /\ \A k \in Jobs :
           /\ jobs[k].at = job[k].at
           /\ jobs[k].aborted = (job[k].aborted \/ (k = aborter /\ job[k].at # "idle"))
  BY <1>1, <1>2, TheAborted
<1>5. /\ job' \in [Jobs -> JobRows]
      /\ job'[j].at = "announcing" /\ job'[j].aborted = jobs[j].aborted
      /\ \A k \in Jobs \ {j} : job'[k].at = jobs[k].at /\ job'[k].aborted = jobs[k].aborted
  BY <1>3, <1>4, OneMoves DEF Awaits
<1>6. ExtensionTypeOK'
  BY <1>1, <1>3, <1>5 DEF ExtensionTypeOK, Links
<1>7. ~ job[j].aborted /\ ~ job'[j].aborted
  BY <1>3, <1>4, <1>5 DEF ExtensionInv
<1>8. ASSUME ~ mingled' PROVE JobsApart'
  <2>1. /\ JobsApart
        /\ \A k \in Jobs : ~ SetsUp(k) /\ ~ TakesDown(k) /\ job[k].at \notin {"routing", "logout"}
    BY <1>1, <1>3, <1>8 DEF ExtensionInv, ExtensionTypeOK, Changing, SetsUp, TakesDown
  <2>2. \A k \in Jobs :
          /\ GoesOn(k)' <=> k = j
          /\ ~ SetsUp(k)' /\ ~ TakesDown(k)' /\ job'[k].at # "routing"
    <3>1. GoesOn(j)' /\ ~ SetsUp(j)' /\ ~ TakesDown(j)' /\ job'[j].at # "routing"
      BY <1>5, <1>7 DEF GoesOn, SetsUp, TakesDown, ConnectAwaits
    <3>2. ASSUME NEW k \in Jobs \ {j}
          PROVE  ~ GoesOn(k)' /\ ~ SetsUp(k)' /\ ~ TakesDown(k)' /\ job'[k].at # "routing"
      <4>1. job'[k].at = job[k].at
        BY <1>4, <1>5
      <4>2. GoesOn(k)' => job[k].at \in ConnectAwaits /\ ~ jobs[k].aborted
        BY <1>5, <4>1 DEF GoesOn
      <4>3. GoesOn(k)' => GoesOn(k) /\ (k = aborter => job[k].at = "idle")
        BY <1>4, <4>2 DEF GoesOn
      <4>4. ~ GoesOn(k)'
        BY <2>1, <4>2, <4>3 DEF JobsApart, ConnectAwaits
      <4> QED BY <2>1, <4>1, <4>4 DEF SetsUp, TakesDown
    <3> QED BY <3>1, <3>2
  <2> QED BY <1>3, <1>5, <2>1, <2>2 DEF JobsApart
<1>9. ASSUME NEW k \in Jobs, job'[k].at = "idle" PROVE ~ job'[k].aborted
  <2>1. k # j /\ job[k].at = "idle"
    BY <1>4, <1>5, <1>9
  <2>2. ~ job[k].aborted
    BY <2>1 DEF ExtensionInv
  <2> QED BY <1>4, <1>5, <2>1, <2>2
<1> QED BY <1>3, <1>6, <1>8, <1>9 DEF ExtensionInv

\* What connect says first is saved.
LEMMA AnnouncedKeeps ==
  ASSUME ExtensionInv, NEW j \in Jobs, ConnectAnnounced(j)
  PROVE  ExtensionInv'
<1>1. ExtensionTypeOK
  BY DEF ExtensionInv
<1>2. /\ job[j].at = "announcing" /\ kept' = link /\ Moves(j, "preparing")
      /\ UNCHANGED <<link, pac, foreign, signedIn, line, aborter, awake, mingled>>
  BY DEF ConnectAnnounced
<1>3. /\ job' \in [Jobs -> JobRows]
      /\ job'[j].at = "preparing" /\ job'[j].aborted = job[j].aborted
      /\ \A k \in Jobs \ {j} : job'[k].at = job[k].at /\ job'[k].aborted = job[k].aborted
  BY <1>1, <1>2, OneMovesOn DEF Awaits
<1>4. ExtensionTypeOK'
  BY <1>1, <1>2, <1>3 DEF ExtensionTypeOK
<1>5. awake /\ \A k \in Jobs : job'[k].at = "idle" => ~ job'[k].aborted
  BY <1>2, <1>3 DEF ExtensionInv
<1>6. ASSUME ~ mingled' PROVE JobsApart'
  <2>1. JobsApart
    BY <1>2, <1>6 DEF ExtensionInv
  <2>2. \A k \in Jobs :
          /\ GoesOn(k)' <=> GoesOn(k)
          /\ SetsUp(k)' <=> SetsUp(k)
          /\ TakesDown(k)' <=> TakesDown(k)
          /\ job[k].at \in {"routing", "logout"} <=> job'[k].at \in {"routing", "logout"}
          /\ job'[k].at = "routing" => job[k].at = "routing"
    BY <1>2, <1>3 DEF GoesOn, SetsUp, TakesDown, ConnectAwaits
  <2> QED BY <1>2, <2>1, <2>2 DEF JobsApart
<1> QED BY <1>2, <1>4, <1>5, <1>6 DEF ExtensionInv

\* A connect that goes on has the setting for itself, whether it looks through
\* one endpoint or has found one.
LEMMA GoesOnAlone ==
  ASSUME ExtensionTypeOK, JobsApart, NEW j \in Jobs, GoesOn(j), AtSetting(job) \subseteq {j}
  PROVE  /\ link = "connecting" /\ signedIn
         /\ job[j].at # "announcing" => kept = "connecting"
         /\ \A k \in Jobs \ {j} : ~ GoesOn(k) /\ ~ SetsUp(k) /\ ~ TakesDown(k)
  BY DEF JobsApart, GoesOn, SetsUp, TakesDown, AtSetting, Changing

\* Who is alone at the setting.
LEMMA AloneAtIt ==
  ASSUME NEW j \in Jobs, AtSetting(job) \subseteq {j}
  PROVE  \A k \in Jobs \ {j} : ~ GoesOn(k) /\ ~ SetsUp(k) /\ ~ TakesDown(k)
  BY DEF GoesOn, SetsUp, TakesDown, AtSetting, Changing

\* A probe.
LEMMA ProbeKeeps ==
  ASSUME ExtensionInv, NEW j \in Jobs, ProbeEndpoint(j)
  PROVE  ExtensionInv'
<1>1. ExtensionTypeOK
  BY DEF ExtensionInv
<1>2. /\ job[j].at \in {"preparing", "probing"} /\ ~ job[j].aborted
      /\ pac' = "probe" /\ Moves(j, "probing")
      /\ mingled' = (mingled \/ AtSetting(job) \ {j} # {})
      /\ UNCHANGED <<link, foreign, signedIn, line, aborter, kept, awake>>
  BY DEF ProbeEndpoint
<1>3. /\ job' \in [Jobs -> JobRows]
      /\ job'[j].at = "probing" /\ job'[j].aborted = job[j].aborted
      /\ \A k \in Jobs \ {j} : job'[k].at = job[k].at /\ job'[k].aborted = job[k].aborted
  BY <1>1, <1>2, OneMovesOn DEF Awaits
<1>4. ExtensionTypeOK'
  BY <1>1, <1>2, <1>3 DEF ExtensionTypeOK
<1>5. awake /\ \A k \in Jobs : job'[k].at = "idle" => ~ job'[k].aborted
  BY <1>2, <1>3 DEF ExtensionInv
<1>6. ASSUME ~ mingled' PROVE JobsApart'
  <2>1. JobsApart /\ AtSetting(job) \subseteq {j}
    BY <1>1, <1>2, <1>6 DEF ExtensionInv, ExtensionTypeOK
  <2>2. GoesOn(j)
    BY <1>2 DEF GoesOn, ConnectAwaits
  <2>3. /\ link = "connecting" /\ signedIn /\ kept = "connecting" /\ j = aborter
        /\ \A k \in Jobs \ {j} : ~ GoesOn(k) /\ ~ SetsUp(k) /\ ~ TakesDown(k)
    BY <1>1, <1>2, <2>1, <2>2, GoesOnAlone DEF JobsApart
  <2>4. GoesOn(j)' /\ ~ SetsUp(j)' /\ ~ TakesDown(j)'
    BY <1>2, <1>3 DEF GoesOn, SetsUp, TakesDown, ConnectAwaits
  <2>5. \A k \in Jobs \ {j} : ~ GoesOn(k)' /\ ~ SetsUp(k)' /\ ~ TakesDown(k)'
    BY <1>3, <2>3 DEF GoesOn, SetsUp, TakesDown
  <2> QED BY <1>2, <2>3, <2>4, <2>5 DEF JobsApart
<1> QED BY <1>2, <1>4, <1>5, <1>6 DEF ExtensionInv

\* An endpoint answers, or none is asked.
LEMMA RoutesKeeps ==
  ASSUME ExtensionInv, NEW j \in Jobs, ConnectRoutes(j)
  PROVE  ExtensionInv'
<1>1. ExtensionTypeOK
  BY DEF ExtensionInv
<1>2. /\ job[j].at \in {"preparing", "probing"} /\ ~ job[j].aborted
      /\ Asks(j, job, AtSetting(job), "route", "routing")
      /\ UNCHANGED <<link, foreign, signedIn, aborter, kept, awake>>
  BY DEF ConnectRoutes
<1>3. /\ job' \in [Jobs -> JobRows] /\ line' \in Seq(Jobs) /\ pac' = "route"
      /\ mingled' \in BOOLEAN /\ (~ mingled' => ~ mingled /\ AtSetting(job) \subseteq {j})
      /\ job'[j].at = "routing" /\ job'[j].aborted = job[j].aborted
      /\ \A k \in Jobs \ {j} : job'[k].at = job[k].at /\ job'[k].aborted = job[k].aborted
  <2>1. PICK jobs, others : jobs = job /\ others = AtSetting(job)
    OBVIOUS
  <2>2. Asks(j, jobs, others, "route", "routing") /\ jobs \in [Jobs -> JobRows]
    BY <1>1, <1>2, <2>1 DEF ExtensionTypeOK
  <2> QED BY <1>1, <2>1, <2>2, OneAsks DEF Awaits
<1>4. ExtensionTypeOK'
  BY <1>1, <1>2, <1>3 DEF ExtensionTypeOK
<1>5. awake /\ \A k \in Jobs : job'[k].at = "idle" => ~ job'[k].aborted
  BY <1>2, <1>3 DEF ExtensionInv
<1>6. ASSUME ~ mingled' PROVE JobsApart'
  <2>1. JobsApart /\ AtSetting(job) \subseteq {j}
    BY <1>3, <1>6 DEF ExtensionInv
  <2>2. GoesOn(j)
    BY <1>2 DEF GoesOn, ConnectAwaits
  <2>3. /\ link = "connecting" /\ signedIn /\ kept = "connecting" /\ j = aborter
        /\ \A k \in Jobs \ {j} : ~ GoesOn(k) /\ ~ SetsUp(k) /\ ~ TakesDown(k)
    BY <1>1, <1>2, <2>1, <2>2, GoesOnAlone DEF JobsApart
  <2>4. GoesOn(j)' /\ ~ TakesDown(j)'
    BY <1>2, <1>3 DEF GoesOn, TakesDown, ConnectAwaits
  <2>5. \A k \in Jobs \ {j} : ~ GoesOn(k)' /\ ~ SetsUp(k)' /\ ~ TakesDown(k)'
    BY <1>3, <2>3 DEF GoesOn, SetsUp, TakesDown
  <2> QED BY <1>2, <1>3, <2>3, <2>4, <2>5 DEF JobsApart
<1> QED BY <1>2, <1>4, <1>5, <1>6 DEF ExtensionInv

\* The browser is set: it shows.
LEMMA SucceedsKeeps ==
  ASSUME ExtensionInv, NEW j \in Jobs, ConnectSucceeds(j)
  PROVE  ExtensionInv'
<1>1. ExtensionTypeOK
  BY DEF ExtensionInv
<1>2. /\ job[j].at = "routing" /\ Answers(j) /\ link' = "on" /\ aborter' = None
      /\ Moves(j, "saving")
      /\ UNCHANGED <<pac, foreign, signedIn, kept, awake, mingled>>
  BY DEF ConnectSucceeds
<1>3. /\ job' \in [Jobs -> JobRows]
      /\ job'[j].at = "saving" /\ job'[j].aborted = job[j].aborted
      /\ \A k \in Jobs \ {j} : job'[k].at = job[k].at /\ job'[k].aborted = job[k].aborted
  BY <1>1, <1>2, OneMovesOn DEF Awaits
<1>4. ExtensionTypeOK'
  BY <1>1, <1>2, <1>3, LineGoesOn DEF ExtensionTypeOK, Links
<1>5. awake /\ \A k \in Jobs : job'[k].at = "idle" => ~ job'[k].aborted
  BY <1>2, <1>3 DEF ExtensionInv
<1>6. ASSUME ~ mingled' PROVE JobsApart'
  <2>1. JobsApart /\ SetsUp(j)
    BY <1>2, <1>6 DEF ExtensionInv, SetsUp
  <2>2. /\ pac = "route"
        /\ \A k \in Jobs \ {j} : ~ GoesOn(k) /\ ~ SetsUp(k)
        /\ \A k \in Jobs : ~ TakesDown(k)
    BY <2>1 DEF JobsApart
  <2>3. ~ GoesOn(j)' /\ ~ SetsUp(j)' /\ ~ TakesDown(j)'
    BY <1>3 DEF GoesOn, SetsUp, TakesDown, ConnectAwaits
  <2>4. \A k \in Jobs \ {j} : ~ GoesOn(k)' /\ ~ SetsUp(k)' /\ ~ TakesDown(k)'
    BY <1>3, <2>2 DEF GoesOn, SetsUp, TakesDown
  <2>5. kept = "connecting"
    BY <1>2, <2>1 DEF JobsApart
  <2> QED BY <1>2, <2>1, <2>2, <2>3, <2>4, <2>5 DEF JobsApart
<1> QED BY <1>2, <1>4, <1>5, <1>6 DEF ExtensionInv

\* A job that takes the setting down finds no one else there.
LEMMA TakesDownKeeps ==
  ASSUME ExtensionInv, awake, NEW j \in Jobs, NEW at \in {"failing", "leaving", "rejecting"},
         Asks(j, job, AtSetting(job), "none", at),
         UNCHANGED <<link, foreign, signedIn, aborter, kept, awake>>
  PROVE  ExtensionInv'
<1>1. ExtensionTypeOK
  BY DEF ExtensionInv
<1>2. /\ job' \in [Jobs -> JobRows] /\ line' \in Seq(Jobs) /\ pac' = "none"
      /\ mingled' \in BOOLEAN /\ (~ mingled' => ~ mingled /\ AtSetting(job) \subseteq {j})
      /\ job'[j].at = at /\ job'[j].aborted = job[j].aborted
      /\ \A k \in Jobs \ {j} : job'[k].at = job[k].at /\ job'[k].aborted = job[k].aborted
  <2>1. PICK jobs, others : jobs = job /\ others = AtSetting(job)
    OBVIOUS
  <2>2. Asks(j, jobs, others, "none", at) /\ jobs \in [Jobs -> JobRows]
    BY <1>1, <2>1 DEF ExtensionTypeOK
  <2> QED BY <1>1, <2>1, <2>2, OneAsks DEF Awaits
<1>3. ExtensionTypeOK'
  BY <1>1, <1>2 DEF ExtensionTypeOK
<1>4. \A k \in Jobs : job'[k].at = "idle" => ~ job'[k].aborted
  BY <1>2 DEF ExtensionInv
<1>5. ASSUME ~ mingled' PROVE JobsApart'
  <2>1. JobsApart /\ \A k \in Jobs \ {j} : ~ GoesOn(k) /\ ~ SetsUp(k)
    BY <1>2, <1>5, AloneAtIt DEF ExtensionInv
  <2>2. ~ GoesOn(j)' /\ ~ SetsUp(j)' /\ TakesDown(j)'
    BY <1>2 DEF GoesOn, SetsUp, TakesDown, ConnectAwaits
  <2>3. \A k \in Jobs \ {j} : ~ GoesOn(k)' /\ ~ SetsUp(k)'
    BY <1>2, <2>1 DEF GoesOn, SetsUp
  <2> QED BY <1>2, <2>1, <2>2, <2>3 DEF JobsApart
<1> QED BY <1>3, <1>4, <1>5 DEF ExtensionInv

\* The setting is down: the status says so, or the token goes first.
LEMMA TakenDownKeeps ==
  ASSUME ExtensionInv, NEW j \in Jobs, TakesDown(j),
         \/ link' \in {"off", "no-route"} /\ Moves(j, "saving") /\ signedIn' = signedIn
         \/ link' = link /\ Moves(j, "forgetting") /\ signedIn' \in BOOLEAN,
         line' \in Seq(Jobs), UNCHANGED <<pac, foreign, aborter, kept, awake, mingled>>
  PROVE  ExtensionInv'
<1>1. ExtensionTypeOK
  BY DEF ExtensionInv
<1>2. PICK at \in {"saving", "forgetting"} :
        /\ Moves(j, at)
        /\ \/ at = "saving" /\ link' \in {"off", "no-route"} /\ signedIn' = signedIn
           \/ at = "forgetting" /\ link' = link /\ signedIn' \in BOOLEAN
  OBVIOUS
<1>3. /\ job' \in [Jobs -> JobRows]
      /\ job'[j].at = at /\ job'[j].aborted = job[j].aborted
      /\ \A k \in Jobs \ {j} : job'[k].at = job[k].at /\ job'[k].aborted = job[k].aborted
  BY <1>1, <1>2, OneMovesOn DEF Awaits
<1>4. ExtensionTypeOK'
  BY <1>1, <1>2, <1>3 DEF ExtensionTypeOK, Links
<1>5. awake /\ \A k \in Jobs : job'[k].at = "idle" => ~ job'[k].aborted
  BY <1>1, <1>3 DEF ExtensionInv, ExtensionTypeOK, TakesDown
<1>6. ASSUME ~ mingled' PROVE JobsApart'
  <2>1. JobsApart
    BY <1>6 DEF ExtensionInv
  <2>2. pac = "none" /\ \A k \in Jobs : ~ GoesOn(k) /\ ~ SetsUp(k)
    BY <2>1 DEF JobsApart
  <2>3. \A k \in Jobs : ~ GoesOn(k)' /\ ~ SetsUp(k)'
    BY <1>3, <2>2 DEF GoesOn, SetsUp, ConnectAwaits
  <2>4. at = "forgetting" => TakesDown(j)'
    BY <1>3 DEF TakesDown
  <2> QED BY <1>2, <2>2, <2>3, <2>4 DEF JobsApart
<1> QED BY <1>4, <1>5, <1>6 DEF ExtensionInv

\* A job that is not at the setting goes on, ends, or saves what is shown.
LEMMA ApartFromIt ==
  ASSUME ExtensionInv, NEW j \in Jobs, job' \in [Jobs -> JobRows],
         \A k \in Jobs \ {j} : job'[k].at = job[k].at /\ job'[k].aborted = job[k].aborted,
         ~ GoesOn(j), ~ TakesDown(j), job[j].at \notin {"routing", "logout"},
         ~ GoesOn(j)', ~ SetsUp(j)', ~ TakesDown(j)', job'[j].at # "routing",
         job'[j].at = "idle" => ~ job'[j].aborted, awake \/ job'[j].at = "idle",
         kept' \in {kept, link}, signedIn' \in BOOLEAN, signedIn => signedIn',
         line' \in Seq(Jobs),
         UNCHANGED <<link, pac, foreign, aborter, awake, mingled>>
  PROVE  ExtensionInv'
<1>1. ExtensionTypeOK'
  BY DEF ExtensionInv, ExtensionTypeOK
<1>2. \A k \in Jobs : job'[k].at = "idle" => ~ job'[k].aborted
  BY DEF ExtensionInv
<1>3. ~ awake' => \A k \in Jobs : job'[k].at = "idle"
  BY DEF ExtensionInv
<1>4. ASSUME ~ mingled' PROVE JobsApart'
  <2>1. JobsApart
    BY <1>4 DEF ExtensionInv
  <2>2. \A k \in Jobs :
          /\ GoesOn(k)' <=> GoesOn(k)
          /\ SetsUp(k)' => SetsUp(k)
          /\ TakesDown(k)' <=> TakesDown(k)
          /\ GoesOn(k)' => job'[k].at = job[k].at
          /\ job[k].at \in {"routing", "logout"} => job'[k].at = job[k].at
          /\ job'[k].at = "routing" => job[k].at = "routing"
    BY DEF GoesOn, SetsUp, TakesDown
  <2>3. \A k \in Jobs : GoesOn(k)' =>
          /\ k = aborter' /\ link' = "connecting" /\ signedIn'
          /\ job'[k].at # "announcing" => kept' = "connecting"
    BY <2>1, <2>2 DEF JobsApart
  <2>4. \A k \in Jobs : TakesDown(k)' =>
          pac' = "none" /\ \A i \in Jobs : ~ GoesOn(i)' /\ ~ SetsUp(i)'
    BY <2>1, <2>2 DEF JobsApart
  <2>5. \A k \in Jobs : SetsUp(k)' =>
          /\ pac' = "route"
          /\ \A i \in Jobs \ {k} : ~ GoesOn(i)' /\ ~ SetsUp(i)'
          /\ job'[k].at = "routing" => link' = "connecting" /\ kept' = "connecting"
    <3> SUFFICES ASSUME NEW k \in Jobs, SetsUp(k)'
                 PROVE  /\ pac' = "route"
                        /\ \A i \in Jobs \ {k} : ~ GoesOn(i)' /\ ~ SetsUp(i)'
                        /\ job'[k].at = "routing" =>
                             link' = "connecting" /\ kept' = "connecting"
      OBVIOUS
    <3>1. /\ pac = "route"
          /\ \A i \in Jobs \ {k} : ~ GoesOn(i) /\ ~ SetsUp(i)
          /\ job[k].at = "routing" => link = "connecting" /\ kept = "connecting"
      BY <2>1, <2>2 DEF JobsApart
    <3> QED BY <2>2, <3>1
  <2> QED BY <2>1, <2>2, <2>3, <2>4, <2>5 DEF JobsApart
<1> QED BY <1>1, <1>2, <1>3, <1>4 DEF ExtensionInv

\* disconnect: the connect under way is aborted.
LEMMA DisconnectStartsKeeps ==
  ASSUME ExtensionInv, NEW j \in Jobs, DisconnectStarts(j)
  PROVE  ExtensionInv'
<1>1. ExtensionTypeOK
  BY DEF ExtensionInv
<1>2. PICK jobs, others : jobs = Aborted(job) /\ others = Changing(job)
  OBVIOUS
<1>3. /\ job[j].at \in {"idle", "counting"} /\ aborter' = None
      /\ Asks(j, jobs, others, "none", "clearing")
      /\ UNCHANGED <<link, foreign, signedIn, kept, awake>>
  BY <1>2 DEF DisconnectStarts, Starts
<1>4. /\ jobs \in [Jobs -> JobRows]
      /\ \A k \in Jobs :
           /\ jobs[k].at = job[k].at
           /\ jobs[k].aborted = (job[k].aborted \/ (k = aborter /\ job[k].at # "idle"))
  BY <1>1, <1>2, TheAborted
<1>5. /\ job' \in [Jobs -> JobRows] /\ line' \in Seq(Jobs) /\ pac' = "none"
      /\ mingled' \in BOOLEAN /\ (~ mingled' => ~ mingled /\ others \subseteq {j})
      /\ job'[j].at = "clearing" /\ job'[j].aborted = jobs[j].aborted
      /\ \A k \in Jobs \ {j} : job'[k].at = jobs[k].at /\ job'[k].aborted = jobs[k].aborted
  BY <1>1, <1>3, <1>4, OneAsks DEF Awaits
<1>6. ExtensionTypeOK'
  BY <1>1, <1>3, <1>5 DEF ExtensionTypeOK
<1>7. awake
  BY <1>3 DEF ExtensionInv, DisconnectStarts, Starts
<1>8. \A k \in Jobs : job'[k].at = "idle" => ~ job'[k].aborted
  BY <1>4, <1>5 DEF ExtensionInv
<1>9. ASSUME ~ mingled' PROVE JobsApart'
  <2>1. JobsApart
    BY <1>5, <1>9 DEF ExtensionInv
  <2>2. ~ GoesOn(j)' /\ ~ SetsUp(j)' /\ TakesDown(j)'
    BY <1>5 DEF GoesOn, SetsUp, TakesDown, ConnectAwaits
  <2>3. ASSUME NEW k \in Jobs \ {j} PROVE ~ GoesOn(k)' /\ ~ SetsUp(k)'
    <3>1. job'[k].at = job[k].at
      BY <1>4, <1>5
    <3>2. k \notin Changing(job)
      BY <1>2, <1>5, <1>9
    <3>3. ~ SetsUp(k)'
      BY <3>1, <3>2 DEF SetsUp, Changing
    <3>4. GoesOn(k)' => job[k].at \in ConnectAwaits /\ ~ jobs[k].aborted
      BY <1>5, <3>1 DEF GoesOn
    <3>5. GoesOn(k)' => GoesOn(k) /\ (k = aborter => job[k].at = "idle")
      BY <1>4, <3>4 DEF GoesOn
    <3>6. ~ GoesOn(k)'
      BY <2>1, <3>4, <3>5 DEF JobsApart, ConnectAwaits
    <3> QED BY <3>3, <3>6
  <2> QED BY <1>3, <1>5, <2>1, <2>2, <2>3 DEF JobsApart
<1> QED BY <1>3, <1>6, <1>7, <1>8, <1>9 DEF ExtensionInv

\* signOut, likewise; the setting waits for /auth/logout.
LEMMA SignOutStartsKeeps ==
  ASSUME ExtensionInv, NEW j \in Jobs, SignOutStarts(j)
  PROVE  ExtensionInv'
<1>1. ExtensionTypeOK
  BY DEF ExtensionInv
<1>2. PICK jobs : jobs = Aborted(job)
  OBVIOUS
<1>3. /\ awake /\ job[j].at = "idle" /\ job' = [jobs EXCEPT ![j].at = "logout"]
      /\ UNCHANGED <<link, pac, foreign, signedIn, line, aborter, kept, awake, mingled>>
  BY <1>2 DEF SignOutStarts, Starts
<1>4. /\ jobs \in [Jobs -> JobRows]
      /\ \A k \in Jobs :
           /\ jobs[k].at = job[k].at
           /\ jobs[k].aborted = (job[k].aborted \/ (k = aborter /\ job[k].at # "idle"))
  BY <1>1, <1>2, TheAborted
<1>5. /\ job' \in [Jobs -> JobRows]
      /\ job'[j].at = "logout" /\ job'[j].aborted = jobs[j].aborted
      /\ \A k \in Jobs \ {j} : job'[k].at = jobs[k].at /\ job'[k].aborted = jobs[k].aborted
  BY <1>3, <1>4, OneMoves DEF Awaits
<1>6. ExtensionTypeOK'
  BY <1>1, <1>3, <1>5 DEF ExtensionTypeOK
<1>7. \A k \in Jobs : job'[k].at = "idle" => ~ job'[k].aborted
  BY <1>4, <1>5 DEF ExtensionInv
<1>8. ASSUME ~ mingled' PROVE JobsApart'
  <2>1. JobsApart
    BY <1>3, <1>8 DEF ExtensionInv
  <2>2. ~ GoesOn(j)' /\ ~ SetsUp(j)' /\ ~ TakesDown(j)' /\ ~ TakesDown(j)
    BY <1>3, <1>5 DEF GoesOn, SetsUp, TakesDown, ConnectAwaits
  <2>3. ASSUME NEW k \in Jobs \ {j}
        PROVE  /\ ~ GoesOn(k)' /\ job'[k].at = job[k].at
               /\ SetsUp(k)' <=> SetsUp(k)
               /\ TakesDown(k)' <=> TakesDown(k)
    <3>1. job'[k].at = job[k].at
      BY <1>4, <1>5
    <3>2. GoesOn(k)' => job[k].at \in ConnectAwaits /\ ~ jobs[k].aborted
      BY <1>5, <3>1 DEF GoesOn
    <3>3. GoesOn(k)' => GoesOn(k) /\ (k = aborter => job[k].at = "idle")
      BY <1>4, <3>2 DEF GoesOn
    <3>4. ~ GoesOn(k)'
      BY <2>1, <3>2, <3>3 DEF JobsApart, ConnectAwaits
    <3> QED BY <3>1, <3>4 DEF SetsUp, TakesDown
  <2> QED BY <1>3, <1>5, <2>1, <2>2, <2>3 DEF JobsApart
<1> QED BY <1>3, <1>6, <1>7, <1>8 DEF ExtensionInv

\* A 401: k takes the setting down, while j goes on as after any failure.
LEMMA AuthFailureKeeps ==
  ASSUME ExtensionInv, NEW j \in Jobs, NEW k \in Jobs \ {j}, onAuthFailure(j, k)
  PROVE  ExtensionInv'
<1>1. ExtensionTypeOK
  BY DEF ExtensionInv
<1>2. PICK at \in {"failing", "leaving", "saving", "counting", "refreshing"} :
        /\ job' = [job EXCEPT ![j].at = at, ![k].at = "dropping"]
        /\ job[j].at # "idle"
  <2> DEFINE after == [preparing |-> "failing", logout |-> "leaving", configuring |-> "saving",
                      counting |-> "counting", refreshing |-> "refreshing"]
  <2>1. PICK at : at = after[job[j].at]
    OBVIOUS
  <2>2. job[j].at \in {"preparing", "logout", "configuring", "counting", "refreshing"}
    BY DEF onAuthFailure
  <2>3. at \in {"failing", "leaving", "saving", "counting", "refreshing"}
    BY <2>1, <2>2
  <2>4. job' = [job EXCEPT ![j].at = at, ![k].at = "dropping"]
    BY <2>1 DEF onAuthFailure
  <2> QED BY <2>2, <2>3, <2>4
<1>3. /\ job[k].at = "idle" /\ signedIn' = FALSE /\ pac' = "none"
      /\ mingled' = (mingled \/ AtSetting(job) \ {j} # {})
      /\ UNCHANGED <<link, foreign, aborter, kept, awake>>
  BY DEF onAuthFailure
<1>4. /\ job' \in [Jobs -> JobRows]
      /\ job'[j].at = at /\ job'[j].aborted = job[j].aborted
      /\ job'[k].at = "dropping"
      /\ \A i \in Jobs \ {j, k} : job'[i].at = job[i].at /\ job'[i].aborted = job[i].aborted
  <2>1. PICK mine : mine = [job[j] EXCEPT !.at = at]
    OBVIOUS
  <2>2. PICK its : its = [job[k] EXCEPT !.at = "dropping"]
    OBVIOUS
  <2>3. job \in [Jobs -> JobRows] /\ at \in Awaits
    BY <1>1 DEF ExtensionTypeOK, Awaits
  <2>4. mine \in JobRows /\ mine.at = at /\ mine.aborted = job[j].aborted
    BY <2>1, <2>3 DEF JobRows
  <2>5. its \in JobRows /\ its.at = "dropping"
    BY <2>2, <2>3 DEF JobRows, Awaits
  <2>6. job' = [job EXCEPT ![j] = mine, ![k] = its]
    BY <1>2, <2>1, <2>2, <2>3
  <2> QED BY <2>3, <2>4, <2>5, <2>6
<1>5. line' \in Seq(Jobs)
  <2>1. line \in Seq(Jobs) /\ <<k>> \in Seq(Jobs) /\ <<j>> \in Seq(Jobs) /\ <<>> \in Seq(Jobs)
    BY <1>1 DEF ExtensionTypeOK
  <2>2. PICK rest \in Seq(Jobs) : line' = line \o <<k>> \o rest
    BY <2>1 DEF onAuthFailure
  <2>3. line \o <<k>> \in Seq(Jobs)
    BY <2>1, ConcatProperties
  <2> QED BY <2>2, <2>3, ConcatProperties
<1>6. ExtensionTypeOK'
  BY <1>1, <1>3, <1>4, <1>5 DEF ExtensionTypeOK
<1>7. awake /\ \A i \in Jobs : job'[i].at = "idle" => ~ job'[i].aborted
  BY <1>2, <1>4 DEF ExtensionInv
<1>8. ASSUME ~ mingled' PROVE JobsApart'
  <2>1. JobsApart /\ AtSetting(job) \subseteq {j}
    BY <1>1, <1>3, <1>8 DEF ExtensionInv, ExtensionTypeOK
  <2>2. \A i \in Jobs \ {j} : ~ GoesOn(i) /\ ~ SetsUp(i) /\ ~ TakesDown(i)
    BY <2>1, AloneAtIt
  <2>3. /\ ~ GoesOn(j)' /\ ~ SetsUp(j)' /\ ~ GoesOn(k)' /\ ~ SetsUp(k)' /\ TakesDown(k)'
    BY <1>4 DEF GoesOn, SetsUp, TakesDown, ConnectAwaits
  <2>4. \A i \in Jobs \ {j, k} : ~ GoesOn(i)' /\ ~ SetsUp(i)'
    BY <1>4, <2>2 DEF GoesOn, SetsUp
  <2> QED BY <1>3, <2>1, <2>3, <2>4 DEF JobsApart
<1> QED BY <1>3, <1>6, <1>7, <1>8 DEF ExtensionInv

\* The rules have changed: another setting of ours, or none is left to set.
LEMMA ReapplyKeeps ==
  ASSUME ExtensionInv, NEW j \in Jobs, reapplyPac(j)
  PROVE  ExtensionInv'
<1>1. ExtensionTypeOK
  BY DEF ExtensionInv
<1>2. awake /\ link = "on" /\ UNCHANGED <<link, foreign, signedIn, aborter, kept, awake>>
  BY DEF reapplyPac, ExtensionInv, Starts
<1>3. CASE Asks(j, job, AtSetting(job), "none", "failing")
  BY <1>2, <1>3, TakesDownKeeps
<1>4. CASE Asks(j, job, AtSetting(job), "route", "reapplying")
  <2>1. /\ job' \in [Jobs -> JobRows] /\ line' \in Seq(Jobs) /\ pac' = "route"
        /\ mingled' \in BOOLEAN /\ (~ mingled' => ~ mingled /\ AtSetting(job) \subseteq {j})
        /\ job'[j].at = "reapplying" /\ job'[j].aborted = job[j].aborted
        /\ \A k \in Jobs \ {j} : job'[k].at = job[k].at /\ job'[k].aborted = job[k].aborted
    <3>1. PICK jobs, others : jobs = job /\ others = AtSetting(job)
      OBVIOUS
    <3>2. Asks(j, jobs, others, "route", "reapplying") /\ jobs \in [Jobs -> JobRows]
      BY <1>1, <1>4, <3>1 DEF ExtensionTypeOK
    <3> QED BY <1>1, <3>1, <3>2, OneAsks DEF Awaits
  <2>2. ExtensionTypeOK'
    BY <1>1, <1>2, <2>1 DEF ExtensionTypeOK
  <2>3. \A k \in Jobs : job'[k].at = "idle" => ~ job'[k].aborted
    BY <2>1 DEF ExtensionInv
  <2>4. ASSUME ~ mingled' PROVE JobsApart'
    <3>1. JobsApart /\ \A k \in Jobs \ {j} : ~ GoesOn(k) /\ ~ SetsUp(k) /\ ~ TakesDown(k)
      BY <2>1, <2>4, AloneAtIt DEF ExtensionInv
    <3>2. ~ TakesDown(j)
      BY DEF reapplyPac, Starts, TakesDown
    <3>3. pac = "route"
      BY <1>2, <3>1, <3>2 DEF JobsApart
    <3>4. ~ GoesOn(j)' /\ ~ TakesDown(j)' /\ job'[j].at # "routing"
      BY <2>1 DEF GoesOn, TakesDown, ConnectAwaits
    <3>5. \A k \in Jobs \ {j} : ~ GoesOn(k)' /\ ~ SetsUp(k)' /\ ~ TakesDown(k)'
      BY <2>1, <3>1 DEF GoesOn, SetsUp, TakesDown
    <3> QED BY <1>2, <2>1, <3>1, <3>3, <3>4, <3>5 DEF JobsApart
  <2> QED BY <1>2, <2>2, <2>3, <2>4 DEF ExtensionInv
<1> QED BY <1>3, <1>4 DEF reapplyPac

\* The service worker is stopped, and starts again from what was saved.
LEMMA StopsKeeps == ExtensionInv /\ WorkerStops => ExtensionInv'
<1> SUFFICES ASSUME ExtensionInv, WorkerStops PROVE ExtensionInv'
  OBVIOUS
<1>1. /\ ~ awake' /\ job' = [j \in Jobs |-> Idle] /\ line' = <<>> /\ aborter' = None
      /\ UNCHANGED <<link, pac, foreign, signedIn, kept, mingled>>
  BY DEF WorkerStops
<1>2. \A j \in Jobs : job'[j].at = "idle" /\ ~ job'[j].aborted
  BY <1>1 DEF Idle
<1>3. ExtensionTypeOK'
  <2>1. awake' \in BOOLEAN
    BY DEF WorkerStops
  <2>2. Idle \in JobRows
    BY DEF Idle, JobRows
  <2> QED BY <1>1, <2>1, <2>2, EmptySeq DEF ExtensionInv, ExtensionTypeOK
<1>4. ASSUME ~ mingled' PROVE JobsApart'
  <2>1. JobsApart
    BY <1>1, <1>4 DEF ExtensionInv
  <2>2. \A j \in Jobs : ~ GoesOn(j)' /\ ~ SetsUp(j)' /\ ~ TakesDown(j)'
    BY <1>2 DEF GoesOn, SetsUp, TakesDown, ConnectAwaits
  <2> QED BY <1>1, <2>1, <2>2 DEF JobsApart
<1> QED BY <1>2, <1>3, <1>4 DEF ExtensionInv

\* It starts again with what was saved, and no job (load).
LEMMA LoadKeeps == ExtensionInv /\ load => ExtensionInv'
<1> SUFFICES ASSUME ExtensionInv, load PROVE ExtensionInv'
  OBVIOUS
<1>1. ExtensionTypeOK /\ \A j \in Jobs : job[j].at = "idle" /\ ~ job[j].aborted
  BY DEF ExtensionInv, load
<1>2. /\ awake'
      /\ link' = IF kept = "connecting" \/ (kept = "on" /\ (pac = "none" \/ foreign)) THEN "off"
                 ELSE kept
      /\ pac' = IF kept = "connecting" THEN "none" ELSE pac
      /\ kept' = link'
      /\ mingled' = (mingled \/ (kept = "on" /\ foreign))
      /\ UNCHANGED <<foreign, signedIn, job, line, aborter>>
  BY DEF load
<1>3. ExtensionTypeOK'
  <2>1. awake' \in BOOLEAN
    BY DEF load
  <2>2. mingled' \in BOOLEAN
    BY <1>1, <1>2 DEF ExtensionTypeOK
  <2>3. link' \in Links /\ kept' \in Links /\ pac' \in {"none", "probe", "route"}
    BY <1>1, <1>2 DEF ExtensionTypeOK, Links
  <2> QED BY <1>1, <1>2, <2>1, <2>2, <2>3 DEF ExtensionTypeOK
<1>4. ASSUME ~ mingled' PROVE JobsApart'
  <2>1. JobsApart
    BY <1>1, <1>2, <1>4 DEF ExtensionInv, ExtensionTypeOK
  <2>2. ~ (kept = "on" /\ foreign)
    BY <1>1, <1>2, <1>4 DEF ExtensionTypeOK
  <2>3. \A j \in Jobs : ~ GoesOn(j)' /\ ~ SetsUp(j)' /\ ~ TakesDown(j)'
    BY <1>1, <1>2 DEF GoesOn, SetsUp, TakesDown, ConnectAwaits
  <2>4. /\ kept \in {"off", "no-route"} => pac = "none"
        /\ pac = "probe" => kept = "connecting"
        /\ signedIn \/ pac = "none"
    BY <2>1 DEF JobsApart
  <2>5. /\ link' # "connecting"
        /\ link' = "on" => pac' = "route"
        /\ link' \in {"off", "no-route"} => pac' = "none"
        /\ pac' # "probe"
        /\ signedIn' \/ pac' = "none"
    <3>1. CASE kept = "connecting"
      BY <1>2, <3>1
    <3>2. CASE kept = "on"
      BY <1>1, <1>2, <2>2, <2>4, <3>2 DEF ExtensionTypeOK
    <3>3. CASE kept \in {"off", "no-route"}
      BY <1>2, <2>4, <3>3
    <3> QED BY <1>1, <3>1, <3>2, <3>3 DEF ExtensionTypeOK, Links
  <2> QED BY <1>2, <2>3, <2>5 DEF JobsApart
<1> QED BY <1>1, <1>2, <1>3, <1>4 DEF ExtensionInv

\* Another extension takes the setting, or gives it back; or nothing happens.
LEMMA ExtensionStays ==
  ExtensionInv /\ (OtherExtension \/ UNCHANGED extensionVars) => ExtensionInv'
<1> SUFFICES ASSUME ExtensionInv, OtherExtension \/ UNCHANGED extensionVars
             PROVE  ExtensionInv'
  OBVIOUS
<1>1. /\ foreign' \in BOOLEAN
      /\ UNCHANGED <<link, pac, signedIn, job, line, aborter, kept, awake, mingled>>
  BY DEF OtherExtension, extensionVars, ExtensionInv, ExtensionTypeOK
<1>2. JobsApart' <=> JobsApart
  BY <1>1 DEF JobsApart, GoesOn, SetsUp, TakesDown
<1> QED BY <1>1, <1>2 DEF ExtensionInv, ExtensionTypeOK

\* Every step keeps it, job by job and await by await.
LEMMA ExtensionStep == ExtensionInv /\ [ExtensionNext]_extensionVars => ExtensionInv'
<1> SUFFICES ASSUME ExtensionInv, [ExtensionNext]_extensionVars PROVE ExtensionInv'
  OBVIOUS
<1>1. /\ ExtensionTypeOK
      /\ \A j \in Jobs : job[j].at = "idle" => ~ job[j].aborted
      /\ ~ awake => \A j \in Jobs : job[j].at = "idle"
  BY DEF ExtensionInv
<1>2. ASSUME NEW j \in Jobs,
             \/ ConnectStarts(j) \/ ConnectAnnounced(j) \/ ProbeEndpoint(j)
             \/ ConnectRoutes(j) \/ ConnectSucceeds(j) \/ DisconnectStarts(j)
             \/ SignOutStarts(j) \/ \E k \in Jobs \ {j} : onAuthFailure(j, k)
      PROVE  ExtensionInv'
  BY <1>2, ConnectStartsKeeps, AnnouncedKeeps, ProbeKeeps, RoutesKeeps, SucceedsKeeps,
     DisconnectStartsKeeps, SignOutStartsKeeps, AuthFailureKeeps
<1>3. ASSUME NEW j \in Jobs, NoRoute(j) \/ SignOutClears(j) \/ onAuthRejected(j)
      PROVE  ExtensionInv'
  <2>1. awake
    BY <1>1, <1>3 DEF NoRoute, SignOutClears, onAuthRejected, Starts
  <2>2. PICK at \in {"failing", "leaving", "rejecting"} :
          /\ Asks(j, job, AtSetting(job), "none", at)
          /\ UNCHANGED <<link, foreign, signedIn, aborter, kept, awake>>
    BY <1>3 DEF NoRoute, SignOutClears, onAuthRejected
  <2> QED BY <2>1, <2>2, TakesDownKeeps
<1>4. ASSUME NEW j \in Jobs,
             Unrouted(j) \/ DisconnectEnds(j) \/ SignedOut(j) \/ Dropped(j) \/ Forgotten(j)
      PROVE  ExtensionInv'
  <2>1. TakesDown(j)
    BY <1>4 DEF Unrouted, DisconnectEnds, SignedOut, Dropped, Forgotten, TakesDown
  <2>2. line' \in Seq(Jobs)
    BY <1>1, <1>4, LineGoesOn
       DEF Unrouted, DisconnectEnds, SignedOut, Dropped, Forgotten, ExtensionTypeOK
  <2>3. /\ \/ link' \in {"off", "no-route"} /\ Moves(j, "saving") /\ signedIn' = signedIn
           \/ link' = link /\ Moves(j, "forgetting") /\ signedIn' \in BOOLEAN
        /\ UNCHANGED <<pac, foreign, aborter, kept, awake, mingled>>
    BY <1>1, <1>4 DEF Unrouted, DisconnectEnds, SignedOut, Dropped, Forgotten, ExtensionTypeOK
  <2> QED BY <2>1, <2>2, <2>3, TakenDownKeeps
<1>5. ASSUME NEW j \in Jobs, ConnectAborted(j) \/ Emit(j) PROVE ExtensionInv'
  <2>1. /\ job' = [job EXCEPT ![j] = Idle]
        /\ kept' \in {kept, link} /\ job[j].at # "idle"
        /\ UNCHANGED <<link, pac, foreign, signedIn, line, aborter, awake, mingled>>
    BY <1>5 DEF ConnectAborted, Emit
  <2>2. /\ ~ GoesOn(j) /\ ~ TakesDown(j) /\ job[j].at \notin {"routing", "logout"}
    BY <1>5 DEF ConnectAborted, Emit, GoesOn, TakesDown, ConnectAwaits
  <2>3. /\ job' \in [Jobs -> JobRows]
        /\ job'[j].at = "idle" /\ ~ job'[j].aborted
        /\ \A k \in Jobs \ {j} : job'[k].at = job[k].at /\ job'[k].aborted = job[k].aborted
    BY <1>1, <2>1 DEF ExtensionTypeOK, Idle, JobRows
  <2>4. ~ GoesOn(j)' /\ ~ SetsUp(j)' /\ ~ TakesDown(j)'
    BY <2>3 DEF GoesOn, SetsUp, TakesDown, ConnectAwaits
  <2>5. signedIn' \in BOOLEAN /\ (signedIn => signedIn') /\ line' \in Seq(Jobs)
    BY <1>1, <2>1 DEF ExtensionTypeOK
  <2> QED BY <2>1, <2>2, <2>3, <2>4, <2>5, ApartFromIt
<1>6. ASSUME NEW j \in Jobs,
             \/ SignIn(j) \/ Fetched(j) \/ Reapplied(j)
             \/ \E at \in {"configuring", "counting", "refreshing"} : Fetches(j, at)
      PROVE  ExtensionInv'
  <2>1. PICK at \in {"configuring", "counting", "refreshing", "saving"} :
          /\ Moves(j, at)
          /\ job[j].at \in {"idle", "configuring", "counting", "refreshing", "reapplying"}
          /\ UNCHANGED <<link, pac, foreign, aborter, kept, awake, mingled>>
    BY <1>6 DEF SignIn, Fetched, Reapplied, Fetches, Starts
  <2>2. awake
    BY <1>1, <1>6 DEF SignIn, Fetched, Reapplied, Fetches, Starts
  <2>3. signedIn' \in BOOLEAN /\ (signedIn => signedIn') /\ line' \in Seq(Jobs)
    BY <1>1, <1>6, LineGoesOn DEF SignIn, Fetched, Reapplied, Fetches, ExtensionTypeOK
  <2>4. /\ job' \in [Jobs -> JobRows]
        /\ job'[j].at = at /\ job'[j].aborted = job[j].aborted
        /\ \A k \in Jobs \ {j} : job'[k].at = job[k].at /\ job'[k].aborted = job[k].aborted
    BY <1>1, <2>1, OneMovesOn DEF Awaits
  <2>5. ~ GoesOn(j) /\ ~ TakesDown(j) /\ job[j].at \notin {"routing", "logout"}
    BY <2>1 DEF GoesOn, TakesDown, ConnectAwaits
  <2>6. ~ GoesOn(j)' /\ ~ SetsUp(j)' /\ ~ TakesDown(j)'
    BY <2>4 DEF GoesOn, SetsUp, TakesDown, ConnectAwaits
  <2> QED BY <2>1, <2>2, <2>3, <2>4, <2>5, <2>6, ApartFromIt
<1>7. ASSUME NEW j \in Jobs, reapplyPac(j) PROVE ExtensionInv'
  BY <1>7, ReapplyKeeps
<1> QED
  BY <1>2, <1>3, <1>4, <1>5, <1>6, <1>7, StopsKeeps, LoadKeeps, ExtensionStays DEF ExtensionNext

\* Once its jobs have ended the popup tells the truth, wherever the service
\* worker was stopped (controller.ts).
THEOREM PopupTellsTheTruth == ExtensionSpec => []ExtensionTruthful
<1>1. ExtensionInv => ExtensionTruthful
  <2> SUFFICES ASSUME ExtensionInv, awake, \A j \in Jobs : job[j].at = "idle", ~ mingled
               PROVE  /\ link # "connecting"
                      /\ pac = IF link = "on" THEN "route" ELSE "none"
                      /\ signedIn \/ pac = "none"
    BY DEF ExtensionTruthful
  <2>1. JobsApart /\ link \in Links
    BY DEF ExtensionInv, ExtensionTypeOK
  <2>2. \A j \in Jobs : ~ GoesOn(j) /\ ~ SetsUp(j) /\ ~ TakesDown(j)
    BY DEF GoesOn, SetsUp, TakesDown, ConnectAwaits
  <2> QED BY <2>1, <2>2 DEF JobsApart, Links
<1> QED BY <1>1, ExtensionBegins, ExtensionStep, PTL DEF ExtensionSpec

-----------------------------------------------------------------------------
(* Orders, upgrades and refunds of one buyer.                              *)
(*                                                                         *)
(* No path of upgrades and refunds is cheaper or dearer than the list      *)
(* prices, for any prices, periods and orders.  The books are kept         *)
(* (Books), no service is had for nothing (NoneForNothing), and every      *)
(* window is the chain of its last order, which was paid as the days and   *)
(* the traffic of the orders before it require (WindowsFit).               *)

\* A period, in units of time.
Term == Day * PeriodDays

Prev(o) == purchase[o].prev

\* Orders are written in the order of their numbers, an open one is the last,
\* and what was never written, or lapsed, is empty.
RowsInOrder ==
  /\ \A o \in Purchases : purchase[o].status # "none" =>
       /\ \A p \in 1..o : purchase[p].status # "none"
       /\ purchase[o].tier \in Tiers
  /\ \A o \in Bought({"pending"}), p \in Purchases : p > o => purchase[p].status = "none"
  /\ \A o \in Bought({"none"}) : purchase[o] = NoPurchase

\* An upgrade comes after an order that has begun, and costs more; what is
\* not an upgrade costs the period.
Linked ==
  \A o \in Purchases :
    /\ Prev(o) # None =>
         /\ Prev(o) \in Begun /\ Prev(o) < o
         /\ Price[purchase[Prev(o)].tier] < Price[purchase[o].tier]
    /\ (Prev(o) = None /\ purchase[o].status # "none") =>
         purchase[o].due = Price[purchase[o].tier] /\ purchase[o].surplus = 0

\* No order counts for more than its list price.
Worth == \A o \in Purchases \ Bought({"none"}) : VSource(o) <= Price[purchase[o].tier]

\* Orders begin one after the other, and are served while they last.
Dated ==
  /\ \A o \in Begun :
       /\ purchase[o].from + held[o] <= date
       /\ held[o] = 0 \/ purchase[o].from + held[o] <= purchase[o].to
       /\ purchase[o].to <= purchase[o].from + Term
       /\ Prev(o) = None => purchase[o].to = purchase[o].from + Term
  /\ \A o, p \in Begun : o < p => purchase[o].from + held[o] <= purchase[p].from
  /\ \A o \in Purchases \ Begun : held[o] = 0

\* The user's order is the last that began, and runs as his row says.
Current ==
  sub.order # None =>
    /\ sub.order \in Bought({"completed"})
    /\ \A p \in Begun : p <= sub.order
    /\ sub.expires = purchase[sub.order].to
    /\ allowance = Quota

\* What a refund leaves behind.
Unrefunded ==
  \A o \in Bought({"none", "pending", "completed"}) :
    given[o] = [sum |-> 0, times |-> 0, cooled |-> FALSE]

\* The traffic of the cycle was drawn on some order.
AllDrawn == traffic = SumFunctionOnSet(drawn, Purchases)

\* The price of an open upgrade is what it was when it was drafted.
DaysThen(o) == DaysUp(purchase[o].to - purchase[o].created)
GrossThen(o) == MulDiv(Price[purchase[o].tier], DaysThen(o), DTotal(Prev(o)))
DraftPriced ==
  \A o \in Bought({"pending"}) :
    /\ purchase[o].created <= date
    /\ Prev(o) # None =>
         /\ purchase[o].to = purchase[Prev(o)].to
         /\ purchase[Prev(o)].from <= purchase[o].created
         /\ purchase[o].created < purchase[o].to
         /\ purchase[o].surplus =
              LeastOf(MulDiv(VSource(Prev(o)), DaysThen(o), DTotal(Prev(o))), GrossThen(o))
         /\ purchase[o].due = GrossThen(o) - purchase[o].surplus

(***************************************************************************)
(* A window that nothing came across is the chain of its last order, t.    *)
(***************************************************************************)
Window(r) == {p \in Begun : r \in Chain[p]}

\* Only the last is refunded, and none is dearer by the month.
OnlyLastRefunded(t) ==
  \A p \in Chain[t] \ {t} :
    purchase[p].status = "completed" /\ Monthly[purchase[p].tier] <= Monthly[purchase[t].tier]

HeldAtPrice == [o \in Purchases |-> Price[purchase[o].tier] * held[o]]

\* What was paid covers what was served before the last, and the last to its end.
PaidAhead(t) ==
  /\ purchase[t].from <= purchase[t].to
  /\ SumFunctionOnSet(HeldAtPrice, Chain[t] \ {t})
       + Price[purchase[t].tier] * (purchase[t].to - purchase[t].from)
     <= Term * (VWindow(Chain[t]) + Cardinality(Chain[t]))

\* What a refund leaves covers what was served, by the month.
LeftCovers(t) ==
  (given[t].times > 0 /\ ~ given[t].cooled) =>
    TimeByMonth(Chain[t]) + (IF Chain[t] \cap unmetered = {} THEN DataByMonth(Chain[t]) ELSE 0)
      <= Net(Chain[t])

\* What is not refunded is served, or was to its end.
ServedThrough(t) ==
  given[t].times = 0 =>
    /\ held[t] = LeastOf(date, purchase[t].to) - purchase[t].from
    /\ sub.order = t \/ purchase[t].to <= date

\* The first upgrade took over when the order before ended, at its price for
\* the days that were left.
FirstUpgrade(t) ==
  (Prev(t) # None /\ Prev(Prev(t)) = None) =>
    LET s == Prev(t) IN
    /\ held[s] = purchase[t].from - purchase[s].from
    /\ purchase[t].to = purchase[s].to
    /\ \E days \in 0..PeriodDays :
         /\ days * Day >= purchase[t].to - purchase[t].from
         /\ days * Day < purchase[t].to - purchase[t].from + PayWindow + Day
         /\ purchase[t].due = MulDiv(Price[purchase[t].tier], days, PeriodDays)
                                - MulDiv(Price[purchase[s].tier], days, PeriodDays)

LastOf(t) ==
  /\ OnlyLastRefunded(t) /\ PaidAhead(t) /\ LeftCovers(t) /\ ServedThrough(t)
  /\ FirstUpgrade(t)

WindowsFit ==
  \A r \in Begun : (Prev(r) = None /\ Window(r) \cap marred = {}) =>
    \E t \in Begun : Window(r) = Chain[t] /\ LastOf(t)

Books ==
  /\ BillingTypeOK /\ RowsInOrder /\ Linked /\ Worth /\ Dated /\ Current /\ Unrefunded
  /\ AllDrawn /\ DraftPriced

-----------------------------------------------------------------------------
(* Chains: functions defined along links to smaller numbers.               *)

\* A set of numbers up to N has a least one.
LEMMA LeastNumber ==
  ASSUME NEW N \in Nat, NEW S \in SUBSET (0..N), S # {}
  PROVE  \E n \in S : \A m \in S : n <= m
<1> DEFINE P == {0..n : n \in S}
           J == 0..N
<1>1. PICK s \in P : \A t \in P : t \subseteq s => t = s
  <2>1. IsFiniteSet(J)
    BY FS_Interval
  <2>2. P \in SUBSET SUBSET J
    <3>1. ASSUME NEW n \in S PROVE 0..n \in SUBSET (0..N)
      OBVIOUS
    <3> QED BY <3>1
  <2>3. P # {}
    OBVIOUS
  <2> HIDE DEF P, J
  <2> QED BY <2>1, <2>2, <2>3, LeastSubset
<1>2. PICK n \in S : s = 0..n
  BY <1>1
<1>3. ASSUME NEW m \in S PROVE n <= m
  <2> SUFFICES ASSUME m < n PROVE FALSE
    OBVIOUS
  <2>1. 0..m \subseteq 0..n /\ n \in 0..n /\ n \notin 0..m
    OBVIOUS
  <2>2. 0..m \in P
    OBVIOUS
  <2> QED BY <1>1, <1>2, <2>1, <2>2
<1> QED BY <1>3

\* f is what the links of next make of each number up to n.
Follows(f, next, n) ==
  f = [o \in 1..n |-> {o} \cup (IF next[o] = None THEN {} ELSE f[next[o]])]

\* Along links to smaller numbers there is such a function.
LEMMA FollowsExists ==
  ASSUME NEW next, NEW N \in Nat,
         \A o \in 1..N : next[o] = None \/ next[o] \in 1..(o - 1)
  PROVE  \E f : Follows(f, next, N)
<1> DEFINE P == {n \in 0..N : ~ \E f : Follows(f, next, n)}
<1> SUFFICES ASSUME P # {} PROVE FALSE
  OBVIOUS
<1>1. PICK n \in P : \A m \in P : n <= m
  BY LeastNumber
<1>2. n # 0
  <2>1. Follows([o \in 1..0 |-> {}], next, 0)
    BY DEF Follows
  <2> QED BY <1>1, <2>1
<1>3. PICK f : Follows(f, next, n - 1)
  BY <1>1, <1>2
<1> DEFINE g == [o \in 1..n |-> IF o = n THEN {o} \cup (IF next[o] = None THEN {} ELSE f[next[o]])
                                ELSE f[o]]
<1>4. \A o \in 1..(n - 1) : f[o] = {o} \cup (IF next[o] = None THEN {} ELSE f[next[o]])
  BY <1>3 DEF Follows
<1>5. \A o \in 1..n : next[o] # None => next[o] \in 1..(o - 1) /\ g[next[o]] = f[next[o]]
  BY <1>1
<1>6. \A o \in 1..n : g[o] = {o} \cup (IF next[o] = None THEN {} ELSE g[next[o]])
  <2> TAKE o \in 1..n
  <2>1. CASE o = n
    BY <1>5, <2>1
  <2>2. CASE o # n
    BY <1>4, <1>5, <2>2
  <2> QED BY <2>1, <2>2
<1>7. Follows(g, next, n)
  <2> DEFINE h == [o \in 1..n |-> {o} \cup (IF next[o] = None THEN {} ELSE g[next[o]])]
  <2>1. \A o \in 1..n : g[o] = h[o]
    BY <1>6
  <2>2. g = [o \in 1..n |-> g[o]] /\ h = [o \in 1..n |-> h[o]]
    OBVIOUS
  <2> HIDE DEF g
  <2>3. g = h
    BY <2>1, <2>2
  <2> QED BY <2>3 DEF Follows
<1> QED
  BY <1>1, <1>7
Straight == \A o \in Purchases : Prev(o) = None \/ Prev(o) \in 1..(o - 1)

Unfolds ==
  \A o \in Purchases : Chain[o] = {o} \cup (IF Prev(o) = None THEN {} ELSE Chain[Prev(o)])

\* A chain is its last order and the chain of the one before.
LEMMA ChainUnfolds == Straight => Unfolds
<1> SUFFICES ASSUME Straight PROVE Unfolds
  OBVIOUS
<1> DEFINE next == [o \in Purchases |-> Prev(o)]
<1>1. LastPurchase \in Nat /\ Purchases = 1..LastPurchase
  BY BillingAssumption DEF Purchases
<1>2. \A o \in 1..LastPurchase : next[o] = None \/ next[o] \in 1..(o - 1)
  BY <1>1 DEF Straight
<1>3. \E f : Follows(f, next, LastPurchase)
  <2> HIDE DEF next
  <2> QED BY <1>1, <1>2, FollowsExists
<1>4. \E f : f = [o \in Purchases |-> {o} \cup (IF purchase[o].prev = None THEN {}
                                               ELSE f[purchase[o].prev])]
  BY <1>1, <1>3 DEF Follows, Prev
<1>5. Chain = [o \in Purchases |-> {o} \cup (IF purchase[o].prev = None THEN {}
                                            ELSE Chain[purchase[o].prev])]
  BY <1>4 DEF Chain
<1> QED BY <1>5 DEF Unfolds, Prev

\* So it is after a step.
LEMMA ChainUnfoldsNext == Straight' => Unfolds'
BY ChainUnfolds, PTL

-----------------------------------------------------------------------------
(* Quotients.                                                              *)

\* Products of natural numbers are natural numbers.
LEMMA NatProduct ==
  ASSUME NEW m \in Nat, NEW n \in Nat
  PROVE  m * n \in Nat
OBVIOUS

\* A factor that is no smaller makes a product no smaller.
LEMMA ProductGrows ==
  ASSUME NEW c \in Nat, NEW m \in Int, NEW n \in Int, m <= n
  PROVE  c * m <= c * n
<1>1. n - m \in Nat
  OBVIOUS
<1>2. c * (n - m) \in Nat
  BY <1>1
<1>3. c * (n - m) = c * n - c * m
  OBVIOUS
<1> QED BY <1>2, <1>3

\* Of two products with a positive factor the smaller has the smaller other one.
LEMMA FactorFollows ==
  ASSUME NEW c \in Nat \ {0}, NEW m \in Int, NEW n \in Int, c * m < c * n
  PROVE  m < n
<1> SUFFICES ASSUME n <= m PROVE FALSE
  OBVIOUS
<1>1. c * n <= c * m
  BY ProductGrows
<1>2. c * n \in Int /\ c * m \in Int
  OBVIOUS
<1> QED BY <1>1, <1>2

\* What rounding down takes is less than the divisor.
LEMMA Quotient ==
  ASSUME NEW m \in Nat, NEW d \in Nat \ {0}
  PROVE  m \div d \in Nat /\ d * (m \div d) <= m /\ m < d * (m \div d) + d
OBVIOUS

\* A quotient grows with what is divided.
LEMMA QuotientGrows ==
  ASSUME NEW m \in Nat, NEW n \in Nat, m <= n, NEW d \in Nat \ {0}
  PROVE  m \div d <= n \div d
<1> DEFINE p == m \div d
           q == n \div d
<1>1. p \in Nat /\ q \in Nat /\ d * p <= m /\ n < d * q + d
  BY Quotient
<1> HIDE DEF p, q
<1>2. d * (q + 1) = d * q + d
  BY <1>1
<1>3. d * p < d * (q + 1)
  BY <1>1, <1>2
<1>4. p < q + 1
  BY <1>1, <1>3, FactorFollows
<1> QED BY <1>1, <1>4 DEF p, q

\* A share is no more than the whole, and grows with it.
LEMMA Share ==
  ASSUME NEW v \in Nat, NEW d \in Nat \ {0}, NEW n \in 0..d
  PROVE  MulDiv(v, n, d) \in Nat /\ MulDiv(v, n, d) <= v
<1> DEFINE q == (v * n) \div d
<1>1. v * n \in Nat /\ v * n <= v * d
  BY ProductGrows
<1>2. q \in Nat /\ d * q <= v * n
  BY <1>1, Quotient
<1> HIDE DEF q
<1>3. d * q < d * (v + 1)
  <2>1. d * (v + 1) = v * d + d
    OBVIOUS
  <2> QED BY <1>1, <1>2, <2>1
<1>4. q < v + 1
  BY <1>2, <1>3, FactorFollows
<1> QED BY <1>2, <1>4 DEF q, MulDiv

\* A share grows with the whole.
LEMMA ShareGrows ==
  ASSUME NEW v \in Nat, NEW w \in Nat, v <= w, NEW n \in Nat, NEW d \in Nat \ {0}
  PROVE  MulDiv(v, n, d) <= MulDiv(w, n, d)
<1>1. v * n \in Nat /\ w * n \in Nat /\ n * v <= n * w
  BY ProductGrows
<1>2. v * n <= w * n
  BY <1>1
<1> QED BY <1>1, <1>2, QuotientGrows DEF MulDiv

\* The days that time takes up cover it, and waste less than one.
LEMMA DaysCover ==
  ASSUME NEW time \in Nat
  PROVE  DaysUp(time) \in Nat /\ time <= Day * DaysUp(time) /\ Day * DaysUp(time) < time + Day
<1>1. Day \in Nat \ {0}
  BY BillingAssumption
<1>2. time + Day - 1 \in Nat
  BY <1>1
<1>3. \E q \in Nat : DaysUp(time) = q /\ Day * q <= time + Day - 1
                       /\ time + Day - 1 < Day * q + Day
  BY <1>1, <1>2, Quotient DEF DaysUp
<1> QED BY <1>1, <1>3

\* More time takes no fewer days.
LEMMA DaysGrow ==
  ASSUME NEW time \in Nat, NEW more \in Nat, time <= more
  PROVE  DaysUp(time) <= DaysUp(more)
<1>1. Day \in Nat \ {0}
  BY BillingAssumption
<1> QED BY <1>1, QuotientGrows DEF DaysUp

\* The days of a service of a period at most, and those that are left of it.
LEMMA DaysLeft ==
  ASSUME NEW whole \in Nat, whole <= Term, NEW left \in Nat, 0 < left, left <= whole
  PROVE  /\ DaysUp(whole) \in Nat \ {0} /\ DaysUp(whole) <= PeriodDays
         /\ DaysUp(left) \in 0..DaysUp(whole)
<1>1. Day \in Nat \ {0} /\ PeriodDays \in Nat \ {0}
  BY BillingAssumption
<1> DEFINE d == DaysUp(whole)
           n == DaysUp(left)
<1>2. d \in Nat /\ whole <= Day * d /\ Day * d < whole + Day
  BY DaysCover
<1>3. n \in Nat /\ left <= Day * n
  BY DaysCover
<1>4. n <= d
  BY DaysGrow
<1> HIDE DEF d, n
<1>5. d # 0
  <2>1. d = 0 => Day * d = 0
    BY <1>1
  <2> QED BY <1>2, <2>1
<1>6. d < PeriodDays + 1
  <2>1. Day * (PeriodDays + 1) = Term + Day
    BY <1>1 DEF Term
  <2>2. Day * d < Day * (PeriodDays + 1) /\ Day * d \in Nat /\ Term \in Nat
    BY <1>1, <1>2, <2>1 DEF Term
  <2> QED BY <1>1, <1>2, <2>2, FactorFollows
<1> QED BY <1>1, <1>2, <1>3, <1>4, <1>5, <1>6 DEF d, n

\* What an upgrade to a higher list price costs, and what it takes over.
LEMMA UpgradeTakes ==
  ASSUME NEW old \in Nat, NEW new \in Nat, old < new, NEW worth \in 0..old,
         NEW whole \in Nat, whole <= Term, NEW left \in Nat, 0 < left, left <= whole,
         NEW gross, NEW taken,
         gross = MulDiv(new, DaysUp(left), DaysUp(whole)),
         taken = LeastOf(MulDiv(worth, DaysUp(left), DaysUp(whole)), gross)
  PROVE  /\ gross \in Nat /\ taken \in 0..gross /\ gross <= new
         /\ taken <= MulDiv(worth, DaysUp(left), DaysUp(whole))
<1> DEFINE d == DaysUp(whole)
           n == DaysUp(left)
<1>1. d \in Nat \ {0} /\ n \in 0..d
  BY DaysLeft
<1>2. gross = MulDiv(new, n, d) /\ taken = LeastOf(MulDiv(worth, n, d), gross)
  OBVIOUS
<1> HIDE DEF d, n
<1>3. gross \in Nat /\ gross <= new
  BY <1>1, <1>2, Share
<1>4. worth \in Nat /\ MulDiv(worth, n, d) \in Nat
  <2>1. worth \in Nat
    OBVIOUS
  <2> QED BY <1>1, <2>1, Share
<1>5. taken \in 0..gross /\ taken <= MulDiv(worth, n, d)
  BY <1>2, <1>3, <1>4 DEF LeastOf
<1> QED BY <1>3, <1>5 DEF d, n

\* An upgrade from a list price to a higher one pays at least the difference
\* for all that is left, but for a cent.
LEMMA UpgradePays ==
  ASSUME NEW old \in Nat, NEW new \in Nat, old < new, NEW worth \in 0..old,
         NEW whole \in Nat, whole <= Term, NEW left \in Nat, 0 < left, left <= whole,
         NEW time \in 0..left, NEW gross, NEW taken,
         gross = MulDiv(new, DaysUp(left), DaysUp(whole)),
         taken = LeastOf(MulDiv(worth, DaysUp(left), DaysUp(whole)), gross)
  PROVE  /\ gross \in Nat /\ taken \in 0..gross /\ gross <= new
         /\ (new - old) * time <= Term * (gross - taken + 1)
<1>1. Day \in Nat \ {0} /\ PeriodDays \in Nat \ {0}
  BY BillingAssumption
<1> DEFINE d == DaysUp(whole)
           n == DaysUp(left)
<1>2. d \in Nat \ {0} /\ d <= PeriodDays /\ n \in 0..d
  BY DaysLeft
<1>3. left <= Day * n
  BY DaysCover
<1>4. gross = MulDiv(new, n, d) /\ taken = LeastOf(MulDiv(worth, n, d), gross)
  OBVIOUS
<1>5. gross \in Nat /\ gross <= new /\ taken \in 0..gross /\ taken <= MulDiv(worth, n, d)
  BY UpgradeTakes
<1> HIDE DEF d, n
<1>6. worth \in Nat /\ MulDiv(worth, n, d) \in Nat
  <2>1. worth \in Nat
    OBVIOUS
  <2> QED BY <1>2, <2>1, Share
<1>7. taken \in 0..gross
  BY <1>5
<1>8. new * n < d * gross + d
  <2>1. n \in Nat /\ new * n \in Nat
    BY <1>2, NatProduct
  <2> QED BY <1>2, <1>4, <2>1, Quotient DEF MulDiv
<1>9. d * taken <= old * n
  <2>1. worth * n \in Nat /\ d * MulDiv(worth, n, d) <= worth * n
    BY <1>2, Quotient, NatProduct DEF MulDiv
  <2>2. d * taken <= d * MulDiv(worth, n, d)
    BY <1>2, <1>5, <1>6, ProductGrows
  <2>3. n * worth <= n * old
    BY <1>2, ProductGrows
  <2>4. d * taken \in Int /\ d * MulDiv(worth, n, d) \in Int /\ n * worth = worth * n
        /\ n * old = old * n /\ old * n \in Int
    BY <1>2, <1>5, <1>6, <1>7
  <2> QED BY <2>1, <2>2, <2>3, <2>4
<1> DEFINE paid == gross - taken + 1
           more == new - old
<1>10. paid \in Nat /\ more \in Nat
  BY <1>5, <1>7
<1>11. more * n <= d * paid
  <2>1. more * n = new * n - old * n
    BY <1>2
  <2>2. d * paid = d * gross - d * taken + d
    BY <1>2, <1>5, <1>7
  <2>3. new * n \in Int /\ old * n \in Int /\ d * gross \in Int /\ d * taken \in Int
    BY <1>2, <1>5, <1>7
  <2> HIDE DEF paid, more
  <2> QED BY <1>2, <1>8, <1>9, <2>1, <2>2, <2>3
<1> HIDE DEF paid, more
<1>12. more * time <= more * (Day * n)
  BY <1>1, <1>2, <1>3, <1>10, ProductGrows
<1>13. Day * (more * n) <= Day * (d * paid)
  BY <1>1, <1>2, <1>10, <1>11, ProductGrows
<1>14. (Day * paid) * d <= (Day * paid) * PeriodDays
  BY <1>1, <1>2, <1>10, NatProduct, ProductGrows
<1>15. more * (Day * n) = Day * (more * n) /\ Day * (d * paid) = (Day * paid) * d
       /\ (Day * paid) * PeriodDays = Term * paid
  BY <1>1, <1>2, <1>10 DEF Term
<1>16. more * time \in Int /\ more * (Day * n) \in Int /\ Day * (d * paid) \in Int
       /\ Term * paid \in Int
  BY <1>1, <1>2, <1>10 DEF Term
<1>17. more * time <= Term * paid
  BY <1>12, <1>13, <1>14, <1>15, <1>16
<1> QED BY <1>5, <1>7, <1>17 DEF more, paid

\* What goes into a number so often is no more than the quotient.
LEMMA QuotientHolds ==
  ASSUME NEW m \in Nat, NEW d \in Nat \ {0}, NEW c \in Nat, d * c <= m
  PROVE  c <= m \div d
<1> DEFINE q == m \div d
<1>1. q \in Nat /\ m < d * q + d
  BY Quotient
<1> HIDE DEF q
<1>2. d * (q + 1) = d * q + d /\ d * c \in Nat
  BY <1>1
<1>3. c < q + 1
  BY <1>1, <1>2, FactorFollows
<1> QED BY <1>1, <1>3 DEF q

TermPositive == Term \in Nat \ {0} /\ Day * MonthDays \in Nat \ {0}

\* A period and a month take some time.
LEMMA TermIsPositive == TermPositive
<1>1. {Day, MonthDays, PeriodDays} \subseteq Nat \ {0}
  BY BillingAssumption
<1> QED BY <1>1 DEF TermPositive, Term

\* Time by the period costs no more than by the month.
LEMMA MonthCosts ==
  ASSUME NEW price \in Nat, NEW monthly \in Nat, NoDearer(price, monthly), NEW time \in Nat
  PROVE  (price * time) \div Term <= (monthly * time) \div (Day * MonthDays)
<1>1. Day \in Nat \ {0} /\ PeriodDays \in Nat \ {0} /\ MonthDays \in Nat \ {0}
  BY BillingAssumption
<1>2. Term \in Nat \ {0} /\ Day * MonthDays \in Nat \ {0}
  BY TermIsPositive DEF TermPositive
<1> DEFINE q == (price * time) \div Term
<1>3. price * time \in Nat /\ monthly * time \in Nat
  BY NatProduct
<1>4. q \in Nat /\ Term * q <= price * time
  BY <1>2, <1>3, Quotient
<1> HIDE DEF q
<1>5. MonthDays * (Term * q) <= MonthDays * (price * time)
  BY <1>1, <1>2, <1>3, <1>4, NatProduct, ProductGrows
<1>6. time * (price * MonthDays) <= time * (monthly * PeriodDays)
  <2>1. price * MonthDays \in Nat /\ monthly * PeriodDays \in Nat
    BY <1>1, NatProduct
  <2> QED BY <2>1, ProductGrows DEF NoDearer
<1>7. PeriodDays * (Day * MonthDays * q) <= PeriodDays * (monthly * time)
  <2>1. PeriodDays * (Day * MonthDays * q) = MonthDays * (Term * q)
    BY <1>1, <1>4 DEF Term
  <2>2. MonthDays * (price * time) = time * (price * MonthDays)
        /\ PeriodDays * (monthly * time) = time * (monthly * PeriodDays)
    BY <1>1
  <2>3. MonthDays * (Term * q) \in Int /\ time * (price * MonthDays) \in Int
        /\ time * (monthly * PeriodDays) \in Int
    BY <1>1, <1>2, <1>4
  <2> QED BY <1>5, <1>6, <2>1, <2>2, <2>3
<1>8. (Day * MonthDays) * q <= monthly * time
  <2> DEFINE m == Day * MonthDays * q
             n == monthly * time
  <2>1. m \in Nat /\ n \in Nat /\ PeriodDays * m <= PeriodDays * n
    BY <1>2, <1>3, <1>4, <1>7, NatProduct
  <2> HIDE DEF m, n
  <2>2. PeriodDays * m < PeriodDays * (n + 1)
    <3>1. PeriodDays * (n + 1) = PeriodDays * n + PeriodDays
      BY <1>1, <2>1
    <3>2. PeriodDays * m \in Nat /\ PeriodDays * n \in Nat
      BY <1>1, <2>1, NatProduct
    <3> QED BY <1>1, <2>1, <3>1, <3>2
  <2>3. m < n + 1
    BY <1>1, <2>1, <2>2, FactorFollows
  <2> QED BY <2>1, <2>3 DEF m, n
<1> QED BY <1>2, <1>3, <1>4, <1>8, QuotientHolds DEF q

\* What an order costs by the month, when it is held to its end.
LEMMA PeriodCosts ==
  ASSUME NEW price \in Nat, NEW monthly \in Nat, NoDearer(price, monthly)
  PROVE  price <= (monthly * Term) \div (Day * MonthDays)
<1>1. Term \in Nat \ {0}
  BY TermIsPositive DEF TermPositive
<1>2. price * Term \in Nat /\ Term * price <= price * Term
  BY <1>1, NatProduct
<1>3. price <= (price * Term) \div Term
  BY <1>1, <1>2, QuotientHolds
<1>4. (price * Term) \div Term \in Nat
  BY <1>1, <1>2, Quotient
<1>5. (monthly * Term) \div (Day * MonthDays) \in Nat
  BY <1>1, TermIsPositive, NatProduct, Quotient DEF TermPositive
<1>6. (price * Term) \div Term <= (monthly * Term) \div (Day * MonthDays)
  BY <1>1, MonthCosts
<1> QED BY <1>3, <1>4, <1>5, <1>6

\* What the first order keeps, of what it cost, is what it served, but for a cent.
LEMMA FirstKeeps ==
  ASSUME NEW price \in Nat, NEW before \in Nat, NEW after \in Nat, before + after = Term,
         NEW days \in 0..PeriodDays, after <= days * Day
  PROVE  price - MulDiv(price, days, PeriodDays) <= (price * before) \div Term + 1
<1>1. Day \in Nat \ {0} /\ PeriodDays \in Nat \ {0} /\ Term \in Nat \ {0} /\ days \in Nat
  BY BillingAssumption, TermIsPositive DEF TermPositive
<1> DEFINE back == (price * days) \div PeriodDays
           cost == (price * before) \div Term
<1>2. back \in Nat /\ price * days < PeriodDays * back + PeriodDays
  BY <1>1, NatProduct, Quotient
<1>3. cost \in Nat /\ price * before < Term * cost + Term
  BY <1>1, NatProduct, Quotient
<1> HIDE DEF back, cost
<1>4. Day * (price * days + 1) <= Day * (PeriodDays * back + PeriodDays)
  <2>1. price * days + 1 \in Nat /\ PeriodDays * back + PeriodDays \in Nat
    BY <1>1, <1>2
  <2>2. price * days + 1 <= PeriodDays * back + PeriodDays
    BY <1>1, <1>2, <2>1
  <2> QED BY <1>1, <2>1, <2>2, ProductGrows
<1>5. Day * (PeriodDays * back + PeriodDays) = Term * back + Term
  BY <1>1, <1>2 DEF Term
<1>6. price * after <= price * (days * Day)
  BY <1>1, NatProduct, ProductGrows
<1>7. Day * (price * days + 1) = price * (days * Day) + Day
  BY <1>1
<1>8. price * Term = price * before + price * after
  BY <1>1
<1>9. price * after \in Nat /\ price * before \in Nat /\ price * (days * Day) \in Nat
      /\ Term * back \in Nat /\ Term * cost \in Nat /\ price * Term \in Nat
  BY <1>1, <1>2, <1>3, NatProduct
<1>10. price * Term < Term * back + Term * cost + 2 * Term
  BY <1>1, <1>3, <1>4, <1>5, <1>6, <1>7, <1>8, <1>9
<1>11. Term * price < Term * (back + cost + 2)
  BY <1>1, <1>2, <1>3, <1>10
<1>12. price < back + cost + 2
  BY <1>1, <1>2, <1>3, <1>11, FactorFollows
<1> QED BY <1>2, <1>3, <1>12 DEF back, cost, MulDiv

\* What the second one costs is what it serves, but for a day and a cent.
LEMMA SecondCosts ==
  ASSUME NEW price \in Nat, NEW after \in Nat, NEW days \in 0..PeriodDays,
         days * Day <= after + Day
  PROVE  MulDiv(price, days, PeriodDays) <= (price * after) \div Term + price \div PeriodDays + 1
<1>1. Day \in Nat \ {0} /\ PeriodDays \in Nat \ {0} /\ Term \in Nat \ {0} /\ days \in Nat
  BY BillingAssumption, TermIsPositive DEF TermPositive
<1> DEFINE paid == (price * days) \div PeriodDays
           cost == (price * after) \div Term
           aday == price \div PeriodDays
<1>2. paid \in Nat /\ PeriodDays * paid <= price * days
  BY <1>1, NatProduct, Quotient
<1>3. cost \in Nat /\ price * after < Term * cost + Term
  BY <1>1, NatProduct, Quotient
<1>4. aday \in Nat /\ price < PeriodDays * aday + PeriodDays
  BY <1>1, Quotient
<1> HIDE DEF paid, cost, aday
<1>5. Day * (PeriodDays * paid) <= Day * (price * days)
  BY <1>1, <1>2, NatProduct, ProductGrows
<1>6. price * (days * Day) <= price * (after + Day)
  BY <1>1, NatProduct, ProductGrows
<1>7. Day * (price + 1) <= Day * (PeriodDays * aday + PeriodDays)
  <2>1. PeriodDays * aday + PeriodDays \in Nat
    BY <1>1, <1>4
  <2>2. price + 1 <= PeriodDays * aday + PeriodDays
    BY <1>4, <2>1
  <2> QED BY <1>1, <2>1, <2>2, ProductGrows
<1>8. /\ Day * (PeriodDays * paid) = Term * paid
      /\ Day * (price * days) = price * (days * Day)
      /\ price * (after + Day) = price * after + Day * price
      /\ Day * (price + 1) = Day * price + Day
      /\ Day * (PeriodDays * aday + PeriodDays) = Term * aday + Term
  BY <1>1, <1>2, <1>4 DEF Term
<1>9. Term * paid \in Nat /\ price * (days * Day) \in Nat /\ price * after \in Nat
      /\ Day * price \in Nat /\ Term * cost \in Nat /\ Term * aday \in Nat
  BY <1>1, <1>2, <1>3, <1>4, NatProduct
<1>10. Term * paid < Term * cost + Term * aday + 2 * Term
  BY <1>1, <1>3, <1>5, <1>6, <1>7, <1>8, <1>9
<1>11. Term * paid < Term * (cost + aday + 2)
  BY <1>1, <1>3, <1>4, <1>9, <1>10
<1>12. paid < cost + aday + 2
  BY <1>1, <1>2, <1>3, <1>4, <1>11, FactorFollows
<1> QED BY <1>2, <1>3, <1>4, <1>12 DEF paid, cost, aday, MulDiv
-----------------------------------------------------------------------------
(* Chains of orders.                                                       *)

RowsLinked == BillingTypeOK /\ Linked

\* The types of what is kept of an order.
LEMMA RowTypes ==
  ASSUME BillingTypeOK, NEW o \in Purchases
  PROVE  /\ purchase[o] \in PurchaseRows
         /\ purchase[o].status \in {"none", "pending", "completed", "partially_refunded", "refunded"}
         /\ purchase[o].tier \in Tiers \cup {None} /\ Prev(o) \in Purchases \cup {None}
         /\ purchase[o].due \in Nat /\ purchase[o].surplus \in Nat
         /\ purchase[o].created \in Nat /\ purchase[o].from \in Nat /\ purchase[o].to \in Nat
         /\ given[o].sum \in Nat /\ given[o].times \in 0..MaxRefunds /\ given[o].cooled \in BOOLEAN
         /\ held[o] \in Nat /\ drawn[o] \in Nat
<1>1. Horizon \in Nat /\ Quota \in Nat
  BY BillingAssumption
<1>2. /\ purchase[o] \in PurchaseRows /\ held[o] \in Dates /\ drawn[o] \in 0..Quota
      /\ given[o] \in [sum : Nat, times : 0..MaxRefunds, cooled : BOOLEAN]
  BY DEF BillingTypeOK
<1> QED BY <1>1, <1>2 DEF PurchaseRows, Dates, EndTimes, Prev

\* The orders are the numbers up to the bound.
LEMMA OrdersFinite == LastPurchase \in Nat /\ Purchases = 1..LastPurchase /\ IsFiniteSet(Purchases)
BY BillingAssumption, FS_Interval DEF Purchases

\* An upgrade comes after what it upgrades.
LEMMA LinksStraight == RowsLinked => Straight
<1> SUFFICES ASSUME RowsLinked, NEW o \in Purchases
             PROVE  Prev(o) = None \/ Prev(o) \in 1..(o - 1)
  BY DEF Straight
<1>1. Prev(o) \in Purchases \cup {None}
  BY RowTypes DEF RowsLinked
<1>2. Prev(o) # None => Prev(o) < o
  BY DEF RowsLinked, Linked
<1> QED BY <1>1, <1>2, OrdersFinite

ChainsFit ==
  \A o \in Purchases :
    /\ o \in Chain[o] /\ Chain[o] \subseteq 1..o /\ Chain[o] \ {o} \subseteq Begun
    /\ Chain[o] = {o} \cup (IF Prev(o) = None THEN {} ELSE Chain[Prev(o)])

\* A chain holds its last order, and before it begun orders with smaller numbers.
LEMMA ChainFits == RowsLinked => ChainsFit
<1> SUFFICES ASSUME RowsLinked PROVE ChainsFit
  OBVIOUS
<1>1. Straight /\ Unfolds
  BY LinksStraight, ChainUnfolds
<1> DEFINE Fits(o) == o \in Chain[o] /\ Chain[o] \subseteq 1..o /\ Chain[o] \ {o} \subseteq Begun
           P == {o \in Purchases : ~ Fits(o)}
<1> SUFFICES ASSUME P # {} PROVE FALSE
  BY <1>1 DEF ChainsFit, Unfolds
<1>2. P \in SUBSET (0..LastPurchase)
  BY OrdersFinite
<1>3. PICK o \in P : \A p \in P : o <= p
  <2> HIDE DEF P
  <2> QED BY <1>2, LeastNumber, OrdersFinite
<1>4. o \in Purchases /\ ~ Fits(o) /\ o \in Nat
  BY <1>3, OrdersFinite
<1>5. Chain[o] = {o} \cup (IF Prev(o) = None THEN {} ELSE Chain[Prev(o)])
  BY <1>1, <1>4 DEF Unfolds
<1>6. CASE Prev(o) = None
  BY <1>4, <1>5, <1>6, OrdersFinite
<1>7. CASE Prev(o) # None
  <2>1. Prev(o) \in Purchases /\ Prev(o) \in 1..(o - 1) /\ Prev(o) \in Begun
    BY <1>1, <1>4, <1>7, RowTypes DEF RowsLinked, Linked, Straight
  <2>2. Fits(Prev(o))
    BY <1>3, <1>4, <2>1
  <2> HIDE DEF P
  <2> QED BY <1>4, <1>5, <1>7, <2>1, <2>2
<1> QED BY <1>6, <1>7

\* A chain is a finite set of begun orders, the first of them first.
LEMMA ChainOfBegun ==
  ASSUME RowsLinked, NEW t \in Begun
  PROVE  /\ t \in Purchases /\ t \in Chain[t] /\ Chain[t] \subseteq Begun
         /\ Begun \subseteq Purchases /\ IsFiniteSet(Chain[t])
         /\ \A p \in Chain[t] : p \in Nat /\ p <= t
<1>1. t \in Purchases /\ Begun \subseteq Purchases
  BY DEF Begun, Bought
<1>2. t \in Chain[t] /\ Chain[t] \subseteq 1..t /\ Chain[t] \ {t} \subseteq Begun
  BY <1>1, ChainFits DEF ChainsFit
<1>3. t \in Nat
  BY <1>1, OrdersFinite
<1>4. IsFiniteSet(1..t)
  BY <1>3, FS_Interval
<1> QED BY <1>1, <1>2, <1>3, <1>4, FS_Subset

\* Steps that leave begun orders begun and where they are leave their chains.
LEMMA ChainsKept ==
  ASSUME RowsLinked, RowsLinked', \A p \in Begun : p \in Begun' /\ Prev(p)' = Prev(p)
  PROVE  \A p \in Begun : Chain'[p] = Chain[p]
<1>1. ChainsFit /\ ChainsFit'
  BY ChainFits, PTL
<1> DEFINE P == {p \in Begun : Chain'[p] # Chain[p]}
<1> SUFFICES ASSUME P # {} PROVE FALSE
  OBVIOUS
<1>2. P \in SUBSET (0..LastPurchase) /\ Begun \subseteq Purchases
  BY OrdersFinite DEF Begun, Bought
<1>3. PICK o \in P : \A p \in P : o <= p
  <2> HIDE DEF P
  <2> QED BY <1>2, LeastNumber, OrdersFinite
<1>4. o \in Purchases /\ o \in Begun /\ Chain'[o] # Chain[o] /\ o \in Nat
  BY <1>2, <1>3, OrdersFinite
<1>5. Chain[o] = {o} \cup (IF Prev(o) = None THEN {} ELSE Chain[Prev(o)])
  BY <1>1, <1>4 DEF ChainsFit
<1>6. Chain'[o] = {o} \cup (IF Prev(o) = None THEN {} ELSE Chain'[Prev(o)])
  BY <1>1, <1>4 DEF ChainsFit
<1>7. Prev(o) # None
  BY <1>4, <1>5, <1>6
<1>8. Prev(o) \in Begun /\ Prev(o) < o /\ Prev(o) \in Nat
  <2>1. Prev(o) \in Begun /\ Prev(o) < o
    BY <1>4, <1>7 DEF RowsLinked, Linked
  <2>2. Prev(o) \in Purchases
    BY <1>2, <2>1
  <2>3. Purchases \subseteq Nat
    BY OrdersFinite
  <2> QED BY <2>1, <2>2, <2>3
<1>9. Chain'[Prev(o)] = Chain[Prev(o)]
  BY <1>3, <1>4, <1>8
<1> HIDE DEF P
<1> QED BY <1>4, <1>5, <1>6, <1>9

\* What a refund of the last order counts is its chain, if the others stand.
LEMMA BasisUnfolds ==
  ASSUME Straight
  PROVE  \A o \in Purchases :
           BasisOf[o] = {o} \cup (IF Prev(o) # None
                                  THEN IF purchase[Prev(o)].status = "completed"
                                       THEN BasisOf[Prev(o)] ELSE {}
                                  ELSE {})
<1> DEFINE next == [o \in Purchases |-> IF Prev(o) # None
                                        THEN IF purchase[Prev(o)].status = "completed"
                                             THEN Prev(o) ELSE None
                                        ELSE None]
<1>1. \A o \in 1..LastPurchase : next[o] = None \/ next[o] \in 1..(o - 1)
  BY OrdersFinite DEF Straight
<1>2. \E f : Follows(f, next, LastPurchase)
  <2> HIDE DEF next
  <2> QED BY <1>1, OrdersFinite, FollowsExists
<1>3. PICK f : f = [o \in Purchases |-> {o} \cup (IF next[o] = None THEN {} ELSE f[next[o]])]
  BY <1>2, OrdersFinite DEF Follows
<1>4. f = [o \in Purchases |->
             LET p == purchase[o].prev
             IN  {o} \cup (IF p # None THEN IF purchase[p].status = "completed" THEN f[p] ELSE {}
                           ELSE {})]
  <2> DEFINE g == [o \in Purchases |->
                     LET p == purchase[o].prev
                     IN  {o} \cup (IF p # None
                                   THEN IF purchase[p].status = "completed" THEN f[p] ELSE {}
                                   ELSE {})]
             h == [o \in Purchases |-> {o} \cup (IF next[o] = None THEN {} ELSE f[next[o]])]
  <2>1. ASSUME NEW o \in Purchases PROVE h[o] = g[o]
    <3>1. CASE Prev(o) = None
      BY <3>1 DEF Prev
    <3>2. CASE Prev(o) # None /\ purchase[Prev(o)].status = "completed"
      BY <3>2 DEF Prev
    <3>3. CASE Prev(o) # None /\ purchase[Prev(o)].status # "completed"
      BY <3>3 DEF Prev
    <3> QED BY <3>1, <3>2, <3>3
  <2>2. h = [o \in Purchases |-> h[o]] /\ g = [o \in Purchases |-> g[o]]
    OBVIOUS
  <2>3. f = h
    BY <1>3
  <2> HIDE DEF g, h
  <2>4. f = g
    BY <2>1, <2>2, <2>3
  <2> QED BY <2>4 DEF g
<1>5. BasisOf = [o \in Purchases |->
                   LET p == purchase[o].prev
                   IN  {o} \cup (IF p # None
                                 THEN IF purchase[p].status = "completed" THEN BasisOf[p] ELSE {}
                                 ELSE {})]
  BY <1>4 DEF BasisOf
<1> QED BY <1>5 DEF Prev

\* What a refund looks back on is the chain, if all before the order stand.
LEMMA BasisIsChain ==
  ASSUME RowsLinked
  PROVE  \A t \in Purchases :
           (\A p \in Chain[t] \ {t} : purchase[p].status = "completed") => BasisOf[t] = Chain[t]
<1> DEFINE Stand(t) == \A p \in Chain[t] \ {t} : purchase[p].status = "completed"
           P == {t \in Purchases : Stand(t) /\ BasisOf[t] # Chain[t]}
<1> SUFFICES ASSUME P # {} PROVE FALSE
  OBVIOUS
<1>1. Straight /\ ChainsFit
  BY LinksStraight, ChainFits
<1>2. P \in SUBSET (0..LastPurchase)
  BY OrdersFinite
<1>3. PICK o \in P : \A p \in P : o <= p
  <2> HIDE DEF P
  <2> QED BY <1>2, LeastNumber, OrdersFinite
<1>4. o \in Purchases /\ Stand(o) /\ BasisOf[o] # Chain[o] /\ o \in Nat
  BY <1>3, OrdersFinite
<1>5. Chain[o] = {o} \cup (IF Prev(o) = None THEN {} ELSE Chain[Prev(o)])
  BY <1>1, <1>4 DEF ChainsFit
<1>6. BasisOf[o] = {o} \cup (IF Prev(o) # None
                             THEN IF purchase[Prev(o)].status = "completed"
                                  THEN BasisOf[Prev(o)] ELSE {}
                             ELSE {})
  BY <1>1, <1>4, BasisUnfolds
<1>7. Prev(o) # None
  BY <1>4, <1>5, <1>6
<1> DEFINE q == Prev(o)
<1>8. q \in Purchases /\ q \in Nat /\ q < o
  BY <1>1, <1>4, <1>7, OrdersFinite, RowTypes DEF RowsLinked, Linked, Straight
<1>9. q \in Chain[q] /\ Chain[q] \subseteq 1..q
  BY <1>1, <1>8 DEF ChainsFit
<1>10. o \notin Chain[q]
  BY <1>4, <1>8, <1>9
<1>11. purchase[q].status = "completed" /\ Stand(q)
  BY <1>4, <1>5, <1>7, <1>9, <1>10
<1>12. BasisOf[q] = Chain[q]
  BY <1>3, <1>4, <1>8, <1>11
<1> HIDE DEF P, Stand
<1> QED BY <1>4, <1>5, <1>6, <1>7, <1>11, <1>12
-----------------------------------------------------------------------------
(* Sums over windows.                                                      *)

\* Prices are numbers.
LEMMA ListPrices ==
  ASSUME NEW tier \in Tiers
  PROVE  Price[tier] \in Nat /\ Monthly[tier] \in Nat
BY BillingAssumption

\* An order that has begun has prices.
LEMMA BegunPriced ==
  ASSUME BillingTypeOK, RowsInOrder, NEW o \in Begun
  PROVE  purchase[o].tier \in Tiers /\ Price[purchase[o].tier] \in Nat
         /\ Monthly[purchase[o].tier] \in Nat /\ o \in Purchases
<1>1. o \in Purchases /\ purchase[o].status # "none"
  BY DEF Begun, Bought
<1>2. purchase[o].tier \in Tiers
  BY <1>1 DEF RowsInOrder
<1> QED BY <1>1, <1>2, ListPrices

\* What is charged and what is served are numbers.
LEMMA WindowSums ==
  ASSUME BillingTypeOK, RowsInOrder, NEW C \in SUBSET Begun, IsFiniteSet(C)
  PROVE  /\ VWindow(C) \in Nat /\ TimeByMonth(C) \in Nat /\ DataByMonth(C) \in Nat
         /\ TimeByPeriod(C) \in Nat /\ Net(C) \in Int /\ Refunds(C) \in Nat
         /\ SumFunctionOnSet(HeldAtPrice, C) \in Nat
<1>1. ASSUME NEW o \in C
      PROVE  /\ purchase[o].due \in Nat /\ given[o].sum \in Nat /\ given[o].times \in Nat
             /\ Price[purchase[o].tier] * held[o] \in Nat
             /\ Monthly[purchase[o].tier] * held[o] \in Nat
             /\ Monthly[purchase[o].tier] * drawn[o] \in Nat
             /\ o \in Purchases
  <2>1. o \in Purchases /\ Price[purchase[o].tier] \in Nat /\ Monthly[purchase[o].tier] \in Nat
    BY BegunPriced
  <2>2. held[o] \in Nat /\ drawn[o] \in Nat
    BY <2>1, RowTypes
  <2>3. purchase[o].due \in Nat /\ given[o].sum \in Nat /\ given[o].times \in Nat
    BY <2>1, RowTypes
  <2> QED BY <2>1, <2>2, <2>3, NatProduct
<1>2. Term \in Nat \ {0} /\ Day * MonthDays \in Nat \ {0} /\ Quota \in Nat \ {0}
  BY TermIsPositive, BillingAssumption DEF TermPositive
<1>3. VWindow(C) \in Nat
  <2> DEFINE f == [o \in C |-> purchase[o].due]
  <2>1. \A o \in C : f[o] \in Nat
    BY <1>1
  <2> HIDE DEF f
  <2>2. SumFunctionOnSet(f, C) \in Nat
    BY <2>1, SumNat
  <2> QED BY <2>2 DEF VWindow, f
<1>4. TimeByMonth(C) \in Nat
  <2> DEFINE f == [o \in C |-> (Monthly[purchase[o].tier] * held[o]) \div (Day * MonthDays)]
  <2>1. \A o \in C : f[o] \in Nat
    BY <1>1, <1>2, Quotient
  <2> HIDE DEF f
  <2>2. SumFunctionOnSet(f, C) \in Nat
    BY <2>1, SumNat
  <2> QED BY <2>2 DEF TimeByMonth, f
<1>5. TimeByPeriod(C) \in Nat
  <2> DEFINE f == [o \in C |-> (Price[purchase[o].tier] * held[o]) \div Term]
  <2>1. \A o \in C : f[o] \in Nat
    BY <1>1, <1>2, Quotient
  <2> HIDE DEF f
  <2>2. SumFunctionOnSet(f, C) \in Nat
    BY <2>1, SumNat
  <2> QED BY <2>2 DEF TimeByPeriod, f, Term
<1>6. DataByMonth(C) \in Nat
  <2> DEFINE f == [o \in C |-> Monthly[purchase[o].tier] * drawn[o]]
  <2>1. \A o \in C : f[o] \in Nat
    BY <1>1
  <2> HIDE DEF f
  <2>2. SumFunctionOnSet(f, C) \in Nat
    BY <2>1, SumNat
  <2>3. SumFunctionOnSet(f, C) \div Quota \in Nat
    BY <1>2, <2>2, Quotient
  <2> QED BY <2>3 DEF DataByMonth, f
<1>7. Net(C) \in Int
  <2> DEFINE f == [o \in C |-> purchase[o].due - given[o].sum]
  <2>1. \A o \in C : f[o] \in Int
    BY <1>1
  <2> HIDE DEF f
  <2>2. SumFunctionOnSet(f, C) \in Int
    BY <2>1, SumInt
  <2> QED BY <2>2 DEF Net, f
<1>8. Refunds(C) \in Nat
  <2> DEFINE f == [o \in C |-> given[o].times]
  <2>1. \A o \in C : f[o] \in Nat
    BY <1>1
  <2> HIDE DEF f
  <2>2. SumFunctionOnSet(f, C) \in Nat
    BY <2>1, SumNat
  <2> QED BY <2>2 DEF Refunds, f
<1>9. SumFunctionOnSet(HeldAtPrice, C) \in Nat
  <2>1. \A o \in C : HeldAtPrice[o] \in Nat
    BY <1>1 DEF HeldAtPrice
  <2> QED BY <2>1, SumNat
<1> QED BY <1>3, <1>4, <1>5, <1>6, <1>7, <1>8, <1>9

\* What leaves a chain's orders and the service before its last order alone,
\* and after a refund serves no more of it, leaves the bounds standing.
LEMMA LastOfKept ==
  ASSUME Books, BillingTypeOK', NEW t \in Begun, LastOf(t), Chain'[t] = Chain[t],
         \A p \in Chain[t] : purchase'[p] = purchase[p] /\ given'[p] = given[p],
         \A p \in Chain[t] \ {t} : held'[p] = held[p],
         given[t].times > 0 => held'[t] = held[t] /\ \A p \in Chain[t] : drawn'[p] <= drawn[p],
         Chain[t] \cap unmetered \subseteq unmetered',
         ServedThrough(t)'
  PROVE  LastOf(t)'
<1> DEFINE C == Chain[t]
<1>1. RowsLinked
  BY DEF Books, RowsLinked
<1>2. /\ t \in Purchases /\ t \in C /\ C \subseteq Begun /\ IsFiniteSet(C)
      /\ C \subseteq Purchases
  BY <1>1, ChainOfBegun
<1>3. BillingTypeOK /\ RowsInOrder
  BY DEF Books
<1>4. \A p \in C : purchase'[p] = purchase[p] /\ given'[p] = given[p]
  OBVIOUS
<1>5. \A p \in C : p # t => held'[p] = held[p]
  OBVIOUS
<1>6. Chain'[t] = C
  OBVIOUS
<1>7. OnlyLastRefunded(t)'
  <2>1. OnlyLastRefunded(t)
    BY DEF LastOf
  <2> QED BY <2>1, <1>2, <1>4 DEF OnlyLastRefunded
<1>8. VWindow(C)' = VWindow(C)
  <2>1. [o \in C |-> purchase[o].due]' = [o \in C |-> purchase[o].due]
    BY <1>4, <1>6
  <2> QED BY <2>1, <1>6 DEF VWindow
<1>9. PaidAhead(t)'
  <2>1. PaidAhead(t)
    BY DEF LastOf
  <2>2. \A p \in C \ {t} : HeldAtPrice[p] = HeldAtPrice'[p]
    BY <1>2, <1>4, <1>5 DEF HeldAtPrice
  <2>3. IsFiniteSet(C \ {t})
    BY <1>2, FS_Subset
  <2> DEFINE f == HeldAtPrice
             g == HeldAtPrice'
             D == C \ {t}
  <2>4. \A p \in D : f[p] = g[p]
    BY <2>2
  <2> HIDE DEF f, g, D
  <2>5. SumFunctionOnSet(f, D) = SumFunctionOnSet(g, D)
    BY <2>3, <2>4, SumAgree DEF D
  <2>6. SumFunctionOnSet(HeldAtPrice, C \ {t})' = SumFunctionOnSet(HeldAtPrice, C \ {t})
    BY <2>5, <1>6 DEF f, g, D
  <2>7. purchase'[t] = purchase[t]
    BY <1>2, <1>4
  <2> QED BY <2>1, <2>6, <2>7, <1>6, <1>8 DEF PaidAhead
<1>10. FirstUpgrade(t)'
  <2>1. SUFFICES ASSUME Prev(t)' # None, (Prev(Prev(t)) = None)'
                 PROVE  FirstUpgrade(t)'
    BY DEF FirstUpgrade
  <2> DEFINE s == Prev(t)
  <2>2. Prev(t)' = s /\ purchase'[t] = purchase[t]
    BY <1>2, <1>4 DEF Prev
  <2>3. s # None
    BY <2>1, <2>2
  <2>4. Linked /\ ChainsFit
    BY <1>1, ChainFits DEF RowsLinked
  <2>5. s \in Begun /\ s < t
    BY <1>2, <2>3, <2>4 DEF Linked
  <2>6. s \in Purchases /\ s \in Chain[s] /\ Chain[t] = {t} \cup Chain[s]
    BY <1>2, <2>3, <2>4, <2>5 DEF ChainsFit, Begun, Bought
  <2>7. s \in C /\ s # t
    BY <2>5, <2>6, <1>2, OrdersFinite
  <2>8. purchase'[s] = purchase[s] /\ held'[s] = held[s]
    BY <2>7, <1>4, <1>5
  <2>9. Prev(s) = None
    BY <2>1, <2>2, <2>8 DEF Prev
  <2>10. FirstUpgrade(t)
    BY DEF LastOf
  <2>11. /\ held[s] = purchase[t].from - purchase[s].from
         /\ purchase[t].to = purchase[s].to
         /\ \E days \in 0..PeriodDays :
              /\ days * Day >= purchase[t].to - purchase[t].from
              /\ days * Day < purchase[t].to - purchase[t].from + PayWindow + Day
              /\ purchase[t].due = MulDiv(Price[purchase[t].tier], days, PeriodDays)
                                     - MulDiv(Price[purchase[s].tier], days, PeriodDays)
    BY <2>3, <2>9, <2>10 DEF FirstUpgrade
  <2> HIDE DEF s
  <2> QED BY <2>2, <2>8, <2>11 DEF FirstUpgrade
<1>11. LeftCovers(t)'
  <2>1. SUFFICES ASSUME given'[t].times > 0, ~ given'[t].cooled
                 PROVE  LeftCovers(t)'
    BY DEF LeftCovers
  <2>2. given'[t] = given[t]
    BY <1>2, <1>4
  <2>3. /\ given[t].times > 0 /\ ~ given[t].cooled
        /\ \A p \in C : held'[p] = held[p] /\ drawn'[p] <= drawn[p]
    BY <2>1, <2>2, <1>2, <1>5
  <2>4. LeftCovers(t)
    BY DEF LastOf
  <2>5. TimeByMonth(C) + (IF C \cap unmetered = {} THEN DataByMonth(C) ELSE 0) <= Net(C)
    BY <2>3, <2>4 DEF LeftCovers
  <2>6. Net(C)' = Net(C)
    <3>1. [o \in C |-> purchase[o].due - given[o].sum]' = [o \in C |-> purchase[o].due - given[o].sum]
      BY <1>4, <1>6
    <3> QED BY <3>1, <1>6 DEF Net
  <2>7. TimeByMonth(C)' = TimeByMonth(C)
    <3>1. [o \in C |-> (Monthly[purchase[o].tier] * held[o]) \div (Day * MonthDays)]'
            = [o \in C |-> (Monthly[purchase[o].tier] * held[o]) \div (Day * MonthDays)]
      BY <1>4, <1>6, <2>3
    <3> QED BY <3>1, <1>6 DEF TimeByMonth
  <2>8. DataByMonth(C)' \in Nat /\ DataByMonth(C)' <= DataByMonth(C)
    <3> DEFINE f == [o \in C |-> Monthly[purchase'[o].tier] * drawn'[o]]
               g == [o \in C |-> Monthly[purchase[o].tier] * drawn[o]]
    <3>1. \A p \in C : f[p] \in Nat /\ g[p] \in Nat /\ f[p] <= g[p]
      <4> TAKE p \in C
      <4>1. p \in Purchases /\ Monthly[purchase[p].tier] \in Nat
        BY <1>2, <1>3, BegunPriced
      <4>2. drawn[p] \in Nat
        BY <4>1, <1>3, RowTypes
      <4>3. drawn'[p] \in Nat
        <5>1. drawn' \in [Purchases -> 0..Quota] /\ Quota \in Nat
          BY BillingAssumption DEF BillingTypeOK
        <5> QED BY <4>1, <5>1
      <4>4. Monthly[purchase[p].tier] * drawn'[p] <= Monthly[purchase[p].tier] * drawn[p]
        BY <4>1, <4>2, <4>3, <2>3, ProductGrows
      <4> QED BY <4>1, <4>2, <4>3, <4>4, <1>4, NatProduct
    <3>2. C \in SUBSET C
      OBVIOUS
    <3> HIDE DEF f, g
    <3>3. SumFunctionOnSet(f, C) \in Nat /\ SumFunctionOnSet(g, C) \in Nat
          /\ SumFunctionOnSet(f, C) <= SumFunctionOnSet(g, C)
      BY <1>2, <3>1, <3>2, SumNat, SumMonotone
    <3>4. Quota \in Nat \ {0}
      BY BillingAssumption
    <3>5. SumFunctionOnSet(f, C) \div Quota \in Nat
          /\ SumFunctionOnSet(f, C) \div Quota <= SumFunctionOnSet(g, C) \div Quota
      BY <3>3, <3>4, Quotient, QuotientGrows
    <3> QED BY <3>5, <1>6 DEF DataByMonth, f, g
  <2>9. (IF C \cap unmetered = {} THEN DataByMonth(C) ELSE 0)'
          <= (IF C \cap unmetered = {} THEN DataByMonth(C) ELSE 0)
    <3>1. DataByMonth(C) \in Nat
      BY <1>2, <1>3, WindowSums
    <3>2. C \cap unmetered # {} => C \cap unmetered' # {}
      OBVIOUS
    <3>3. C' = C
      BY <1>6
    <3> HIDE DEF C
    <3> QED BY <3>1, <3>2, <3>3, <2>8
  <2>10. TimeByMonth(C) \in Nat /\ Net(C) \in Int /\ DataByMonth(C) \in Nat
    BY <1>2, <1>3, WindowSums
  <2>11. TimeByMonth(C)' + (IF C \cap unmetered = {} THEN DataByMonth(C) ELSE 0)' <= Net(C)'
    <3> DEFINE x == (IF C \cap unmetered = {} THEN DataByMonth(C) ELSE 0)
               y == (IF C \cap unmetered = {} THEN DataByMonth(C) ELSE 0)'
    <3>1. x \in Nat /\ y \in Nat /\ y <= x
      BY <2>8, <2>9, <2>10
    <3>2. TimeByMonth(C) + x <= Net(C)
      BY <2>5
    <3> HIDE DEF x, y, C
    <3>3. TimeByMonth(C) + y <= Net(C)
      BY <2>10, <3>1, <3>2
    <3> QED BY <2>6, <2>7, <3>3 DEF y
  <2> QED BY <2>11, <1>6 DEF LeftCovers
<1> QED BY <1>7, <1>9, <1>10, <1>11 DEF LastOf
-----------------------------------------------------------------------------
(* What each step does to the books.                                       *)

\* The next order is the first that was not written, and all after it.
LEMMA NextIsFree ==
  ASSUME BillingTypeOK, RowsInOrder, NextPurchase \in Purchases
  PROVE  /\ \A p \in Purchases : p < NextPurchase => purchase[p].status # "none"
         /\ \A p \in Purchases : p >= NextPurchase => purchase[p].status = "none"
<1> DEFINE Used == Purchases \ Bought({"none"})
           Unwritten == Bought({"none"})
<1>1. \A p \in Purchases : p \in Used <=> purchase[p].status # "none"
  BY DEF Bought
<1>2. Unwritten # {}
  <2> SUFFICES ASSUME Unwritten = {} PROVE FALSE
    OBVIOUS
  <2>1. Used = 1..LastPurchase
    BY OrdersFinite
  <2>2. Cardinality(Used) = LastPurchase
    <3>1. Cardinality(1..LastPurchase) = LastPurchase
      BY OrdersFinite, FS_Interval
    <3> QED BY <2>1, <3>1
  <2> HIDE DEF Used
  <2>3. 1 + Cardinality(Used) \in Purchases
    BY DEF NextPurchase, Used
  <2> QED BY <2>2, <2>3, OrdersFinite
<1>3. Unwritten \in SUBSET (0..LastPurchase)
  BY OrdersFinite DEF Bought
<1>4. PICK m \in Unwritten : \A p \in Unwritten : m <= p
  <2> HIDE DEF Unwritten
  <2> QED BY <1>2, <1>3, LeastNumber, OrdersFinite
<1>5. m \in Purchases /\ purchase[m].status = "none"
  BY <1>4 DEF Bought
<1>6. \A p \in Purchases : purchase[p].status # "none" <=> p < m
  <2> TAKE p \in Purchases
  <2>1. p < m => purchase[p].status # "none"
    BY <1>4, <1>5, OrdersFinite DEF Bought
  <2>2. ASSUME purchase[p].status # "none" PROVE p < m
    <3> SUFFICES ASSUME m <= p PROVE FALSE
      BY <1>5, OrdersFinite
    <3>1. m \in 1..p
      BY <1>5, OrdersFinite
    <3>2. \A q \in 1..p : purchase[q].status # "none"
      BY <2>2 DEF RowsInOrder
    <3> QED BY <1>5, <3>1, <3>2
  <2> QED BY <2>1, <2>2
<1>7. Used = 1..(m - 1)
  BY <1>1, <1>5, <1>6, OrdersFinite
<1>8. Cardinality(Used) = m - 1
  <2>1. m \in Nat \ {0}
    BY <1>5, OrdersFinite
  <2>2. Cardinality(1..(m - 1)) = m - 1
    BY <2>1, FS_Interval
  <2> QED BY <1>7, <2>2
<1>9. NextPurchase = m
  BY <1>5, <1>8, OrdersFinite DEF NextPurchase
<1> QED BY <1>5, <1>6, <1>9, OrdersFinite

\* What a draft says: a new order, or an upgrade at today's price.
NewTerms(tier, prev, gross, surplus, to) ==
  prev = None /\ gross = Price[tier] /\ surplus = 0 /\ to = 0
UpgradeTerms(tier, prev, gross, surplus, to) ==
  /\ prev \in Begun /\ Price[purchase[prev].tier] < Price[tier]
  /\ purchase[prev].from <= date /\ date < purchase[prev].to /\ to = purchase[prev].to
  /\ gross = MulDiv(Price[tier], DaysUp(to - date), DTotal(prev))
  /\ surplus = LeastOf(MulDiv(VSource(prev), DaysUp(to - date), DTotal(prev)), gross)

\* The days of an order that began before its end.
LEMMA DaysOfOrder ==
  ASSUME Books, NEW o \in Begun, purchase[o].from < purchase[o].to
  PROVE  /\ DTotal(o) = DaysUp(purchase[o].to - purchase[o].from)
         /\ purchase[o].to - purchase[o].from \in Nat
         /\ purchase[o].to - purchase[o].from <= Term
         /\ VSource(o) \in 0..Price[purchase[o].tier]
<1>1. o \in Purchases /\ purchase[o].status # "none" /\ BillingTypeOK
  BY DEF Begun, Bought, Books
<1>2. purchase[o].from \in Nat /\ purchase[o].to \in Nat /\ Term \in Nat
      /\ purchase[o].due \in Nat /\ purchase[o].surplus \in Nat
  BY <1>1, RowTypes, TermIsPositive DEF TermPositive
<1>3. purchase[o].to <= purchase[o].from + Term
  BY DEF Books, Dated
<1>4. VSource(o) <= Price[purchase[o].tier]
  BY <1>1 DEF Books, Worth, Bought
<1>5. Price[purchase[o].tier] \in Nat
  BY <1>1, BegunPriced DEF Books
<1> QED BY <1>2, <1>3, <1>4, <1>5 DEF DTotal, VSource

\* What a draft says is of the right types.
LEMMA TermsAreNumbers ==
  ASSUME Books, NEW tier \in Tiers, NEW prev, NEW gross, NEW surplus, NEW to,
         \/ NewTerms(tier, prev, gross, surplus, to)
         \/ UpgradeTerms(tier, prev, gross, surplus, to)
  PROVE  /\ gross \in Nat /\ surplus \in 0..gross /\ gross <= Price[tier] /\ to \in EndTimes
         /\ prev \in Purchases \cup {None} /\ Price[tier] \in Nat
<1>1. Price[tier] \in Nat
  BY ListPrices
<1>2. CASE NewTerms(tier, prev, gross, surplus, to)
  <2>1. 0 \in EndTimes
    BY BillingAssumption, NatProduct DEF EndTimes
  <2> QED BY <1>1, <1>2, <2>1 DEF NewTerms
<1>3. CASE UpgradeTerms(tier, prev, gross, surplus, to)
  <2>1. /\ prev \in Begun /\ Price[purchase[prev].tier] < Price[tier]
        /\ purchase[prev].from <= date /\ date < purchase[prev].to /\ to = purchase[prev].to
        /\ gross = MulDiv(Price[tier], DaysUp(to - date), DTotal(prev))
        /\ surplus = LeastOf(MulDiv(VSource(prev), DaysUp(to - date), DTotal(prev)), gross)
    BY <1>3 DEF UpgradeTerms
  <2>2. prev \in Purchases /\ BillingTypeOK /\ date \in Nat
    BY <2>1, BillingAssumption DEF Begun, Bought, Books, BillingTypeOK, Dates
  <2>3. purchase[prev].from \in Nat /\ to \in Nat /\ to \in EndTimes
    BY <2>1, <2>2, RowTypes DEF PurchaseRows
  <2> DEFINE whole == to - purchase[prev].from
             left == to - date
  <2>4. /\ whole \in Nat /\ whole <= Term /\ DTotal(prev) = DaysUp(whole)
        /\ VSource(prev) \in 0..Price[purchase[prev].tier]
    BY <2>1, <2>2, <2>3, DaysOfOrder
  <2>5. left \in Nat /\ 0 < left /\ left <= whole /\ 0 \in 0..left
    BY <2>1, <2>2, <2>3
  <2>6. Price[purchase[prev].tier] \in Nat
    BY <2>1, BegunPriced DEF Books
  <2>7. gross = MulDiv(Price[tier], DaysUp(left), DaysUp(whole))
        /\ surplus = LeastOf(MulDiv(VSource(prev), DaysUp(left), DaysUp(whole)), gross)
    BY <2>1, <2>4
  <2> HIDE DEF whole, left
  <2>8. gross \in Nat /\ surplus \in 0..gross /\ gross <= Price[tier]
    <3>1. PICK old \in Nat, new \in Nat, worth \in Nat :
            /\ old = Price[purchase[prev].tier] /\ new = Price[tier] /\ worth = VSource(prev)
            /\ old < new /\ worth \in 0..old
      BY <1>1, <2>1, <2>4, <2>6
    <3>2. PICK w \in Nat, l \in Nat :
            w = whole /\ l = left /\ w <= Term /\ 0 < l /\ l <= w
      BY <2>4, <2>5
    <3>3. /\ gross = MulDiv(new, DaysUp(l), DaysUp(w))
          /\ surplus = LeastOf(MulDiv(worth, DaysUp(l), DaysUp(w)), gross)
      BY <2>7, <3>1, <3>2
    <3>4. old < new /\ worth \in 0..old /\ w <= Term /\ 0 < l /\ l <= w
      BY <3>1, <3>2
    <3>5. /\ gross \in Nat /\ surplus \in 0..gross /\ gross <= new
      BY <3>3, <3>4, UpgradeTakes
    <3> QED BY <3>1, <3>5
  <2> QED BY <1>1, <2>2, <2>3, <2>8
<1> QED BY <1>2, <1>3

\* A draft keeps the books, and the orders that have begun.
LEMMA DraftBooks ==
  ASSUME Books, NEW tier \in Tiers, NEW prev, NEW gross, NEW surplus, NEW to,
         \/ NewTerms(tier, prev, gross, surplus, to)
         \/ UpgradeTerms(tier, prev, gross, surplus, to),
         WriteDraft(tier, prev, gross, surplus, to)
  PROVE  Books' /\ Begun' = Begun /\ \A p \in Begun : purchase'[p] = purchase[p]
<1>1. PICK n \in Purchases : n = NextPurchase
  BY DEF WriteDraft
<1> DEFINE row == [status |-> "pending", tier |-> tier, prev |-> prev, due |-> gross - surplus,
                   surplus |-> surplus, created |-> date, from |-> 0, to |-> to]
<1>2. /\ Bought({"pending"}) = {} /\ purchase' = [purchase EXCEPT ![n] = row]
      /\ UNCHANGED <<date, sub, traffic, allowance, given, held, drawn, marred, unmetered>>
  BY <1>1 DEF WriteDraft
<1>3. BillingTypeOK /\ RowsInOrder /\ Linked /\ Worth /\ Dated /\ Current /\ Unrefunded
      /\ AllDrawn /\ DraftPriced
  BY DEF Books
<1>4. /\ \A p \in Purchases : p < n => purchase[p].status # "none"
      /\ \A p \in Purchases : p >= n => purchase[p].status = "none"
  BY <1>1, <1>2, <1>3, NextIsFree
<1>5. purchase[n].status = "none"
  BY <1>1, <1>2, <1>4, OrdersFinite
<1>6. /\ gross \in Nat /\ surplus \in 0..gross /\ gross <= Price[tier] /\ to \in EndTimes
      /\ prev \in Purchases \cup {None} /\ Price[tier] \in Nat
  BY TermsAreNumbers
<1>7. purchase \in [Purchases -> PurchaseRows] /\ date \in Dates /\ date \in Nat
  BY <1>3, BillingAssumption DEF BillingTypeOK, Dates
<1>8. row \in PurchaseRows
  <2>1. 0 \in EndTimes /\ 0 \in Dates
    BY BillingAssumption, NatProduct DEF EndTimes, Dates
  <2>2. gross - surplus \in Nat /\ surplus \in Nat
    BY <1>6
  <2> QED BY <1>6, <1>7, <2>1, <2>2 DEF PurchaseRows
<1>9. purchase'[n] = row /\ \A p \in Purchases : p # n => purchase'[p] = purchase[p]
  BY <1>1, <1>2, <1>7
<1>10. purchase'[n].status = "pending" /\ purchase'[n].tier = tier /\ Prev(n)' = prev
      /\ purchase'[n].due = gross - surplus /\ purchase'[n].surplus = surplus
      /\ purchase'[n].created = date /\ purchase'[n].to = to
  BY <1>9 DEF Prev
<1> HIDE DEF row
<1>11. Begun' = Begun
  BY <1>5, <1>9, <1>10 DEF Begun, Bought
<1>12. \A p \in Begun : p \in Purchases /\ p # n /\ purchase'[p] = purchase[p] /\ p < n
  <2> TAKE p \in Begun
  <2>1. p \in Purchases /\ p # n /\ purchase[p].status # "none"
    BY <1>5 DEF Begun, Bought
  <2> QED BY <1>1, <1>2, <1>4, <1>9, <2>1, OrdersFinite
<1>13. prev # None =>
         /\ UpgradeTerms(tier, prev, gross, surplus, to)
         /\ prev \in Begun /\ prev # n /\ prev < n /\ purchase'[prev] = purchase[prev]
  BY <1>12 DEF NewTerms, UpgradeTerms
<1>14. BillingTypeOK'
  <2>1. purchase' \in [Purchases -> PurchaseRows]
    BY <1>1, <1>2, <1>7, <1>8
  <2> QED BY <1>1, <1>2, <1>3, <2>1 DEF BillingTypeOK
<1>15. RowsInOrder'
  <2>1. ASSUME NEW o \in Purchases, purchase'[o].status # "none"
        PROVE  (\A p \in 1..o : purchase'[p].status # "none") /\ purchase'[o].tier \in Tiers
    <3>1. CASE o = n
      <4>1. ASSUME NEW p \in 1..o, p # n PROVE purchase'[p].status # "none"
        BY <1>1, <1>2, <1>4, <1>9, <3>1, <4>1, OrdersFinite
      <4> QED BY <1>10, <3>1, <4>1
    <3>2. CASE o # n
      <4>1. purchase[o].status # "none"
        BY <1>9, <2>1, <3>2
      <4>2. (\A p \in 1..o : purchase[p].status # "none") /\ purchase[o].tier \in Tiers
        BY <1>3, <4>1 DEF RowsInOrder
      <4>3. 1..o \subseteq Purchases
        BY OrdersFinite
      <4> QED BY <1>9, <1>10, <3>2, <4>2, <4>3
    <3> QED BY <3>1, <3>2
  <2>2. \A o \in Bought({"pending"})' : o = n
    BY <1>1, <1>2, <1>9 DEF Bought
  <2>3. \A p \in Purchases : p > n => purchase'[p].status = "none"
    BY <1>1, <1>2, <1>4, <1>9, OrdersFinite
  <2>4. \A o \in Bought({"none"})' : purchase'[o] = NoPurchase
    BY <1>3, <1>9, <1>10 DEF Bought, RowsInOrder
  <2> QED BY <2>1, <2>2, <2>3, <2>4 DEF RowsInOrder
<1>16. Linked'
  <2> SUFFICES ASSUME NEW o \in Purchases
               PROVE  /\ Prev(o)' # None =>
                           /\ Prev(o)' \in Begun /\ Prev(o)' < o
                           /\ Price[purchase'[Prev(o)'].tier] < Price[purchase'[o].tier]
                      /\ (Prev(o)' = None /\ purchase'[o].status # "none") =>
                           purchase'[o].due = Price[purchase'[o].tier] /\ purchase'[o].surplus = 0
    BY <1>11 DEF Linked, Prev
  <2>1. CASE o = n
    <3>1. prev = None => gross - surplus = Price[tier] /\ surplus = 0
      BY <1>6, BillingAssumption DEF NewTerms, UpgradeTerms, Begun, Bought
    <3> QED BY <1>10, <1>13, <2>1, <3>1 DEF UpgradeTerms
  <2>2. CASE o # n
    <3>1. purchase'[o] = purchase[o] /\ Prev(o)' = Prev(o)
      BY <1>9, <2>2 DEF Prev
    <3>2. Prev(o) # None => Prev(o) \in Begun /\ purchase'[Prev(o)] = purchase[Prev(o)]
      BY <1>3, <1>12 DEF Linked
    <3> QED BY <1>3, <3>1, <3>2 DEF Linked
  <2> QED BY <2>1, <2>2
<1>17. Worth'
  <2> SUFFICES ASSUME NEW o \in Purchases, purchase'[o].status # "none"
               PROVE  purchase'[o].due + purchase'[o].surplus <= Price[purchase'[o].tier]
    BY DEF Worth, VSource, Bought
  <2>1. CASE o = n
    BY <1>6, <1>10, <2>1
  <2>2. CASE o # n
    BY <1>3, <1>9, <2>2 DEF Worth, VSource, Bought
  <2> QED BY <2>1, <2>2
<1>18. Dated'
  BY <1>1, <1>2, <1>3, <1>11, <1>12 DEF Dated, Prev
<1>19. Current'
  <2>1. Bought({"completed"})' = Bought({"completed"})
    BY <1>5, <1>9, <1>10 DEF Bought
  <2>2. sub.order # None => purchase'[sub.order] = purchase[sub.order]
    BY <1>3, <1>12 DEF Current, Begun, Bought
  <2> QED BY <1>1, <1>2, <1>3, <1>11, <2>1, <2>2 DEF Current
<1>20. Unrefunded'
  <2> SUFFICES ASSUME NEW o \in Purchases,
                      purchase'[o].status \in {"none", "pending", "completed"}
               PROVE  given'[o] = [sum |-> 0, times |-> 0, cooled |-> FALSE]
    BY DEF Unrefunded, Bought
  <2>1. purchase[o].status \in {"none", "pending", "completed"}
    BY <1>5, <1>9
  <2> QED BY <1>1, <1>2, <1>3, <2>1 DEF Unrefunded, Bought
<1>21. AllDrawn'
  BY <1>1, <1>2, <1>3 DEF AllDrawn
<1>22. DraftPriced'
  <2> SUFFICES ASSUME NEW o \in Bought({"pending"})'
               PROVE  /\ purchase'[o].created <= date'
                      /\ Prev(o)' # None =>
                           /\ purchase'[o].to = purchase'[Prev(o)'].to
                           /\ purchase'[Prev(o)'].from <= purchase'[o].created
                           /\ purchase'[o].created < purchase'[o].to
                           /\ purchase'[o].surplus =
                                LeastOf(MulDiv(VSource(Prev(o))', DaysThen(o)', DTotal(Prev(o))'),
                                        GrossThen(o)')
                           /\ purchase'[o].due = GrossThen(o)' - purchase'[o].surplus
    BY DEF DraftPriced, MulDiv, LeastOf
  <2>1. o = n
    BY <1>1, <1>2, <1>9 DEF Bought
  <2>2. CASE prev = None
    BY <1>1, <1>2, <1>7, <1>10, <2>1, <2>2
  <2>3. CASE prev # None
    <3>1. /\ VSource(Prev(o))' = VSource(prev) /\ DTotal(Prev(o))' = DTotal(prev)
          /\ Prev(o)' = prev /\ purchase'[prev] = purchase[prev]
      BY <1>10, <1>13, <2>1, <2>3 DEF VSource, DTotal
    <3>2. DaysThen(o)' = DaysUp(to - date)
      BY <1>10, <2>1 DEF DaysThen, DaysUp
    <3>3. GrossThen(o)' = gross
      BY <1>10, <1>13, <2>1, <2>3, <3>1, <3>2 DEF GrossThen, UpgradeTerms, MulDiv
    <3> QED
      BY <1>1, <1>2, <1>7, <1>10, <1>13, <2>1, <2>3, <3>1, <3>2, <3>3 DEF UpgradeTerms
  <2> QED BY <2>2, <2>3
<1> QED
  BY <1>11, <1>12, <1>14, <1>15, <1>16, <1>17, <1>18, <1>19, <1>20, <1>21, <1>22 DEF Books

\* So does an order that lapses.
LEMMA LapseBooks ==
  ASSUME Books, NEW n \in Purchases, Lapse(n)
  PROVE  Books' /\ Begun' = Begun /\ \A p \in Begun : purchase'[p] = purchase[p]
<1>1. /\ purchase[n].status = "pending" /\ purchase' = [purchase EXCEPT ![n] = NoPurchase]
      /\ UNCHANGED <<date, sub, traffic, allowance, given, held, drawn, marred, unmetered>>
  BY DEF Lapse
<1>2. BillingTypeOK /\ RowsInOrder /\ Linked /\ Worth /\ Dated /\ Current /\ Unrefunded
      /\ AllDrawn /\ DraftPriced
  BY DEF Books
<1>3. purchase \in [Purchases -> PurchaseRows]
  BY <1>2 DEF BillingTypeOK
<1>4. NoPurchase \in PurchaseRows
  <2>1. 0 \in EndTimes /\ 0 \in Dates
    BY BillingAssumption, NatProduct DEF EndTimes, Dates
  <2> QED BY <2>1 DEF PurchaseRows, NoPurchase
<1>5. purchase'[n] = NoPurchase /\ \A p \in Purchases : p # n => purchase'[p] = purchase[p]
  BY <1>1, <1>3
<1>6. purchase'[n].status = "none" /\ Prev(n)' = None
  BY <1>5 DEF NoPurchase, Prev
<1>7. Begun' = Begun
  BY <1>1, <1>5, <1>6 DEF Begun, Bought
<1>8. \A p \in Begun : p \in Purchases /\ p # n /\ purchase'[p] = purchase[p]
  BY <1>1, <1>5 DEF Begun, Bought
<1>9. \A p \in Purchases : p > n => purchase[p].status = "none"
  BY <1>1, <1>2 DEF RowsInOrder, Bought
<1>10. BillingTypeOK'
  <2>1. purchase' \in [Purchases -> PurchaseRows]
    BY <1>1, <1>3, <1>4
  <2> QED BY <1>1, <1>2, <2>1 DEF BillingTypeOK
<1>11. RowsInOrder'
  <2>1. ASSUME NEW o \in Purchases, purchase'[o].status # "none"
        PROVE  (\A p \in 1..o : purchase'[p].status # "none") /\ purchase'[o].tier \in Tiers
    <3>1. o # n /\ purchase[o].status # "none"
      BY <1>5, <1>6, <2>1
    <3>2. (\A p \in 1..o : purchase[p].status # "none") /\ purchase[o].tier \in Tiers
      BY <1>2, <3>1 DEF RowsInOrder
    <3>3. o < n
      BY <1>9, <3>1, OrdersFinite
    <3>4. \A p \in 1..o : p \in Purchases /\ p # n
      BY <3>3, OrdersFinite
    <3> QED BY <1>5, <3>1, <3>2, <3>4
  <2>2. \A o \in Bought({"pending"})' : o \in Bought({"pending"})
    BY <1>5, <1>6 DEF Bought
  <2>3. \A p \in Purchases : purchase[p].status = "none" => purchase'[p].status = "none"
    BY <1>5, <1>6
  <2>4. \A o \in Bought({"none"})' : purchase'[o] = NoPurchase
    BY <1>2, <1>5 DEF Bought, RowsInOrder
  <2>5. \A o \in Bought({"pending"})', p \in Purchases : p > o => purchase'[p].status = "none"
    BY <1>2, <2>2, <2>3 DEF RowsInOrder
  <2> QED BY <2>1, <2>4, <2>5 DEF RowsInOrder
<1>12. Linked'
  <2> SUFFICES ASSUME NEW o \in Purchases
               PROVE  /\ Prev(o)' # None =>
                           /\ Prev(o)' \in Begun /\ Prev(o)' < o
                           /\ Price[purchase'[Prev(o)'].tier] < Price[purchase'[o].tier]
                      /\ (Prev(o)' = None /\ purchase'[o].status # "none") =>
                           purchase'[o].due = Price[purchase'[o].tier] /\ purchase'[o].surplus = 0
    BY <1>7 DEF Linked, Prev
  <2>1. CASE o = n
    BY <1>6, <2>1
  <2>2. CASE o # n
    <3>1. purchase'[o] = purchase[o] /\ Prev(o)' = Prev(o)
      BY <1>5, <2>2 DEF Prev
    <3>2. Prev(o) # None => Prev(o) \in Begun /\ purchase'[Prev(o)] = purchase[Prev(o)]
      BY <1>2, <1>8 DEF Linked
    <3> QED BY <1>2, <3>1, <3>2 DEF Linked
  <2> QED BY <2>1, <2>2
<1>13. Worth'
  <2> SUFFICES ASSUME NEW o \in Purchases, purchase'[o].status # "none"
               PROVE  purchase'[o].due + purchase'[o].surplus <= Price[purchase'[o].tier]
    BY DEF Worth, VSource, Bought
  <2>1. o # n
    BY <1>6
  <2> QED BY <1>2, <1>5, <2>1 DEF Worth, VSource, Bought
<1>14. Dated'
  BY <1>1, <1>2, <1>7, <1>8 DEF Dated, Prev
<1>15. Current'
  <2>1. Bought({"completed"})' = Bought({"completed"})
    BY <1>1, <1>5, <1>6 DEF Bought
  <2>2. sub.order # None => purchase'[sub.order] = purchase[sub.order]
    BY <1>2, <1>8 DEF Current, Begun, Bought
  <2> QED BY <1>1, <1>2, <1>7, <2>1, <2>2 DEF Current
<1>16. Unrefunded'
  <2> SUFFICES ASSUME NEW o \in Purchases,
                      purchase'[o].status \in {"none", "pending", "completed"}
               PROVE  given'[o] = [sum |-> 0, times |-> 0, cooled |-> FALSE]
    BY DEF Unrefunded, Bought
  <2>1. purchase[o].status \in {"none", "pending", "completed"}
    BY <1>1, <1>5
  <2> QED BY <1>1, <1>2, <2>1 DEF Unrefunded, Bought
<1>17. AllDrawn'
  BY <1>1, <1>2 DEF AllDrawn
<1>18. DraftPriced'
  <2>1. ASSUME NEW o \in Bought({"pending"})'
        PROVE  o \in Bought({"pending"}) /\ purchase'[o] = purchase[o] /\ Prev(o)' = Prev(o)
    BY <1>5, <1>6 DEF Bought, Prev
  <2>2. ASSUME NEW o \in Bought({"pending"})', Prev(o) # None
        PROVE  /\ purchase'[Prev(o)] = purchase[Prev(o)]
               /\ VSource(Prev(o))' = VSource(Prev(o)) /\ DTotal(Prev(o))' = DTotal(Prev(o))
    <3>1. o \in Purchases /\ Prev(o)' = Prev(o)
      BY <2>1 DEF Bought
    <3>2. Prev(o) \in Begun
      BY <1>2, <2>2, <3>1 DEF Linked
    <3> QED BY <1>8, <3>1, <3>2 DEF VSource, DTotal
  <2> QED BY <1>1, <1>2, <2>1, <2>2 DEF DraftPriced, DaysThen, GrossThen
<1> QED
  BY <1>7, <1>8, <1>10, <1>11, <1>12, <1>13, <1>14, <1>15, <1>16, <1>17, <1>18 DEF Books

\* What an order says once it is paid.
Paid(n) ==
  [purchase[n] EXCEPT !.status = "completed", !.from = date,
                      !.to = IF Prev(n) = None THEN date + Term ELSE purchase[n].to,
                      !.created = 0]

\* What a payment writes.
LEMMA PaidRow ==
  ASSUME Books, NEW n \in Purchases, CompleteOrder(n)
  PROVE  /\ purchase' = [purchase EXCEPT ![n] = Paid(n)] /\ purchase'[n] = Paid(n)
         /\ \A p \in Purchases : p # n => purchase'[p] = purchase[p]
         /\ purchase[n].status = "pending" /\ date <= purchase[n].created + PayWindow
         /\ purchase'[n].status = "completed" /\ purchase'[n].tier = purchase[n].tier
         /\ purchase'[n].due = purchase[n].due /\ purchase'[n].surplus = purchase[n].surplus
         /\ purchase'[n].from = date /\ Prev(n)' = Prev(n)
         /\ purchase'[n].to = IF Prev(n) = None THEN date + Term ELSE purchase[n].to
         /\ sub' = [order |-> n, expires |-> purchase'[n].to] /\ sub'.order = n
         /\ Begun' = Begun \cup {n} /\ n \notin Begun
         /\ \A p \in Begun : p \in Purchases /\ p < n /\ purchase'[p] = purchase[p]
         /\ Prev(n) # None => Prev(n) \in Begun
<1>1. /\ purchase[n].status = "pending" /\ date <= purchase[n].created + PayWindow
      /\ purchase' = [purchase EXCEPT ![n] = Paid(n)]
      /\ sub' = [order |-> n, expires |-> IF Prev(n) = None THEN date + Term ELSE purchase[n].to]
  BY DEF CompleteOrder, Paid, Prev, Term
<1>2. purchase \in [Purchases -> PurchaseRows] /\ purchase[n] \in PurchaseRows
  BY DEF Books, BillingTypeOK
<1>3. purchase'[n] = Paid(n) /\ \A p \in Purchases : p # n => purchase'[p] = purchase[p]
  BY <1>1, <1>2
<1>4. /\ Paid(n).status = "completed" /\ Paid(n).tier = purchase[n].tier
      /\ Paid(n).due = purchase[n].due /\ Paid(n).surplus = purchase[n].surplus
      /\ Paid(n).from = date /\ Paid(n).prev = purchase[n].prev
      /\ Paid(n).to = IF Prev(n) = None THEN date + Term ELSE purchase[n].to
  BY <1>2 DEF Paid, PurchaseRows
<1>5. Begun' = Begun \cup {n} /\ n \notin Begun
  BY <1>1, <1>3, <1>4 DEF Begun, Bought
<1>6. \A p \in Begun : p \in Purchases /\ p < n /\ purchase'[p] = purchase[p]
  <2> TAKE p \in Begun
  <2>1. p \in Purchases /\ p # n /\ purchase[p].status # "none"
    BY <1>1 DEF Begun, Bought
  <2>2. ~ (p > n)
    BY <1>1, <2>1 DEF Books, RowsInOrder, Bought
  <2> QED BY <1>3, <2>1, <2>2, OrdersFinite
<1>7. Prev(n) # None => Prev(n) \in Begun
  BY DEF Books, Linked
<1> QED BY <1>1, <1>3, <1>4, <1>5, <1>6, <1>7 DEF Prev

\* A payment keeps the books.
LEMMA CompleteBooks ==
  ASSUME Books, NEW n \in Purchases, CompleteOrder(n)
  PROVE  Books'
<1>1. /\ purchase' = [purchase EXCEPT ![n] = Paid(n)] /\ purchase'[n] = Paid(n)
      /\ \A p \in Purchases : p # n => purchase'[p] = purchase[p]
      /\ purchase[n].status = "pending" /\ date <= purchase[n].created + PayWindow
  BY PaidRow
<1>2. /\ purchase'[n].status = "completed" /\ purchase'[n].tier = purchase[n].tier
      /\ purchase'[n].due = purchase[n].due /\ purchase'[n].surplus = purchase[n].surplus
      /\ purchase'[n].from = date /\ Prev(n)' = Prev(n)
      /\ purchase'[n].to = IF Prev(n) = None THEN date + Term ELSE purchase[n].to
  BY PaidRow
<1>3. /\ sub' = [order |-> n, expires |-> purchase'[n].to]
      /\ Begun' = Begun \cup {n} /\ n \notin Begun
      /\ \A p \in Begun : p \in Purchases /\ p < n /\ purchase'[p] = purchase[p]
      /\ Prev(n) # None => Prev(n) \in Begun
  BY PaidRow
<1>4. /\ allowance' = Quota
      /\ marred' \subseteq marred \cup {n} \cup ({sub.order} \ {None})
      /\ UNCHANGED <<date, traffic, given, held, drawn, unmetered>>
  BY DEF CompleteOrder
<1>5. BillingTypeOK /\ RowsInOrder /\ Linked /\ Worth /\ Dated /\ Current /\ Unrefunded
      /\ AllDrawn /\ DraftPriced
  BY DEF Books
<1>6. /\ purchase \in [Purchases -> PurchaseRows] /\ date \in Dates /\ date \in Nat
      /\ sub.order \in Purchases \cup {None} /\ Term \in Nat
  BY <1>5, BillingAssumption, TermIsPositive DEF BillingTypeOK, Dates, TermPositive
<1>7. purchase'[n].to \in EndTimes
  <2>1. date + Term \in EndTimes
    BY <1>6, BillingAssumption DEF EndTimes, Dates, Term
  <2>2. purchase[n].to \in EndTimes
    BY <1>5, RowTypes DEF PurchaseRows
  <2> QED BY <1>2, <2>1, <2>2
<1>8. BillingTypeOK'
  <2>1. Paid(n) \in PurchaseRows
    <3>1. purchase[n] \in PurchaseRows /\ 0 \in Dates
      BY <1>6, BillingAssumption DEF Dates
    <3>2. (IF Prev(n) = None THEN date + Term ELSE purchase[n].to) \in EndTimes
      BY <1>2, <1>7
    <3> QED BY <1>6, <3>1, <3>2 DEF Paid, PurchaseRows
  <2>2. purchase' \in [Purchases -> PurchaseRows]
    BY <1>1, <1>6, <2>1
  <2>3. sub' \in [order : Purchases \cup {None}, expires : EndTimes]
    BY <1>3, <1>7
  <2>4. marred' \subseteq Purchases
    BY <1>4, <1>5, <1>6 DEF BillingTypeOK
  <2> QED BY <1>4, <1>5, <2>2, <2>3, <2>4 DEF BillingTypeOK
<1>9. \A o \in Purchases : purchase'[o].status = "none" <=> purchase[o].status = "none"
  BY <1>1, <1>2
<1>10. \A o \in Purchases : purchase'[o].status # "pending"
  <2> TAKE o \in Purchases
  <2>1. CASE o = n
    BY <1>2, <2>1
  <2>2. CASE o # n
    <3> SUFFICES ASSUME purchase[o].status = "pending" PROVE FALSE
      BY <1>1, <2>2
    <3>1. ~ (o > n) /\ ~ (n > o)
      BY <1>1, <1>5 DEF RowsInOrder, Bought
    <3> QED BY <2>2, <3>1, OrdersFinite
  <2> QED BY <2>1, <2>2
<1>11. RowsInOrder'
  <2>1. ASSUME NEW o \in Purchases, purchase'[o].status # "none"
        PROVE  (\A p \in 1..o : purchase'[p].status # "none") /\ purchase'[o].tier \in Tiers
    <3>1. (\A p \in 1..o : purchase[p].status # "none") /\ purchase[o].tier \in Tiers
      BY <1>5, <1>9, <2>1 DEF RowsInOrder
    <3>2. 1..o \subseteq Purchases
      BY OrdersFinite
    <3> QED BY <1>1, <1>2, <1>9, <3>1, <3>2
  <2>2. Bought({"pending"})' = {}
    BY <1>10 DEF Bought
  <2>3. \A o \in Bought({"none"})' : purchase'[o] = NoPurchase
    BY <1>1, <1>2, <1>5 DEF Bought, RowsInOrder
  <2> QED BY <2>1, <2>2, <2>3 DEF RowsInOrder
<1>12. ASSUME NEW o \in Purchases
       PROVE  Prev(o)' = Prev(o) /\ purchase'[o].tier = purchase[o].tier
              /\ purchase'[o].due = purchase[o].due /\ purchase'[o].surplus = purchase[o].surplus
  <2>1. CASE o = n
    BY <1>2, <2>1
  <2>2. CASE o # n
    BY <1>1, <2>2 DEF Prev
  <2> QED BY <2>1, <2>2
<1>13. Linked'
  <2> SUFFICES ASSUME NEW o \in Purchases
               PROVE  /\ Prev(o)' # None =>
                           /\ Prev(o)' \in Begun' /\ Prev(o)' < o
                           /\ Price[purchase'[Prev(o)'].tier] < Price[purchase'[o].tier]
                      /\ (Prev(o)' = None /\ purchase'[o].status # "none") =>
                           purchase'[o].due = Price[purchase'[o].tier] /\ purchase'[o].surplus = 0
    BY DEF Linked, Prev
  <2>1. Prev(o) # None => Prev(o) \in Begun /\ purchase'[Prev(o)] = purchase[Prev(o)]
    BY <1>3, <1>5 DEF Linked
  <2> QED BY <1>3, <1>5, <1>9, <1>12, <2>1 DEF Linked
<1>14. Worth'
  BY <1>5, <1>9, <1>12 DEF Worth, VSource, Bought
<1>15. held[n] = 0
  BY <1>3, <1>5 DEF Dated
<1>16. Dated'
  <2>1. \A o \in Begun : purchase[o].from \in Nat /\ held[o] \in Nat
    BY <1>3, <1>5, RowTypes
  <2>2. Prev(n) # None => purchase[n].to <= date + Term
    <3> SUFFICES ASSUME Prev(n) # None PROVE purchase[n].to <= date + Term
      OBVIOUS
    <3>1. Prev(n) \in Begun
      BY <1>3
    <3>2. purchase[n].to = purchase[Prev(n)].to
      BY <1>1, <1>5 DEF DraftPriced, Bought
    <3>3. purchase[Prev(n)].to <= purchase[Prev(n)].from + Term
          /\ purchase[Prev(n)].from + held[Prev(n)] <= date
      BY <1>5, <3>1 DEF Dated
    <3>4. purchase[Prev(n)].to \in Nat
      BY <1>3, <1>5, <3>1, RowTypes
    <3> QED BY <1>6, <2>1, <3>1, <3>2, <3>3, <3>4
  <2>3. ASSUME NEW o \in Begun'
        PROVE  /\ purchase'[o].from + held[o] <= date
               /\ held[o] = 0 \/ purchase'[o].from + held[o] <= purchase'[o].to
               /\ purchase'[o].to <= purchase'[o].from + Term
               /\ Prev(o)' = None => purchase'[o].to = purchase'[o].from + Term
    <3>1. CASE o = n
      BY <1>2, <1>6, <1>15, <2>2, <3>1
    <3>2. CASE o # n
      <4>1. o \in Begun
        BY <1>3, <3>2
      <4>2. purchase'[o] = purchase[o] /\ Prev(o)' = Prev(o)
        BY <1>3, <4>1 DEF Prev
      <4> QED BY <1>5, <4>1, <4>2 DEF Dated
    <3> QED BY <3>1, <3>2
  <2>4. ASSUME NEW o \in Begun', NEW p \in Begun', o < p
        PROVE  purchase'[o].from + held[o] <= purchase'[p].from
    <3>1. o \in Begun
      BY <1>3, <2>4, OrdersFinite
    <3>2. CASE p = n
      BY <1>2, <1>3, <1>5, <3>1, <3>2 DEF Dated
    <3>3. CASE p # n
      BY <1>3, <1>5, <2>4, <3>1, <3>3 DEF Dated
    <3> QED BY <3>2, <3>3
  <2>5. \A o \in Purchases \ Begun' : held[o] = 0
    BY <1>3, <1>5 DEF Dated
  <2> QED BY <1>4, <2>3, <2>4, <2>5 DEF Dated
<1>17. Current'
  <2>1. n \in Bought({"completed"})'
    BY <1>2 DEF Bought
  <2>2. \A p \in Begun' : p <= n
    BY <1>3, OrdersFinite
  <2> QED BY <1>3, <1>4, <2>1, <2>2 DEF Current
<1>18. Unrefunded'
  <2> SUFFICES ASSUME NEW o \in Purchases,
                      purchase'[o].status \in {"none", "pending", "completed"}
               PROVE  given'[o] = [sum |-> 0, times |-> 0, cooled |-> FALSE]
    BY DEF Unrefunded, Bought
  <2>1. purchase[o].status \in {"none", "pending", "completed"}
    BY <1>1
  <2> QED BY <1>4, <1>5, <2>1 DEF Unrefunded, Bought
<1>19. AllDrawn'
  BY <1>4, <1>5 DEF AllDrawn
<1>20. DraftPriced'
  BY <1>10 DEF DraftPriced, Bought
<1> QED
  BY <1>8, <1>11, <1>13, <1>14, <1>16, <1>17, <1>18, <1>19, <1>20 DEF Books

\* Who has a running subscription has an order that began last, and is not refunded.
LEMMA ActiveOrder ==
  ASSUME Books, SubscriptionActive
  PROVE  /\ sub.order \in Begun /\ sub.order \in Purchases /\ purchase[sub.order].status = "completed"
         /\ \A p \in Begun : p <= sub.order
         /\ date < purchase[sub.order].to /\ allowance = Quota
         /\ given[sub.order].times = 0
<1>1. sub.order # None /\ sub.expires > date
  BY DEF SubscriptionActive
<1>2. /\ sub.order \in Bought({"completed"}) /\ \A p \in Begun : p <= sub.order
      /\ sub.expires = purchase[sub.order].to /\ allowance = Quota
  BY <1>1 DEF Books, Current
<1>3. date \in Nat /\ purchase[sub.order].to \in Nat
  BY <1>2, RowTypes, BillingAssumption DEF Books, BillingTypeOK, Dates, Bought
<1>4. given[sub.order].times = 0
  BY <1>2 DEF Books, Unrefunded, Bought
<1> QED BY <1>1, <1>2, <1>3, <1>4 DEF Begun, Bought

\* Time that passes keeps the books.
LEMMA DateBooks ==
  ASSUME Books, DatePasses
  PROVE  Books'
<1>1. /\ date < Horizon /\ date' = date + 1
      /\ held' = IF SubscriptionActive THEN [held EXCEPT ![sub.order] = @ + 1] ELSE held
      /\ UNCHANGED <<purchase, sub, traffic, allowance, given, drawn, marred, unmetered>>
  BY DEF DatePasses
<1>2. BillingTypeOK /\ RowsInOrder /\ Linked /\ Worth /\ Dated /\ Current /\ Unrefunded
      /\ AllDrawn /\ DraftPriced
  BY DEF Books
<1>3. Horizon \in Nat /\ date \in Nat /\ date' \in Nat /\ date' \in Dates
      /\ held \in [Purchases -> Dates]
  BY <1>1, <1>2, BillingAssumption DEF BillingTypeOK, Dates
<1>4. ASSUME NEW o \in Purchases
      PROVE  /\ held[o] \in Nat /\ purchase[o].from \in Nat /\ purchase[o].to \in Nat
             /\ purchase[o].created \in Nat
  BY <1>2, RowTypes
<1>5. ASSUME NEW o \in Purchases
      PROVE  held'[o] = IF SubscriptionActive /\ o = sub.order THEN held[o] + 1 ELSE held[o]
  <2>1. CASE SubscriptionActive
    BY <1>1, <1>3, <2>1
  <2>2. CASE ~ SubscriptionActive
    BY <1>1, <2>2
  <2> QED BY <2>1, <2>2
<1>6. Begun' = Begun /\ Begun \subseteq Purchases
  BY <1>1 DEF Begun, Bought
<1>7. ASSUME NEW o \in Begun
      PROVE  /\ purchase[o].from + held'[o] <= date'
             /\ held'[o] = 0 \/ purchase[o].from + held'[o] <= purchase[o].to
  <2>1. /\ purchase[o].from + held[o] <= date
        /\ held[o] = 0 \/ purchase[o].from + held[o] <= purchase[o].to
    BY <1>2 DEF Dated
  <2>2. /\ held[o] \in Nat /\ purchase[o].from \in Nat /\ purchase[o].to \in Nat
        /\ held'[o] = IF SubscriptionActive /\ o = sub.order THEN held[o] + 1 ELSE held[o]
    BY <1>4, <1>5, <1>6
  <2>3. CASE SubscriptionActive /\ o = sub.order
    <3>1. date < purchase[o].to
      BY <2>3, ActiveOrder
    <3> QED BY <1>1, <1>3, <2>1, <2>2, <2>3, <3>1
  <2>4. CASE ~ (SubscriptionActive /\ o = sub.order)
    BY <1>1, <1>3, <2>1, <2>2, <2>4
  <2> QED BY <2>3, <2>4
<1>8. ASSUME NEW o \in Begun, NEW p \in Begun, o < p
      PROVE  purchase[o].from + held'[o] <= purchase[p].from
  <2>1. ~ (SubscriptionActive /\ o = sub.order)
    <3> SUFFICES ASSUME SubscriptionActive, o = sub.order PROVE FALSE
      OBVIOUS
    <3>1. p <= o
      BY ActiveOrder
    <3> QED BY <1>6, <1>8, <3>1, OrdersFinite
  <2>2. held'[o] = held[o]
    BY <1>5, <1>6, <2>1
  <2> QED BY <1>2, <1>8, <2>2 DEF Dated
<1>9. \A o \in Purchases \ Begun : held'[o] = 0
  <2> TAKE o \in Purchases \ Begun
  <2>1. ~ (SubscriptionActive /\ o = sub.order)
    BY ActiveOrder
  <2> QED BY <1>2, <1>5, <2>1 DEF Dated
<1>10. Dated'
  BY <1>1, <1>2, <1>6, <1>7, <1>8, <1>9 DEF Dated, Prev
<1>11. BillingTypeOK'
  <2>1. ASSUME NEW o \in Purchases PROVE held'[o] \in Dates
    <3>1. CASE o \in Begun
      <4>1. held'[o] \in Nat /\ purchase[o].from \in Nat
        BY <1>4, <1>5
      <4> QED BY <1>3, <1>7, <3>1, <4>1 DEF Dates
    <3>2. CASE o \notin Begun
      BY <1>3, <1>9, <3>2 DEF Dates
    <3> QED BY <3>1, <3>2
  <2>2. held' \in [Purchases -> Dates]
    <3>1. DOMAIN held' = Purchases /\ held' = [o \in Purchases |-> held'[o]]
      BY <1>1, <1>3
    <3> QED BY <2>1, <3>1
  <2> QED BY <1>1, <1>2, <1>3, <2>2 DEF BillingTypeOK
<1>12. RowsInOrder' /\ Linked' /\ Worth' /\ Current' /\ Unrefunded' /\ AllDrawn'
  BY <1>1, <1>2 DEF RowsInOrder, Linked, Worth, Current, Unrefunded, AllDrawn, Begun, Bought, Prev,
                    VSource
<1>13. DraftPriced'
  <2>1. \A o \in Bought({"pending"}) : purchase[o].created <= date'
    BY <1>1, <1>2, <1>3, <1>4 DEF DraftPriced, Bought
  <2>2. /\ Bought({"pending"})' = Bought({"pending"})
        /\ \A o \in Purchases : Prev(o)' = Prev(o) /\ DaysThen(o)' = DaysThen(o)
    BY <1>1 DEF Bought, Prev, DaysThen
  <2>3. \A o \in Purchases : VSource(Prev(o))' = VSource(Prev(o)) /\ DTotal(Prev(o))' = DTotal(Prev(o))
                             /\ GrossThen(o)' = GrossThen(o)
    BY <1>1 DEF VSource, DTotal, Prev, GrossThen, DaysThen
  <2> QED BY <1>1, <1>2, <2>1, <2>2, <2>3 DEF DraftPriced, Bought
<1> QED BY <1>10, <1>11, <1>12, <1>13 DEF Books

\* So do traffic and its reset.
LEMMA TrafficBooks ==
  ASSUME Books, DrawTraffic \/ ResetTraffic
  PROVE  Books'
<1>1. UNCHANGED <<date, purchase, sub, allowance, given, held, marred, unmetered>>
  BY DEF DrawTraffic, ResetTraffic
<1>2. BillingTypeOK /\ RowsInOrder /\ Linked /\ Worth /\ Dated /\ Current /\ Unrefunded
      /\ AllDrawn /\ DraftPriced
  BY DEF Books
<1>3. /\ Quota \in Nat /\ traffic \in Nat /\ traffic <= Quota /\ allowance <= Quota
      /\ drawn \in [Purchases -> 0..Quota] /\ allowance \in Nat
  BY <1>2, BillingAssumption DEF BillingTypeOK
<1>4. traffic' \in 0..Quota /\ drawn' \in [Purchases -> 0..Quota] /\ AllDrawn'
  <2>1. CASE ResetTraffic
    <3>1. traffic' = 0 /\ drawn' = [o \in Purchases |-> 0]
      BY <2>1 DEF ResetTraffic
    <3> DEFINE f == drawn'
    <3>2. \A o \in Purchases : f[o] = 0
      BY <3>1
    <3> HIDE DEF f
    <3>3. SumFunctionOnSet(f, Purchases) = 0
      BY <3>2, OrdersFinite, SumZero
    <3> QED BY <1>3, <3>1, <3>3 DEF f, AllDrawn
  <2>2. CASE DrawTraffic
    <3>1. SubscriptionActive /\ traffic < allowance /\ traffic' = traffic + 1
          /\ drawn' = [drawn EXCEPT ![sub.order] = @ + 1]
      BY <2>2 DEF DrawTraffic
    <3>2. sub.order \in Purchases
      BY <3>1, ActiveOrder
    <3> DEFINE s == sub.order
               f == drawn
               g == [drawn EXCEPT ![s] = @ + 1]
    <3>3. /\ \A o \in Purchases : f[o] \in Nat /\ g[o] \in Nat
          /\ \A o \in Purchases \ {s} : g[o] = f[o]
          /\ g[s] = f[s] + 1 /\ s \in Purchases
      BY <1>3, <3>2
    <3> HIDE DEF f, g, s
    <3>4. SumFunctionOnSet(g, Purchases) = SumFunctionOnSet(f, Purchases) + g[s] - f[s]
      <4>1. \A o \in Purchases : f[o] \in Int /\ g[o] \in Int
        BY <3>3
      <4>2. IsFiniteSet(Purchases)
        BY OrdersFinite
      <4> QED BY <3>3, <4>1, <4>2, SumMove
    <3>5. SumFunctionOnSet(f, Purchases) = traffic
      BY <1>2 DEF AllDrawn, f
    <3>6. SumFunctionOnSet(g, Purchases) = traffic + 1
      BY <1>3, <3>3, <3>4, <3>5
    <3>7. \A o \in Purchases : g[o] <= traffic + 1
      BY <3>3, <3>6, OrdersFinite, SumAtLeast
    <3>8. traffic + 1 <= Quota
      BY <1>3, <3>1
    <3>9. \A o \in Purchases : g[o] \in 0..Quota
      BY <1>3, <3>3, <3>7, <3>8
    <3>10. g \in [Purchases -> 0..Quota]
      BY <1>3, <3>9 DEF g
    <3> QED BY <1>3, <3>1, <3>6, <3>8, <3>10 DEF AllDrawn, g, s
  <2> QED BY <2>1, <2>2
<1>5. BillingTypeOK'
  BY <1>1, <1>2, <1>4 DEF BillingTypeOK
<1>6. RowsInOrder' /\ Linked' /\ Worth' /\ Dated' /\ Current' /\ Unrefunded'
  BY <1>1, <1>2 DEF RowsInOrder, Linked, Worth, Dated, Current, Unrefunded, Begun, Bought, Prev,
                    VSource
<1>7. DraftPriced'
  BY <1>1, <1>2 DEF DraftPriced, Bought, Prev, DaysThen, GrossThen, VSource, DTotal
<1> QED BY <1>4, <1>5, <1>6, <1>7 DEF Books

-----------------------------------------------------------------------------
(* What a refund charges.                                                  *)

\* A segment is no shorter than the service in it.
LEMMA SegmentServed ==
  ASSUME Books, NEW win \in SUBSET Begun, NEW o \in win
  PROVE  SegmentEnd(o, win) \in Nat /\ purchase[o].from + held[o] <= SegmentEnd(o, win)
<1> DEFINE later == {p \in win : \/ purchase[p].from > purchase[o].from
                                 \/ purchase[p].from = purchase[o].from /\ p > o}
           starts == {purchase[p].from : p \in later}
<1>1. BillingTypeOK /\ Dated /\ Begun \subseteq Purchases /\ o \in Purchases
  BY DEF Books, Begun, Bought
<1>2. date \in Nat /\ purchase[o].from + held[o] <= date
  BY <1>1, BillingAssumption DEF BillingTypeOK, Dates, Dated
<1>3. \A p \in win : p \in Nat /\ purchase[p].from \in Nat /\ purchase[p].from \in 0..Horizon
                     /\ held[p] \in Nat
  <2> TAKE p \in win
  <2>1. p \in Purchases
    BY <1>1
  <2>2. purchase[p] \in PurchaseRows
    BY <1>1, <2>1, RowTypes
  <2> QED
    BY <1>1, <2>1, <2>2, OrdersFinite, RowTypes DEF PurchaseRows, Dates
<1>4. \A p \in later : purchase[o].from + held[o] <= purchase[p].from
  <2> TAKE p \in later
  <2>1. p \in Begun /\ o \in Begun
    OBVIOUS
  <2>2. ~ (p < o)
    <3> SUFFICES ASSUME p < o PROVE FALSE
      OBVIOUS
    <3>1. purchase[p].from + held[p] <= purchase[o].from
      BY <1>1, <2>1 DEF Dated
    <3> QED BY <1>3, <3>1
  <2>3. p # o
    BY <1>3
  <2>4. o < p
    BY <1>3, <2>2, <2>3
  <2> QED BY <1>1, <2>1, <2>4 DEF Dated
<1>5. CASE later = {}
  <2>1. SegmentEnd(o, win) = date
    BY <1>5 DEF SegmentEnd
  <2> QED BY <1>2, <2>1
<1>6. CASE later # {}
  <2>1. SegmentEnd(o, win) = LeastOf(date, Min(starts))
    BY <1>6 DEF SegmentEnd
  <2>2. starts \in SUBSET (0..Horizon) /\ starts # {} /\ Horizon \in Nat
    BY <1>3, <1>6, BillingAssumption
  <2>3. \A n \in starts : n \in Nat /\ purchase[o].from + held[o] <= n
    BY <1>3, <1>4
  <2> HIDE DEF starts, later
  <2>4. \E n \in starts : \A m \in starts : n <= m
    BY <2>2, LeastNumber
  <2>5. Min(starts) \in starts
    BY <2>4 DEF Min
  <2> QED BY <1>2, <2>1, <2>3, <2>5 DEF LeastOf
<1> QED BY <1>5, <1>6

\* A refund charges at least the time that was served.
LEMMA TimeCharged ==
  ASSUME Books, NEW win \in SUBSET Begun, IsFiniteSet(win)
  PROVE  /\ ConsumedTime(win) \in Nat /\ TimeByMonth(win) \in Nat
         /\ TimeByMonth(win) <= ConsumedTime(win)
<1> DEFINE f == [o \in win |-> (Monthly[purchase[o].tier] * held[o]) \div (Day * MonthDays)]
           g == [o \in win |-> (Monthly[purchase[o].tier]
                                  * MostOf(0, SegmentEnd(o, win) - purchase[o].from))
                                 \div (Day * MonthDays)]
<1>1. Day * MonthDays \in Nat \ {0}
  BY TermIsPositive DEF TermPositive
<1>2. \A o \in win : f[o] \in Nat /\ g[o] \in Nat /\ f[o] <= g[o]
  <2> TAKE o \in win
  <2>1. Monthly[purchase[o].tier] \in Nat /\ o \in Purchases
    BY BegunPriced DEF Books
  <2>2. held[o] \in Nat /\ purchase[o].from \in Nat
    BY <2>1, RowTypes DEF Books
  <2>3. SegmentEnd(o, win) \in Nat /\ purchase[o].from + held[o] <= SegmentEnd(o, win)
    BY SegmentServed
  <2> DEFINE length == MostOf(0, SegmentEnd(o, win) - purchase[o].from)
             monthly == Monthly[purchase[o].tier]
             d == Day * MonthDays
  <2>4. length \in Nat /\ held[o] <= length
    BY <2>2, <2>3 DEF MostOf
  <2>5. f[o] = (monthly * held[o]) \div d /\ g[o] = (monthly * length) \div d
        /\ monthly \in Nat /\ d \in Nat \ {0}
    BY <1>1, <2>1
  <2> HIDE DEF length, monthly, d, f, g
  <2>6. monthly * held[o] \in Nat /\ monthly * length \in Nat
        /\ monthly * held[o] <= monthly * length
    BY <2>2, <2>4, <2>5, NatProduct, ProductGrows
  <2> QED BY <2>5, <2>6, Quotient, QuotientGrows
<1>3. ConsumedTime(win) = SumFunctionOnSet(g, win) /\ TimeByMonth(win) = SumFunctionOnSet(f, win)
  BY DEF ConsumedTime, TimeByMonth
<1>4. win \in SUBSET win
  OBVIOUS
<1> HIDE DEF f, g
<1>5. SumFunctionOnSet(f, win) \in Nat /\ SumFunctionOnSet(g, win) \in Nat
      /\ SumFunctionOnSet(f, win) <= SumFunctionOnSet(g, win)
  BY <1>2, <1>4, SumNat, SumMonotone
<1> QED BY <1>3, <1>5

\* What a refund charges for traffic is a number.
LEMMA DataCharged ==
  ASSUME Books, NEW o \in Begun
  PROVE  ConsumedData(o) \in Nat
<1>1. Monthly[purchase[o].tier] \in Nat
  BY BegunPriced DEF Books
<1>2. traffic \in Nat /\ allowance \in Nat
  BY BillingAssumption DEF Books, BillingTypeOK
<1>3. PlanUsed \in Nat /\ MostOf(1, allowance) \in Nat \ {0}
  BY <1>2 DEF PlanUsed, LeastOf, MostOf
<1>4. Monthly[purchase[o].tier] * PlanUsed \in Nat
  BY <1>1, <1>3, NatProduct
<1> QED BY <1>3, <1>4, Quotient DEF ConsumedData

\* What a refund looks back on are begun orders.
LEMMA BasisBegun ==
  ASSUME RowsLinked
  PROVE  \A t \in Begun : BasisOf[t] \subseteq Begun \cap 1..t
<1> DEFINE P == {t \in Begun : ~ (BasisOf[t] \subseteq Begun \cap 1..t)}
<1> SUFFICES ASSUME P # {} PROVE FALSE
  OBVIOUS
<1>1. Straight /\ Begun \subseteq Purchases
  BY LinksStraight DEF Begun, Bought
<1>2. P \in SUBSET (0..LastPurchase)
  <2>1. Purchases \subseteq 0..LastPurchase
    BY OrdersFinite
  <2> QED BY <1>1, <2>1
<1>3. PICK o \in P : \A p \in P : o <= p
  <2> HIDE DEF P
  <2> QED BY <1>2, LeastNumber, OrdersFinite
<1>4. o \in Begun /\ o \in Purchases /\ ~ (BasisOf[o] \subseteq Begun \cap 1..o) /\ o \in Nat
      /\ o \in 1..o
  BY <1>1, <1>3, OrdersFinite
<1>5. BasisOf[o] = {o} \cup (IF Prev(o) # None
                             THEN IF purchase[Prev(o)].status = "completed"
                                  THEN BasisOf[Prev(o)] ELSE {}
                             ELSE {})
  BY <1>1, <1>4, BasisUnfolds
<1>6. Prev(o) # None /\ BasisOf[o] = {o} \cup BasisOf[Prev(o)]
  BY <1>4, <1>5
<1>7. Prev(o) \in Begun /\ Prev(o) < o /\ Prev(o) \in Nat
  <2>1. Prev(o) \in Begun /\ Prev(o) < o
    BY <1>4, <1>6 DEF RowsLinked, Linked
  <2>2. Prev(o) \in Purchases
    BY <1>1, <2>1
  <2>3. Purchases \subseteq Nat
    BY OrdersFinite
  <2> QED BY <2>1, <2>2, <2>3
<1>8. BasisOf[Prev(o)] \subseteq Begun \cap 1..Prev(o)
  BY <1>3, <1>4, <1>7
<1>9. 1..Prev(o) \subseteq 1..o
  BY <1>4, <1>7
<1> QED
  BY <1>4, <1>6, <1>8, <1>9
Most(o) == (IF CoolsOff(o) THEN VWindow(BasisOf[o]) ELSE RefundB(o)) - given[o].sum

\* What a refund may give at most is a number, of begun orders.
LEMMA MostIsNumber ==
  ASSUME Books, NEW o \in Begun
  PROVE  /\ Most(o) \in Int /\ BasisOf[o] \in SUBSET Begun /\ IsFiniteSet(BasisOf[o])
         /\ RefundB(o) = MostOf(0, VWindow(BasisOf[o]) - ConsumedTime(BasisOf[o]) - ConsumedData(o))
<1>1. o \in Purchases /\ RowsLinked /\ BillingTypeOK /\ RowsInOrder
  BY DEF Begun, Bought, Books, RowsLinked
<1>2. BasisOf[o] \subseteq Begun \cap 1..o
  BY <1>1, BasisBegun
<1>3. IsFiniteSet(1..o)
  BY <1>1, OrdersFinite, FS_Interval
<1>4. IsFiniteSet(BasisOf[o]) /\ BasisOf[o] \in SUBSET Begun
  BY <1>2, <1>3, FS_Subset
<1>5. VWindow(BasisOf[o]) \in Nat
  BY <1>1, <1>4, WindowSums
<1>6. ConsumedTime(BasisOf[o]) \in Nat
  BY <1>4, TimeCharged
<1>7. ConsumedData(o) \in Nat /\ given[o].sum \in Nat
  BY <1>1, DataCharged, RowTypes
<1>8. RefundB(o) = MostOf(0, VWindow(BasisOf[o]) - ConsumedTime(BasisOf[o]) - ConsumedData(o))
  BY DEF RefundB
<1>9. RefundB(o) \in Nat
  BY <1>5, <1>6, <1>7, <1>8 DEF MostOf
<1> QED BY <1>4, <1>5, <1>7, <1>8, <1>9 DEF Most

\* What a refund writes.
LEMMA RefundRow ==
  ASSUME Books, NEW n \in Purchases, RefundPurchase(n)
  PROVE  /\ n \in Begun /\ Most(n) > 0 /\ Refunds(Purchases) < MaxRefunds
         /\ \E amount \in Nat \ {0} :
              /\ amount <= Most(n)
              /\ given'[n] = [sum |-> given[n].sum + amount, times |-> given[n].times + 1,
                              cooled |-> given[n].cooled \/ CoolsOff(n)]
         /\ \A p \in Purchases : p # n => given'[p] = given[p]
         /\ given' = [p \in Purchases |-> given'[p]]
         /\ purchase' = [p \in Purchases |-> purchase'[p]]
         /\ \E after \in {"refunded", "partially_refunded"} :
              purchase'[n] = [purchase[n] EXCEPT !.status = after]
         /\ \A p \in Purchases : p # n => purchase'[p] = purchase[p]
         /\ sub' = [order |-> None, expires |-> date] /\ allowance' = 0
         /\ UNCHANGED <<date, traffic, held, drawn>>
<1>1. /\ purchase[n].status \in {"completed", "partially_refunded"} /\ Most(n) > 0
      /\ Refunds(Purchases) < MaxRefunds
      /\ \E amount \in {1, Most(n)} :
           /\ given' = [given EXCEPT ![n] =
                [sum |-> @.sum + amount, times |-> @.times + 1,
                 cooled |-> @.cooled \/ CoolsOff(n)]]
           /\ purchase' = [purchase EXCEPT ![n].status =
                IF amount = Most(n) THEN "refunded" ELSE "partially_refunded"]
      /\ sub' = [order |-> None, expires |-> date] /\ allowance' = 0
      /\ UNCHANGED <<date, traffic, held, drawn>>
  BY DEF RefundPurchase, Most
<1>2. n \in Begun
  BY <1>1 DEF Begun, Bought
<1>3. Most(n) \in Int
  BY <1>2, MostIsNumber
<1>4. PICK amount \in {1, Most(n)} :
        /\ given' = [given EXCEPT ![n] =
             [sum |-> @.sum + amount, times |-> @.times + 1,
              cooled |-> @.cooled \/ CoolsOff(n)]]
        /\ purchase' = [purchase EXCEPT ![n].status =
             IF amount = Most(n) THEN "refunded" ELSE "partially_refunded"]
  BY <1>1
<1>5. amount \in Nat \ {0} /\ amount <= Most(n)
  BY <1>1, <1>3, <1>4
<1>6. given \in [Purchases -> [sum : Nat, times : 0..MaxRefunds, cooled : BOOLEAN]]
      /\ purchase \in [Purchases -> PurchaseRows]
  BY DEF Books, BillingTypeOK
<1>7. /\ given'[n] = [sum |-> given[n].sum + amount, times |-> given[n].times + 1,
                      cooled |-> given[n].cooled \/ CoolsOff(n)]
      /\ \A p \in Purchases : p # n => given'[p] = given[p]
      /\ given' = [p \in Purchases |-> given'[p]]
  BY <1>4, <1>6
<1>8. /\ \E after \in {"refunded", "partially_refunded"} :
           purchase'[n] = [purchase[n] EXCEPT !.status = after]
      /\ \A p \in Purchases : p # n => purchase'[p] = purchase[p]
      /\ purchase' = [p \in Purchases |-> purchase'[p]]
  BY <1>4, <1>6
<1> QED BY <1>1, <1>2, <1>5, <1>7, <1>8

\* A refund changes of an order its status only.
LEMMA RefundedRow ==
  ASSUME Books, NEW n \in Purchases, RefundPurchase(n)
  PROVE  /\ purchase'[n] \in PurchaseRows
         /\ purchase'[n].status \in {"refunded", "partially_refunded"}
         /\ Begun' = Begun /\ Begun \subseteq Purchases
         /\ \A p \in Purchases :
              /\ purchase'[p].tier = purchase[p].tier /\ Prev(p)' = Prev(p)
              /\ purchase'[p].due = purchase[p].due /\ purchase'[p].surplus = purchase[p].surplus
              /\ purchase'[p].created = purchase[p].created
              /\ purchase'[p].from = purchase[p].from /\ purchase'[p].to = purchase[p].to
              /\ purchase'[p].status # "none" <=> purchase[p].status # "none"
              /\ purchase'[p].status = "pending" <=> purchase[p].status = "pending"
<1>1. n \in Begun /\ \A p \in Purchases : p # n => purchase'[p] = purchase[p]
  BY RefundRow
<1>2. PICK after \in {"refunded", "partially_refunded"} :
        purchase'[n] = [purchase[n] EXCEPT !.status = after]
  BY RefundRow
<1>3. purchase[n] \in PurchaseRows
  BY RowTypes DEF Books
<1>4. /\ purchase'[n] \in PurchaseRows /\ purchase'[n].status = after
      /\ purchase'[n].tier = purchase[n].tier /\ purchase'[n].prev = purchase[n].prev
      /\ purchase'[n].due = purchase[n].due /\ purchase'[n].surplus = purchase[n].surplus
      /\ purchase'[n].created = purchase[n].created
      /\ purchase'[n].from = purchase[n].from /\ purchase'[n].to = purchase[n].to
  BY <1>2, <1>3 DEF PurchaseRows
<1>5. purchase[n].status # "none" /\ purchase[n].status # "pending"
  BY <1>1 DEF Begun, Bought
<1>6. ASSUME NEW p \in Purchases
      PROVE  /\ purchase'[p].tier = purchase[p].tier /\ Prev(p)' = Prev(p)
             /\ purchase'[p].due = purchase[p].due /\ purchase'[p].surplus = purchase[p].surplus
             /\ purchase'[p].created = purchase[p].created
             /\ purchase'[p].from = purchase[p].from /\ purchase'[p].to = purchase[p].to
             /\ purchase'[p].status # "none" <=> purchase[p].status # "none"
             /\ purchase'[p].status = "pending" <=> purchase[p].status = "pending"
  <2>1. CASE p = n
    BY <1>4, <1>5, <2>1 DEF Prev
  <2>2. CASE p # n
    BY <1>1, <2>2 DEF Prev
  <2> QED BY <2>1, <2>2
<1>7. Begun' = Begun /\ Begun \subseteq Purchases
  BY <1>1, <1>4 DEF Begun, Bought
<1> QED BY <1>4, <1>6, <1>7

\* A refund keeps the books.
LEMMA RefundBooks ==
  ASSUME Books, NEW n \in Purchases, RefundPurchase(n)
  PROVE  Books'
<1>1. /\ n \in Begun /\ Refunds(Purchases) < MaxRefunds
      /\ \A p \in Purchases : p # n => given'[p] = given[p] /\ purchase'[p] = purchase[p]
      /\ given' = [p \in Purchases |-> given'[p]]
      /\ purchase' = [p \in Purchases |-> purchase'[p]]
      /\ sub' = [order |-> None, expires |-> date] /\ allowance' = 0
      /\ UNCHANGED <<date, traffic, held, drawn>>
  BY RefundRow
<1>2. PICK amount \in Nat \ {0} :
        given'[n] = [sum |-> given[n].sum + amount, times |-> given[n].times + 1,
                     cooled |-> given[n].cooled \/ CoolsOff(n)]
  BY RefundRow
<1>3. /\ purchase'[n] \in PurchaseRows
      /\ purchase'[n].status \in {"refunded", "partially_refunded"}
      /\ Begun' = Begun /\ Begun \subseteq Purchases
  BY RefundedRow
<1>4. \A p \in Purchases :
        /\ purchase'[p].tier = purchase[p].tier /\ Prev(p)' = Prev(p)
        /\ purchase'[p].due = purchase[p].due /\ purchase'[p].surplus = purchase[p].surplus
        /\ purchase'[p].created = purchase[p].created
        /\ purchase'[p].from = purchase[p].from /\ purchase'[p].to = purchase[p].to
        /\ purchase'[p].status # "none" <=> purchase[p].status # "none"
        /\ purchase'[p].status = "pending" <=> purchase[p].status = "pending"
  BY RefundedRow
<1>5. BillingTypeOK /\ RowsInOrder /\ Linked /\ Worth /\ Dated /\ Current /\ Unrefunded
      /\ AllDrawn /\ DraftPriced
  BY DEF Books
<1>6. BillingTypeOK'
  <2>1. given[n].times + 1 \in 0..MaxRefunds
    <3> DEFINE f == [o \in Purchases |-> given[o].times]
    <3>1. \A o \in Purchases : f[o] \in Nat
      BY <1>5, RowTypes
    <3>2. MaxRefunds \in Nat /\ f[n] = given[n].times
      BY BillingAssumption
    <3>3. Refunds(Purchases) = SumFunctionOnSet(f, Purchases)
      BY DEF Refunds
    <3> HIDE DEF f
    <3>4. IsFiniteSet(Purchases)
      BY OrdersFinite
    <3>5. f[n] <= SumFunctionOnSet(f, Purchases) /\ SumFunctionOnSet(f, Purchases) \in Nat
      BY <3>1, <3>4, SumAtLeast, SumNat
    <3> QED BY <1>1, <3>1, <3>2, <3>3, <3>5
  <2>2. given'[n] \in [sum : Nat, times : 0..MaxRefunds, cooled : BOOLEAN]
    <3>1. given[n].sum + amount \in Nat
      BY <1>5, RowTypes
    <3>2. (given[n].cooled \/ CoolsOff(n)) \in BOOLEAN
      BY DEF CoolsOff
    <3> QED BY <1>2, <2>1, <3>1, <3>2
  <2>3. given' \in [Purchases -> [sum : Nat, times : 0..MaxRefunds, cooled : BOOLEAN]]
    <3>1. given \in [Purchases -> [sum : Nat, times : 0..MaxRefunds, cooled : BOOLEAN]]
      BY <1>5 DEF BillingTypeOK
    <3> QED BY <1>1, <2>2, <3>1
  <2>4. purchase' \in [Purchases -> PurchaseRows]
    <3>1. purchase \in [Purchases -> PurchaseRows]
      BY <1>5 DEF BillingTypeOK
    <3> QED BY <1>1, <1>3, <3>1
  <2>5. sub' \in [order : Purchases \cup {None}, expires : EndTimes]
    <3>1. date \in 0..Horizon /\ Horizon \in Nat /\ Day \in Nat /\ PeriodDays \in Nat
      BY <1>5, BillingAssumption DEF BillingTypeOK, Dates
    <3>2. Day * PeriodDays \in Nat
      BY <3>1, NatProduct
    <3>3. date \in EndTimes
      BY <3>1, <3>2 DEF EndTimes
    <3> QED BY <1>1, <3>3
  <2>6. marred' \subseteq Purchases /\ unmetered' \subseteq Purchases
    BY <1>5 DEF RefundPurchase, BillingTypeOK
  <2> QED BY <1>1, <1>5, <2>3, <2>4, <2>5, <2>6 DEF BillingTypeOK
<1>7. RowsInOrder'
  <2>1. ASSUME NEW o \in Purchases, purchase'[o].status # "none"
        PROVE  (\A p \in 1..o : purchase'[p].status # "none") /\ purchase'[o].tier \in Tiers
    <3>1. (\A p \in 1..o : purchase[p].status # "none") /\ purchase[o].tier \in Tiers
      BY <1>4, <1>5, <2>1 DEF RowsInOrder
    <3>2. 1..o \subseteq Purchases
      BY OrdersFinite
    <3> QED BY <1>4, <3>1, <3>2
  <2>2. \A o \in Bought({"pending"})', p \in Purchases : p > o => purchase'[p].status = "none"
    BY <1>4, <1>5 DEF RowsInOrder, Bought
  <2>3. \A o \in Bought({"none"})' : purchase'[o] = NoPurchase
    <3>1. \A o \in Bought({"none"})' : o \in Purchases /\ o # n /\ purchase[o].status = "none"
      BY <1>3, <1>4 DEF Bought
    <3> QED BY <1>1, <1>5, <3>1 DEF Bought, RowsInOrder
  <2> QED BY <2>1, <2>2, <2>3 DEF RowsInOrder
<1>8. Linked'
  <2> SUFFICES ASSUME NEW o \in Purchases
               PROVE  /\ Prev(o)' # None =>
                           /\ Prev(o)' \in Begun' /\ Prev(o)' < o
                           /\ Price[purchase'[Prev(o)'].tier] < Price[purchase'[o].tier]
                      /\ (Prev(o)' = None /\ purchase'[o].status # "none") =>
                           purchase'[o].due = Price[purchase'[o].tier] /\ purchase'[o].surplus = 0
    BY DEF Linked, Prev
  <2>1. Prev(o) # None => Prev(o) \in Begun /\ Prev(o) \in Purchases
    BY <1>3, <1>5 DEF Linked
  <2>2. Prev(o)' = Prev(o) /\ purchase'[o].tier = purchase[o].tier
        /\ purchase'[o].due = purchase[o].due /\ purchase'[o].surplus = purchase[o].surplus
        /\ (purchase'[o].status # "none" <=> purchase[o].status # "none")
    BY <1>4
  <2>3. Prev(o) # None => purchase'[Prev(o)].tier = purchase[Prev(o)].tier
    BY <1>4, <2>1
  <2> QED BY <1>3, <1>5, <2>1, <2>2, <2>3 DEF Linked
<1>9. Worth'
  BY <1>4, <1>5 DEF Worth, VSource, Bought
<1>10. Dated'
  BY <1>1, <1>3, <1>4, <1>5 DEF Dated
<1>11. Current'
  BY <1>1 DEF Current
<1>12. Unrefunded'
  <2> SUFFICES ASSUME NEW o \in Purchases,
                      purchase'[o].status \in {"none", "pending", "completed"}
               PROVE  given'[o] = [sum |-> 0, times |-> 0, cooled |-> FALSE]
    BY DEF Unrefunded, Bought
  <2>1. o # n
    BY <1>3
  <2> QED BY <1>1, <1>5, <2>1 DEF Unrefunded, Bought
<1>13. AllDrawn'
  BY <1>1, <1>5 DEF AllDrawn
<1>14. DraftPriced'
  <2>1. ASSUME NEW o \in Bought({"pending"})'
        PROVE  o \in Bought({"pending"}) /\ o \in Purchases /\ Prev(o)' = Prev(o)
               /\ (Prev(o) # None => Prev(o) \in Purchases)
    BY <1>3, <1>4, <1>5 DEF Bought, Linked
  <2>2. \A o \in Purchases : VSource(o)' = VSource(o) /\ DTotal(o)' = DTotal(o)
                             /\ DaysThen(o)' = DaysThen(o)
    BY <1>4 DEF VSource, DTotal, DaysThen
  <2>3. ASSUME NEW o \in Bought({"pending"})', Prev(o) # None
        PROVE  VSource(Prev(o))' = VSource(Prev(o)) /\ DTotal(Prev(o))' = DTotal(Prev(o))
               /\ GrossThen(o)' = GrossThen(o)
    <3>1. o \in Purchases /\ Prev(o) \in Purchases /\ Prev(o)' = Prev(o)
      BY <2>1, <2>3
    <3>2. VSource(Prev(o))' = VSource(Prev(o)) /\ DTotal(Prev(o))' = DTotal(Prev(o))
      BY <1>4, <3>1 DEF VSource, DTotal
    <3> QED BY <1>4, <2>2, <3>1, <3>2 DEF GrossThen
  <2> QED BY <1>1, <1>4, <1>5, <2>1, <2>2, <2>3 DEF DraftPriced
<1> QED
  BY <1>6, <1>7, <1>8, <1>9, <1>10, <1>11, <1>12, <1>13, <1>14 DEF Books

\* An upgrade is drafted at today's price of the order that runs.
LEMMA UpgradeDraft ==
  ASSUME Books, NEW tier \in Tiers, Upgrade(tier)
  PROVE  \E prev, gross, surplus, to :
           UpgradeTerms(tier, prev, gross, surplus, to) /\ WriteDraft(tier, prev, gross, surplus, to)
<1>1. PICK src \in SubscriptionSource :
        LET gross == MulDiv(Price[tier], DLeft(src), DTotal(src)) IN
        /\ SubscriptionActive /\ purchase[sub.order].tier # tier
        /\ Price[tier] > Price[purchase[sub.order].tier]
        /\ WriteDraft(tier, src, gross, Surplus(src, gross), purchase[src].to)
  BY DEF Upgrade
<1> DEFINE gross == MulDiv(Price[tier], DLeft(src), DTotal(src))
<1>2. BillingTypeOK /\ Dated /\ Current /\ SubscriptionActive
  BY <1>1 DEF Books
<1>3. /\ sub.order \in Begun /\ sub.order \in Purchases /\ \A p \in Begun : p <= sub.order
      /\ date < purchase[sub.order].to /\ sub.order \in Bought({"completed"})
  BY <1>2, ActiveOrder DEF Current, SubscriptionActive
<1>4. src = sub.order
  <2>1. src \in Bought({"completed"}) /\ src \in Begun /\ src \in Purchases
    BY DEF SubscriptionSource, Bought, Begun
  <2>2. \/ purchase[sub.order].from < purchase[src].from
        \/ purchase[sub.order].from = purchase[src].from /\ sub.order <= src
    BY <1>3 DEF SubscriptionSource
  <2>3. src < sub.order => purchase[src].from + held[src] <= purchase[sub.order].from
    BY <1>2, <1>3, <2>1 DEF Dated
  <2>4. purchase[src].from \in Nat /\ held[src] \in Nat /\ purchase[sub.order].from \in Nat
    BY <1>2, <1>3, <2>1, RowTypes
  <2>5. src <= sub.order /\ src \in Nat /\ sub.order \in Nat
    BY <1>3, <2>1, OrdersFinite
  <2> QED BY <2>2, <2>3, <2>4, <2>5
<1>5. src \in Begun /\ date < purchase[src].to /\ src \in Purchases
  BY <1>3, <1>4
<1>6. date \in Nat /\ purchase[src].from \in Nat /\ purchase[src].to \in Nat
      /\ held[src] \in Nat
  BY <1>2, <1>5, RowTypes, BillingAssumption DEF BillingTypeOK, Dates
<1>7. purchase[src].from <= date
  BY <1>2, <1>5, <1>6 DEF Dated
<1>8. DTotal(src) = DaysUp(purchase[src].to - purchase[src].from)
  BY <1>5, <1>6, <1>7, DaysOfOrder
<1>9. DLeft(src) = DaysUp(purchase[src].to - date)
  <2> DEFINE whole == purchase[src].to - purchase[src].from
             left == purchase[src].to - date
  <2>1. whole \in Nat /\ left \in Nat /\ left <= whole
    BY <1>5, <1>6, <1>7
  <2>2. DaysUp(left) <= DaysUp(whole) /\ DaysUp(left) \in Nat /\ DaysUp(whole) \in Nat
    BY <2>1, DaysGrow, DaysCover
  <2>3. DLeft(src) = LeastOf(DaysUp(whole), DaysUp(left))
    BY <1>5, <1>6, <1>8 DEF DLeft
  <2> HIDE DEF whole, left
  <2>4. DLeft(src) = DaysUp(left)
    BY <2>2, <2>3 DEF LeastOf
  <2> QED BY <2>4 DEF left
<1>10. UpgradeTerms(tier, src, gross, Surplus(src, gross), purchase[src].to)
  BY <1>1, <1>4, <1>5, <1>7, <1>9 DEF UpgradeTerms, Surplus
<1> QED BY <1>1, <1>10

-----------------------------------------------------------------------------
(* What each step does to the windows.                                     *)

\* Orders that begun ones come from stay the same.
LEMMA ChainsStay ==
  ASSUME Books, Books', \A p \in Begun : p \in Begun' /\ Prev(p)' = Prev(p)
  PROVE  \A p \in Begun : Chain'[p] = Chain[p]
BY ChainsKept DEF Books, RowsLinked

\* A step that begins no order keeps the windows, if it keeps what is said of
\* the last order of each.
LEMMA WindowsKept ==
  ASSUME Books, WindowsFit, Books', Begun' = Begun, \A p \in Begun : Prev(p)' = Prev(p),
         marred \subseteq marred',
         \A t \in Begun : (LastOf(t) /\ Chain[t] \cap marred' = {}) => LastOf(t)'
  PROVE  WindowsFit'
<1>1. \A p \in Begun : Chain'[p] = Chain[p]
  BY ChainsStay
<1> SUFFICES ASSUME NEW r \in Begun, Prev(r) = None, Window(r)' \cap marred' = {}
             PROVE  \E t \in Begun : Window(r)' = Chain'[t] /\ LastOf(t)'
  BY DEF WindowsFit
<1>2. Window(r)' = Window(r)
  BY <1>1 DEF Window
<1>3. PICK t \in Begun : Window(r) = Chain[t] /\ LastOf(t)
  BY <1>2 DEF WindowsFit
<1>4. LastOf(t)'
  BY <1>2, <1>3
<1> QED BY <1>1, <1>2, <1>3, <1>4

\* Drafts, and orders that lapse, are no part of a window.
LEMMA IdleWindows ==
  ASSUME Books, WindowsFit, Books', Begun' = Begun, \A p \in Begun : purchase'[p] = purchase[p],
         UNCHANGED <<date, sub, traffic, allowance, given, held, drawn, marred, unmetered>>
  PROVE  WindowsFit'
<1>1. \A p \in Begun : Prev(p)' = Prev(p)
  BY DEF Prev
<1>2. \A p \in Begun : Chain'[p] = Chain[p]
  BY <1>1, ChainsStay
<1>3. ASSUME NEW t \in Begun, LastOf(t) PROVE LastOf(t)'
  <2>1. Chain[t] \subseteq Begun /\ Chain'[t] = Chain[t] /\ t \in Chain[t] /\ t \in Purchases
    BY <1>2, ChainOfBegun DEF Books, RowsLinked
  <2>2. BillingTypeOK'
    BY DEF Books
  <2>3. ServedThrough(t)'
    BY <1>3 DEF LastOf, ServedThrough
  <2>4. \A p \in Chain[t] : drawn[p] <= drawn[p]
    <3>1. \A p \in Chain[t] : drawn[p] \in Nat
      BY <2>1, RowTypes DEF Books, Begun, Bought
    <3> QED BY <3>1
  <2> QED BY <1>3, <2>1, <2>2, <2>3, <2>4, LastOfKept
<1> QED BY <1>1, <1>3, WindowsKept

\* Time and traffic go to the last order that runs, which has no refund.
LEMMA ServiceWindows ==
  ASSUME Books, WindowsFit, Books', DatePasses \/ DrawTraffic \/ ResetTraffic
  PROVE  WindowsFit'
<1>1. UNCHANGED <<purchase, sub, allowance, given, marred, unmetered>>
  BY DEF DatePasses, DrawTraffic, ResetTraffic
<1>2. Begun' = Begun /\ \A p \in Begun : Prev(p)' = Prev(p)
  BY <1>1 DEF Begun, Bought, Prev
<1>3. \A p \in Begun : Chain'[p] = Chain[p]
  BY <1>2, ChainsStay
<1>4. BillingTypeOK /\ BillingTypeOK'
  BY DEF Books
<1>5. \/ UNCHANGED <<date, held>>
      \/ /\ date' = date + 1
         /\ held' = IF SubscriptionActive THEN [held EXCEPT ![sub.order] = @ + 1] ELSE held
  BY DEF DatePasses, DrawTraffic, ResetTraffic
<1>6. \/ drawn' = drawn \/ drawn' = [o \in Purchases |-> 0]
      \/ SubscriptionActive /\ drawn' = [drawn EXCEPT ![sub.order] = @ + 1]
  BY DEF DatePasses, DrawTraffic, ResetTraffic
<1>7. SubscriptionActive =>
        /\ sub.order \in Begun /\ sub.order \in Purchases /\ \A p \in Begun : p <= sub.order
        /\ date < purchase[sub.order].to /\ given[sub.order].times = 0
  BY ActiveOrder
<1>8. ASSUME NEW t \in Begun, LastOf(t) PROVE LastOf(t)'
  <2>1. /\ Chain[t] \subseteq Begun /\ Chain'[t] = Chain[t] /\ t \in Chain[t] /\ t \in Purchases
        /\ Begun \subseteq Purchases /\ \A p \in Chain[t] : p \in Nat /\ p <= t
    BY <1>3, ChainOfBegun DEF Books, RowsLinked
  <2>2. ASSUME NEW p \in Chain[t], SubscriptionActive, p = sub.order
        PROVE  p = t /\ given[t].times = 0
    <3>1. t <= sub.order /\ p <= t /\ p \in Nat /\ t \in Nat
      BY <1>7, <2>1, <2>2
    <3> QED BY <1>7, <2>2, <3>1
  <2>3. \A p \in Chain[t] : held'[p] = held[p] \/ (p = t /\ given[t].times = 0)
    BY <1>4, <1>5, <1>7, <2>1, <2>2 DEF BillingTypeOK
  <2>4. \A p \in Chain[t] : drawn'[p] <= drawn[p] \/ (p = t /\ given[t].times = 0)
    <3> TAKE p \in Chain[t]
    <3>1. drawn[p] \in Nat /\ p \in Purchases /\ DOMAIN drawn = Purchases
      BY <1>4, <2>1, RowTypes DEF BillingTypeOK
    <3>2. CASE SubscriptionActive /\ drawn' = [drawn EXCEPT ![sub.order] = @ + 1]
      <4>1. CASE p = sub.order
        BY <2>2, <3>2, <4>1
      <4>2. CASE p # sub.order
        BY <3>1, <3>2, <4>2
      <4> QED BY <4>1, <4>2
    <3>3. CASE drawn' = drawn \/ drawn' = [o \in Purchases |-> 0]
      BY <3>1, <3>3
    <3> QED BY <1>6, <3>2, <3>3
  <2>5. ServedThrough(t)'
    <3>1. SUFFICES ASSUME given[t].times = 0
                   PROVE  /\ held'[t] = LeastOf(date', purchase[t].to) - purchase[t].from
                          /\ sub.order = t \/ purchase[t].to <= date'
      BY <1>1 DEF ServedThrough
    <3>2. /\ held[t] = LeastOf(date, purchase[t].to) - purchase[t].from
          /\ sub.order = t \/ purchase[t].to <= date
      BY <1>8, <3>1 DEF LastOf, ServedThrough
    <3>3. held[t] \in Nat /\ purchase[t].from \in Nat /\ purchase[t].to \in Nat /\ date \in Nat
      BY <1>4, <2>1, RowTypes, BillingAssumption DEF BillingTypeOK, Dates
    <3>4. CASE UNCHANGED <<date, held>>
      BY <3>2, <3>4
    <3>5. CASE /\ date' = date + 1
               /\ held' = IF SubscriptionActive THEN [held EXCEPT ![sub.order] = @ + 1] ELSE held
      <4>1. DOMAIN held = Purchases
        BY <1>4 DEF BillingTypeOK
      <4>2. CASE SubscriptionActive /\ sub.order = t
        <5>1. held'[t] = held[t] + 1 /\ date < purchase[t].to
          BY <1>7, <2>1, <3>5, <4>1, <4>2
        <5> QED BY <3>2, <3>3, <3>5, <4>2, <5>1 DEF LeastOf
      <4>3. CASE ~ (SubscriptionActive /\ sub.order = t)
        <5>1. held'[t] = held[t]
          BY <2>1, <3>5, <4>1, <4>3
        <5>2. purchase[t].to <= date
          <6>1. sub.order = t => sub.order # None /\ sub.expires = purchase[t].to
            <7>1. None \notin Purchases
              BY BillingAssumption
            <7> QED BY <2>1, <7>1 DEF Books, Current
          <6>2. sub.order = t => ~ (sub.expires > date)
            BY <4>3, <6>1 DEF SubscriptionActive
          <6> QED BY <3>2, <3>3, <6>1, <6>2
        <5> QED BY <3>2, <3>3, <3>5, <5>1, <5>2 DEF LeastOf
      <4> QED BY <4>2, <4>3
    <3> QED BY <1>5, <3>4, <3>5
  <2> QED
    <3>1. \A p \in Chain[t] : purchase'[p] = purchase[p] /\ given'[p] = given[p]
      BY <1>1
    <3>2. \A p \in Chain[t] \ {t} : held'[p] = held[p]
      BY <2>3
    <3>3. given[t].times > 0 => held'[t] = held[t] /\ \A p \in Chain[t] : drawn'[p] <= drawn[p]
      BY <2>1, <2>3, <2>4
    <3>4. Chain[t] \cap unmetered \subseteq unmetered'
      BY <1>1
    <3> QED BY <1>4, <1>8, <2>1, <2>5, <3>1, <3>2, <3>3, <3>4, LastOfKept
<1> QED BY <1>1, <1>2, <1>8, WindowsKept

\* The traffic of a window, by the month, is no more than all that was drawn,
\* at the dearest price.
LEMMA DrawnShare ==
  ASSUME Books, NEW C \in SUBSET Begun, IsFiniteSet(C), NEW most \in Nat,
         \A p \in C : Monthly[purchase[p].tier] <= most
  PROVE  DataByMonth(C) \in Nat /\ DataByMonth(C) <= (most * traffic) \div Quota
<1>1. BillingTypeOK /\ RowsInOrder /\ traffic = SumFunctionOnSet(drawn, Purchases)
      /\ Quota \in Nat \ {0}
  BY BillingAssumption DEF Books, AllDrawn
<1>2. IsFiniteSet(Purchases)
  BY OrdersFinite
<1>3. C \in SUBSET Purchases
  BY DEF Begun, Bought
<1>4. \A p \in Purchases : drawn[p] \in Nat
  BY <1>1, RowTypes
<1> DEFINE f == [o \in C |-> Monthly[purchase[o].tier] * drawn[o]]
           g == [o \in Purchases |-> most * drawn[o]]
<1>5. \A p \in C : f[p] \in Nat /\ g[p] \in Nat /\ f[p] <= g[p]
  <2> TAKE p \in C
  <2>1. p \in Purchases /\ Monthly[purchase[p].tier] \in Nat /\ drawn[p] \in Nat
    BY <1>1, <1>4, BegunPriced
  <2>2. drawn[p] * Monthly[purchase[p].tier] <= drawn[p] * most
    BY <2>1, ProductGrows
  <2>3. drawn[p] * Monthly[purchase[p].tier] = Monthly[purchase[p].tier] * drawn[p]
        /\ drawn[p] * most = most * drawn[p]
    BY <2>1
  <2> QED BY <2>1, <2>2, <2>3, NatProduct
<1>6. \A p \in Purchases : g[p] \in Nat /\ g[p] <= g[p] /\ g[p] = most * drawn[p]
  <2> TAKE p \in Purchases
  <2>1. most * drawn[p] \in Nat
    BY <1>4, NatProduct
  <2> QED BY <2>1
<1>7. DataByMonth(C) = SumFunctionOnSet(f, C) \div Quota
  BY DEF DataByMonth
<1> HIDE DEF f, g
<1>8. C \in SUBSET C
  OBVIOUS
<1>9. SumFunctionOnSet(f, C) <= SumFunctionOnSet(g, C)
  BY <1>5, <1>8, SumMonotone
<1>10. SumFunctionOnSet(g, C) <= SumFunctionOnSet(g, Purchases)
  BY <1>2, <1>3, <1>6, SumMonotone
<1>11. SumFunctionOnSet(g, Purchases) = most * traffic
  BY <1>1, <1>2, <1>4, <1>6, SumScale
<1>12. /\ SumFunctionOnSet(f, C) \in Nat /\ SumFunctionOnSet(g, C) \in Nat
       /\ SumFunctionOnSet(g, Purchases) \in Nat
  BY <1>2, <1>5, <1>6, SumNat
<1>13. SumFunctionOnSet(f, C) <= most * traffic /\ most * traffic \in Nat
  BY <1>9, <1>10, <1>11, <1>12
<1> QED BY <1>1, <1>7, <1>12, <1>13, Quotient, QuotientGrows

\* What a window keeps when its last order is the only one with a refund.
OneRefund ==
  \A C \in SUBSET Begun : \A t \in C :
    (IsFiniteSet(C) /\ \A p \in C \ {t} : purchase[p].status = "completed") =>
      Net(C) = VWindow(C) - given[t].sum

\* What a window keeps when its last order is the only one with a refund.
LEMMA NetLeft == Books => OneRefund
<1> SUFFICES ASSUME Books, NEW C \in SUBSET Begun, NEW t \in C, IsFiniteSet(C),
                    \A p \in C \ {t} : purchase[p].status = "completed"
             PROVE  Net(C) = VWindow(C) - given[t].sum
  BY DEF OneRefund
<1> DEFINE f == [o \in C |-> purchase[o].due]
           g == [o \in C |-> purchase[o].due - given[o].sum]
<1>1. ASSUME NEW p \in C
      PROVE  f[p] \in Nat /\ g[p] = f[p] - given[p].sum /\ given[p].sum \in Nat
             /\ (p # t => given[p].sum = 0)
  <2>1. p \in Purchases /\ BillingTypeOK
    BY DEF Begun, Bought, Books
  <2>2. p # t => given[p] = [sum |-> 0, times |-> 0, cooled |-> FALSE]
    BY <2>1 DEF Books, Unrefunded, Bought
  <2> QED BY <2>1, <2>2, RowTypes
<1>2. Net(C) = SumFunctionOnSet(g, C) /\ VWindow(C) = SumFunctionOnSet(f, C)
  BY DEF Net, VWindow
<1> HIDE DEF f, g
<1>3. (\A p \in C : f[p] \in Int /\ g[p] \in Int) /\ \A p \in C \ {t} : g[p] = f[p]
  BY <1>1
<1>4. SumFunctionOnSet(g, C) = SumFunctionOnSet(f, C) + g[t] - f[t]
  BY <1>3, SumMove
<1>5. SumFunctionOnSet(f, C) \in Int
  BY <1>3, SumInt
<1> QED BY <1>1, <1>2, <1>4, <1>5

\* Of a refund that is not for the first days, no more is given back than what
\* the window is worth beyond what was served of it.
LEMMA LastRefunded ==
  ASSUME Books, Books', NEW t \in Begun, LastOf(t), RefundPurchase(t),
         Chain[t] \cap marred' = {}, Chain'[t] = Chain[t]
  PROVE  LeftCovers(t)'
<1> SUFFICES ASSUME ~ given'[t].cooled PROVE LeftCovers(t)'
  BY DEF LeftCovers
<1> DEFINE C == Chain[t]
<1>1. BillingTypeOK /\ RowsInOrder /\ RowsLinked /\ OnlyLastRefunded(t) /\ Unrefunded
  BY DEF Books, RowsLinked, LastOf
<1>2. /\ t \in Purchases /\ t \in C /\ C \in SUBSET Begun /\ IsFiniteSet(C)
      /\ C \subseteq Purchases
  BY <1>1, ChainOfBegun
<1>3. \A p \in C \ {t} : purchase[p].status = "completed"
                         /\ Monthly[purchase[p].tier] <= Monthly[purchase[t].tier]
  BY <1>1 DEF OnlyLastRefunded
<1>4. BasisOf[t] = C
  BY <1>1, <1>2, <1>3, BasisIsChain
<1>5. PICK amount \in Nat \ {0} :
        /\ amount <= Most(t)
        /\ given'[t] = [sum |-> given[t].sum + amount, times |-> given[t].times + 1,
                        cooled |-> given[t].cooled \/ CoolsOff(t)]
  BY <1>2, RefundRow
<1>6. given'[t].sum = given[t].sum + amount /\ ~ CoolsOff(t)
  <2> DEFINE cools == given[t].cooled \/ CoolsOff(t)
  <2>1. given'[t] = [sum |-> given[t].sum + amount, times |-> given[t].times + 1, cooled |-> cools]
    BY <1>5
  <2> HIDE DEF cools
  <2>2. given'[t].sum = given[t].sum + amount /\ ~ cools
    BY <2>1
  <2> QED BY <2>2 DEF cools
<1>7. /\ Most(t) \in Int
      /\ RefundB(t) = MostOf(0, VWindow(C) - ConsumedTime(C) - ConsumedData(t))
  BY <1>4, MostIsNumber
<1>8. Most(t) = RefundB(t) - given[t].sum
  BY <1>6 DEF Most
<1>9. /\ VWindow(C) \in Nat /\ ConsumedTime(C) \in Nat /\ ConsumedData(t) \in Nat
      /\ TimeByMonth(C) \in Nat /\ TimeByMonth(C) <= ConsumedTime(C)
  <2>1. VWindow(C) \in Nat
    BY <1>1, <1>2, WindowSums
  <2>2. ConsumedTime(C) \in Nat /\ TimeByMonth(C) \in Nat /\ TimeByMonth(C) <= ConsumedTime(C)
    BY <1>2, TimeCharged
  <2>3. ConsumedData(t) \in Nat
    BY DataCharged
  <2> QED BY <2>1, <2>2, <2>3
<1>10. given'[t].sum <= VWindow(C) - ConsumedTime(C) - ConsumedData(t) /\ given'[t].sum \in Nat
  <2>1. given[t].sum \in Nat
    BY <1>1, <1>2, RowTypes
  <2> HIDE DEF C
  <2> QED BY <1>5, <1>6, <1>7, <1>8, <1>9, <2>1 DEF MostOf
<1>11. /\ \A p \in Purchases : p # t => given'[p] = given[p] /\ purchase'[p] = purchase[p]
       /\ UNCHANGED <<held, drawn>>
       /\ \A p \in Purchases : purchase'[p].tier = purchase[p].tier /\ purchase'[p].due = purchase[p].due
       /\ Begun' = Begun
  BY <1>2, RefundRow, RefundedRow
<1>12. PICK D : D = C
  OBVIOUS
<1>13. TimeByMonth(D)' = TimeByMonth(D) /\ VWindow(D)' = VWindow(D)
       /\ DataByMonth(D)' = DataByMonth(D)
  <2>1. \A p \in D : /\ purchase'[p].tier = purchase[p].tier /\ purchase'[p].due = purchase[p].due
                     /\ held'[p] = held[p] /\ drawn'[p] = drawn[p]
    BY <1>2, <1>11, <1>12
  <2>2. [o \in D |-> (Monthly[purchase[o].tier] * held[o]) \div (Day * MonthDays)]'
          = [o \in D |-> (Monthly[purchase[o].tier] * held[o]) \div (Day * MonthDays)]
    BY <2>1
  <2>3. [o \in D |-> purchase[o].due]' = [o \in D |-> purchase[o].due]
    BY <2>1
  <2>4. [o \in D |-> Monthly[purchase[o].tier] * drawn[o]]'
          = [o \in D |-> Monthly[purchase[o].tier] * drawn[o]]
    BY <2>1
  <2> QED BY <2>2, <2>3, <2>4 DEF TimeByMonth, VWindow, DataByMonth
<1>14. Net(D)' = VWindow(D)' - given'[t].sum
  <2>1. D \in SUBSET Begun /\ IsFiniteSet(D) /\ t \in D
        /\ \A p \in D \ {t} : purchase'[p].status = "completed"
    BY <1>2, <1>3, <1>11, <1>12
  <2>2. OneRefund'
    BY NetLeft, PTL
  <2> QED BY <1>11, <2>1, <2>2 DEF OneRefund
<1>15. (IF D \cap unmetered' = {} THEN DataByMonth(D) ELSE 0) <= ConsumedData(t)
  <2>1. CASE D \cap unmetered' # {}
    BY <1>9, <2>1
  <2>2. CASE D \cap unmetered' = {}
    <3>1. sub.order # None
      BY <1>2, <1>12, <2>2 DEF RefundPurchase
    <3>2. sub.order \in Begun /\ allowance = Quota
      BY <3>1 DEF Books, Current, Begun, Bought
    <3>3. t \in Chain[sub.order]
      BY <1>2, <3>1 DEF RefundPurchase
    <3>4. sub.order = t
      BY <1>2, <3>2, <3>3 DEF RefundPurchase
    <3>5. traffic \in Nat /\ traffic <= Quota /\ Quota \in Nat \ {0}
      BY <1>1, BillingAssumption DEF BillingTypeOK
    <3>6. PlanUsed = traffic /\ MostOf(1, allowance) = Quota
      BY <3>2, <3>5 DEF PlanUsed, LeastOf, MostOf
    <3>7. ConsumedData(t) = (Monthly[purchase[t].tier] * traffic) \div Quota
      BY <3>6 DEF ConsumedData
    <3>8. Monthly[purchase[t].tier] \in Nat
      BY <1>1, BegunPriced
    <3>9. \A p \in D : Monthly[purchase[p].tier] <= Monthly[purchase[t].tier]
      BY <1>3, <1>12, <3>8
    <3>10. DataByMonth(D) <= (Monthly[purchase[t].tier] * traffic) \div Quota
      BY <1>2, <1>12, <3>8, <3>9, DrawnShare
    <3> QED BY <2>2, <3>7, <3>10
  <2> QED BY <2>1, <2>2
<1>16. DataByMonth(D) \in Nat
  BY <1>1, <1>2, <1>12, WindowSums
<1>17. TimeByMonth(D) + (IF D \cap unmetered' = {} THEN DataByMonth(D) ELSE 0)
         <= VWindow(D) - given'[t].sum
  <2> DEFINE x == IF D \cap unmetered' = {} THEN DataByMonth(D) ELSE 0
  <2>1. x \in Nat
    BY <1>16
  <2>2. x <= ConsumedData(t)
    BY <1>15
  <2>3. PICK v \in Nat, ct \in Nat, cd \in Nat, tm \in Nat :
          v = VWindow(D) /\ ct = ConsumedTime(D) /\ cd = ConsumedData(t) /\ tm = TimeByMonth(D)
    BY <1>9, <1>12
  <2>4. tm <= ct /\ given'[t].sum <= v - ct - cd
    BY <1>9, <1>10, <1>12, <2>3
  <2> HIDE DEF x
  <2>5. tm + x <= v - given'[t].sum
    BY <1>10, <2>1, <2>2, <2>3, <2>4
  <2> QED BY <2>3, <2>5 DEF x
<1> QED
  <2>1. Chain'[t] = D
    BY <1>12
  <2>2. (IF D \cap unmetered' = {} THEN DataByMonth(D)' ELSE 0)
          = (IF D \cap unmetered' = {} THEN DataByMonth(D) ELSE 0)
    BY <1>13
  <2>3. TimeByMonth(D)' + (IF D \cap unmetered' = {} THEN DataByMonth(D)' ELSE 0) <= Net(D)'
    BY <1>13, <1>14, <1>17, <2>2
  <2> QED BY <2>1, <2>3 DEF LeftCovers

\* A refund leaves the windows as the invariant says: of its own window the
\* last order is refunded, or it is marred.
LEMMA RefundWindows ==
  ASSUME Books, WindowsFit, Books', NEW n \in Purchases, RefundPurchase(n)
  PROVE  WindowsFit'
<1>1. /\ n \in Begun /\ sub' = [order |-> None, expires |-> date]
      /\ \A p \in Purchases : p # n => given'[p] = given[p] /\ purchase'[p] = purchase[p]
      /\ UNCHANGED <<date, held, drawn>>
  BY RefundRow
<1>2. /\ Begun' = Begun /\ Begun \subseteq Purchases
      /\ \A p \in Purchases :
           /\ purchase'[p].tier = purchase[p].tier /\ Prev(p)' = Prev(p)
           /\ purchase'[p].due = purchase[p].due
           /\ purchase'[p].from = purchase[p].from /\ purchase'[p].to = purchase[p].to
  BY RefundedRow
<1>3. /\ marred \subseteq marred' /\ unmetered \subseteq unmetered'
      /\ (\E p \in Begun : n # p /\ n \in Chain[p]) => n \in marred'
      /\ (sub.order # None /\ n \notin Chain[sub.order]) => sub.order \in marred'
  BY DEF RefundPurchase
<1>4. \A p \in Begun : Chain'[p] = Chain[p]
  BY <1>2, ChainsStay
<1>5. BillingTypeOK /\ BillingTypeOK'
  BY DEF Books
<1>6. ASSUME NEW t \in Begun, LastOf(t), Chain[t] \cap marred' = {} PROVE LastOf(t)'
  <2>1. /\ t \in Purchases /\ t \in Chain[t] /\ Chain[t] \subseteq Begun /\ IsFiniteSet(Chain[t])
        /\ Chain'[t] = Chain[t]
    BY <1>4, ChainOfBegun DEF Books, RowsLinked
  <2>2. CASE n \notin Chain[t]
    <3>1. \A p \in Chain[t] : p # n /\ purchase'[p] = purchase[p] /\ given'[p] = given[p]
      BY <1>1, <1>2, <2>1, <2>2
    <3>2. sub.order # t
      <4>1. sub.order = t => sub.order # None
        BY <2>1, BillingAssumption
      <4> QED BY <1>3, <1>6, <2>1, <2>2, <4>1
    <3>3. ServedThrough(t)'
      <4>1. given[t].times = 0 =>
              /\ held[t] = LeastOf(date, purchase[t].to) - purchase[t].from
              /\ purchase[t].to <= date
        BY <1>6, <3>2 DEF LastOf, ServedThrough
      <4>2. given'[t] = given[t] /\ purchase'[t] = purchase[t]
        BY <2>1, <3>1
      <4> QED BY <1>1, <4>1, <4>2 DEF ServedThrough
    <3>4. \A p \in Chain[t] : held'[p] = held[p] /\ drawn'[p] <= drawn[p]
      <4>1. \A p \in Chain[t] : drawn[p] \in Nat
        BY <1>2, <1>5, <2>1, RowTypes
      <4> QED BY <1>1, <4>1
    <3> QED BY <1>3, <1>5, <1>6, <2>1, <3>1, <3>3, <3>4, LastOfKept
  <2>3. CASE n \in Chain[t] /\ n # t
    BY <1>3, <1>6, <2>3
  <2>4. CASE n = t
    <3>1. PICK C : C = Chain[t]
      OBVIOUS
    <3>2. OnlyLastRefunded(t)'
      <4>1. \A p \in C \ {t} : purchase[p].status = "completed"
                               /\ Monthly[purchase[p].tier] <= Monthly[purchase[t].tier]
        BY <1>6, <3>1 DEF LastOf, OnlyLastRefunded
      <4>2. \A p \in C \ {t} : purchase'[p] = purchase[p]
        BY <1>1, <1>2, <2>1, <2>4, <3>1
      <4>3. purchase'[t].tier = purchase[t].tier
        BY <1>2, <2>1
      <4> QED BY <2>1, <3>1, <4>1, <4>2, <4>3 DEF OnlyLastRefunded
    <3>3. PaidAhead(t)'
      <4>1. \A p \in Purchases : purchase'[p].tier = purchase[p].tier /\ held'[p] = held[p]
                                 /\ purchase'[p].due = purchase[p].due
        BY <1>1, <1>2
      <4>2. HeldAtPrice' = HeldAtPrice
        BY <4>1 DEF HeldAtPrice
      <4>3. VWindow(C)' = VWindow(C)
        <5>1. \A p \in C : purchase'[p].due = purchase[p].due
          BY <1>2, <2>1, <3>1, <4>1
        <5>2. [o \in C |-> purchase[o].due]' = [o \in C |-> purchase[o].due]
          BY <5>1
        <5> QED BY <5>2 DEF VWindow
      <4>4. PaidAhead(t)
        BY <1>6 DEF LastOf
      <4>5. purchase'[t].tier = purchase[t].tier /\ purchase'[t].from = purchase[t].from
            /\ purchase'[t].to = purchase[t].to
        BY <1>2, <2>1
      <4>6. Chain[t] = C /\ Chain'[t] = C
        BY <2>1, <3>1
      <4> QED BY <4>2, <4>3, <4>4, <4>5, <4>6 DEF PaidAhead
    <3>4. LeftCovers(t)'
      BY <1>6, <2>1, <2>4, LastRefunded
    <3>5. ServedThrough(t)'
      <4>1. given'[t].times = given[t].times + 1
        <5>1. PICK amount \in Nat \ {0} :
                given'[n] = [sum |-> given[n].sum + amount, times |-> given[n].times + 1,
                             cooled |-> given[n].cooled \/ CoolsOff(n)]
          BY RefundRow
        <5> QED BY <2>4, <5>1
      <4>2. given[t].times \in Nat
        BY <1>5, <2>1, RowTypes
      <4> QED BY <4>1, <4>2 DEF ServedThrough
    <3>6. FirstUpgrade(t)'
      <4>1. Prev(t)' = Prev(t)
        BY <1>2, <2>1
      <4>2. PICK s : s = Prev(t)
        OBVIOUS
      <4>3. SUFFICES ASSUME s # None, (Prev(s) = None)'
                     PROVE  FirstUpgrade(t)'
        BY <4>1, <4>2 DEF FirstUpgrade
      <4>4. s \in Purchases
        BY <1>5, <2>1, <4>2, <4>3, RowTypes
      <4>5. Prev(s) = None
        BY <1>2, <4>3, <4>4
      <4>6. FirstUpgrade(t)
        BY <1>6 DEF LastOf
      <4>7. /\ held[s] = purchase[t].from - purchase[s].from
            /\ purchase[t].to = purchase[s].to
            /\ \E days \in 0..PeriodDays :
                 /\ days * Day >= purchase[t].to - purchase[t].from
                 /\ days * Day < purchase[t].to - purchase[t].from + PayWindow + Day
                 /\ purchase[t].due = MulDiv(Price[purchase[t].tier], days, PeriodDays)
                                        - MulDiv(Price[purchase[s].tier], days, PeriodDays)
        BY <4>2, <4>3, <4>5, <4>6 DEF FirstUpgrade
      <4>8. /\ purchase'[t].from = purchase[t].from /\ purchase'[t].to = purchase[t].to
            /\ purchase'[s].from = purchase[s].from /\ purchase'[s].to = purchase[s].to
            /\ purchase'[t].due = purchase[t].due /\ purchase'[t].tier = purchase[t].tier
            /\ purchase'[s].tier = purchase[s].tier /\ held'[s] = held[s]
        BY <1>1, <1>2, <2>1, <4>4
      <4> QED BY <4>1, <4>2, <4>7, <4>8 DEF FirstUpgrade
    <3> QED BY <3>2, <3>3, <3>4, <3>5, <3>6 DEF LastOf
  <2> QED BY <2>2, <2>3, <2>4
<1> QED BY <1>2, <1>3, <1>6, WindowsKept

\* What is known of an order that is paid, besides its row.
LEMMA PaidOrder ==
  ASSUME Books, Books', NEW n \in Purchases, CompleteOrder(n)
  PROVE  /\ held[n] = 0 /\ given[n].times = 0 /\ date \in Nat
         /\ UNCHANGED <<date, traffic, given, held, drawn, unmetered>>
         /\ \A p \in Begun : Chain'[p] = Chain[p] /\ n \notin Chain[p]
         /\ Chain'[n] = {n} \cup (IF Prev(n) = None THEN {} ELSE Chain[Prev(n)])
<1>1. UNCHANGED <<date, traffic, given, held, drawn, unmetered>>
  BY DEF CompleteOrder
<1>2. /\ purchase[n].status = "pending" /\ Prev(n)' = Prev(n) /\ n \notin Begun
      /\ Begun' = Begun \cup {n}
      /\ Prev(n) # None => Prev(n) \in Begun
      /\ \A p \in Begun : p \in Purchases /\ p < n /\ purchase'[p] = purchase[p]
  BY PaidRow
<1>3. held[n] = 0 /\ given[n].times = 0
  <2>1. held[n] = 0
    BY <1>2 DEF Books, Dated
  <2>2. given[n] = [sum |-> 0, times |-> 0, cooled |-> FALSE]
    BY <1>2 DEF Books, Unrefunded, Bought
  <2> QED BY <2>1, <2>2
<1>4. date \in Nat
  BY BillingAssumption DEF Books, BillingTypeOK, Dates
<1>5. \A p \in Begun : p \in Begun' /\ Prev(p)' = Prev(p)
  BY <1>2 DEF Prev
<1>6. \A p \in Begun : Chain'[p] = Chain[p]
  BY <1>5, ChainsStay
<1>7. \A p \in Begun : n \notin Chain[p]
  <2> TAKE p \in Begun
  <2>1. \A q \in Chain[p] : q \in Nat /\ q <= p
    BY ChainOfBegun DEF Books, RowsLinked
  <2>2. p < n /\ p \in Nat /\ n \in Nat
    BY <1>2, OrdersFinite
  <2> QED BY <2>1, <2>2
<1>8. ChainsFit'
  BY ChainFits, PTL DEF Books, RowsLinked
<1>9. Chain'[n] = {n} \cup (IF Prev(n) = None THEN {} ELSE Chain[Prev(n)])
  BY <1>2, <1>6, <1>8 DEF ChainsFit
<1> QED BY <1>1, <1>3, <1>4, <1>6, <1>7, <1>9

\* An order that is no upgrade is a window of its own.
LEMMA NewWindow ==
  ASSUME Books, Books', NEW n \in Purchases, CompleteOrder(n), Prev(n) = None
  PROVE  LastOf(n)' /\ Chain'[n] = {n}
<1>1. /\ held[n] = 0 /\ given[n].times = 0 /\ date \in Nat
      /\ UNCHANGED <<date, traffic, given, held, drawn, unmetered>> /\ Chain'[n] = {n}
  BY PaidOrder
<1>2. /\ purchase'[n].tier = purchase[n].tier /\ purchase'[n].due = purchase[n].due
      /\ purchase'[n].from = date /\ purchase'[n].to = date + Term /\ Prev(n)' = None
      /\ sub'.order = n /\ purchase[n].status = "pending"
  BY PaidRow
<1>3. /\ purchase[n].due = Price[purchase[n].tier] /\ Price[purchase[n].tier] \in Nat
  <2>1. purchase[n].tier \in Tiers
    BY <1>2 DEF Books, RowsInOrder
  <2> QED BY <1>2, <2>1, ListPrices DEF Books, Linked
<1>4. Term \in Nat
  BY TermIsPositive DEF TermPositive
<1>5. OnlyLastRefunded(n)'
  BY <1>1 DEF OnlyLastRefunded
<1>6. PaidAhead(n)'
  <2>1. PICK price \in Nat : price = Price[purchase[n].tier]
    BY <1>3
  <2>2. VWindow({n})' = price
    <3> DEFINE f == [o \in {n} |-> purchase'[o].due]
    <3>1. f[n] = price /\ f[n] \in Int
      BY <1>2, <1>3, <2>1
    <3> HIDE DEF f
    <3>2. SumFunctionOnSet(f, {n}) = price
      BY <3>1, SumOne
    <3> QED BY <3>2 DEF VWindow, f
  <2>3. Cardinality({n}) = 1
    BY FS_Singleton
  <2>4. SumFunctionOnSet(HeldAtPrice', {n} \ {n}) = 0
    <3>1. IsFiniteSet({})
      BY FS_EmptySet
    <3>2. {n} \ {n} = {}
      OBVIOUS
    <3> QED BY <3>1, <3>2, SumRest
  <2>5. price * ((date + Term) - date) = Term * price /\ Term * (price + 1) = Term * price + Term
        /\ Term * price \in Nat
    BY <1>1, <1>4
  <2>6. date <= date + Term
    BY <1>1, <1>4
  <2>7. 0 + price * ((date + Term) - date) <= Term * (price + 1)
    BY <1>4, <2>5
  <2> QED BY <1>1, <1>2, <2>1, <2>2, <2>3, <2>4, <2>6, <2>7 DEF PaidAhead
<1>7. LeftCovers(n)'
  BY <1>1 DEF LeftCovers
<1>8. ServedThrough(n)'
  <2>1. LeastOf(date, date + Term) - date = 0
    BY <1>1, <1>4 DEF LeastOf
  <2> QED BY <1>1, <1>2, <2>1 DEF ServedThrough
<1>9. FirstUpgrade(n)'
  BY <1>2 DEF FirstUpgrade
<1> QED BY <1>1, <1>5, <1>6, <1>7, <1>8, <1>9 DEF LastOf

\* What an upgrade that is paid in time costs.
LEMMA UpgradePaid ==
  ASSUME Books, NEW n \in Purchases, CompleteOrder(n), NEW s \in Begun, Prev(n) = s,
         SubscriptionActive, sub.order = s
  PROVE  /\ purchase[n].tier \in Tiers /\ purchase[s].tier \in Tiers /\ s \in Purchases
         /\ Price[purchase[s].tier] < Price[purchase[n].tier]
         /\ purchase[n].to = purchase[s].to /\ date < purchase[s].to
         /\ purchase[s].from <= purchase[n].created /\ purchase[n].created <= date
         /\ date <= purchase[n].created + PayWindow
         /\ purchase[s].from \in Nat /\ purchase[n].created \in Nat /\ purchase[s].to \in Nat
         /\ purchase[s].to - purchase[s].from <= Term
         /\ DTotal(s) = DaysUp(purchase[s].to - purchase[s].from)
         /\ VSource(s) \in 0..Price[purchase[s].tier]
         /\ DaysThen(n) = DaysUp(purchase[s].to - purchase[n].created)
         /\ purchase[n].surplus = LeastOf(MulDiv(VSource(s), DaysThen(n), DTotal(s)), GrossThen(n))
         /\ purchase[n].due = GrossThen(n) - purchase[n].surplus
         /\ GrossThen(n) = MulDiv(Price[purchase[n].tier], DaysThen(n), DTotal(s))
<1>1. BillingTypeOK /\ RowsInOrder /\ Linked /\ DraftPriced
  BY DEF Books
<1>2. s # None /\ s \in Purchases
  BY BillingAssumption DEF Begun, Bought
<1>3. purchase[n].status = "pending" /\ date <= purchase[n].created + PayWindow
  BY PaidRow
<1>4. n \in Bought({"pending"})
  BY <1>3 DEF Bought
<1>5. /\ purchase[n].created <= date
      /\ purchase[n].to = purchase[s].to
      /\ purchase[s].from <= purchase[n].created
      /\ purchase[n].surplus = LeastOf(MulDiv(VSource(s), DaysThen(n), DTotal(s)), GrossThen(n))
      /\ purchase[n].due = GrossThen(n) - purchase[n].surplus
  BY <1>1, <1>2, <1>4 DEF DraftPriced
<1>6. purchase[n].tier \in Tiers /\ purchase[s].tier \in Tiers
      /\ Price[purchase[s].tier] < Price[purchase[n].tier]
  <2>1. purchase[n].tier \in Tiers
    BY <1>1, <1>3 DEF RowsInOrder
  <2>2. purchase[s].tier \in Tiers
    BY <1>1, BegunPriced
  <2> QED BY <1>1, <1>2, <2>1, <2>2 DEF Linked
<1>7. date < purchase[s].to
  BY ActiveOrder
<1>8. purchase[s].from \in Nat /\ purchase[n].created \in Nat /\ purchase[s].to \in Nat /\ date \in Nat
  BY <1>1, <1>2, RowTypes, BillingAssumption DEF BillingTypeOK, Dates
<1>9. purchase[s].from < purchase[s].to
  BY <1>5, <1>7, <1>8
<1>10. /\ DTotal(s) = DaysUp(purchase[s].to - purchase[s].from)
       /\ purchase[s].to - purchase[s].from <= Term
       /\ VSource(s) \in 0..Price[purchase[s].tier]
  BY <1>9, DaysOfOrder
<1> QED BY <1>2, <1>3, <1>5, <1>6, <1>7, <1>8, <1>10 DEF DaysThen, GrossThen

\* The days of a period are the period.
LEMMA DaysOfPeriod == DaysUp(Term) = PeriodDays
<1>1. Day \in Nat \ {0} /\ PeriodDays \in Nat \ {0} /\ Term \in Nat
  BY BillingAssumption, TermIsPositive DEF TermPositive
<1>2. PICK q \in Nat : q = DaysUp(Term) /\ Term <= Day * q /\ Day * q < Term + Day
  BY <1>1, DaysCover
<1>3. Day * PeriodDays <= Day * q /\ Day * q < Day * (PeriodDays + 1)
  BY <1>1, <1>2 DEF Term
<1>4. q < PeriodDays + 1
  BY <1>1, <1>2, <1>3, FactorFollows
<1>5. PeriodDays - 1 < q
  <2>1. Day * (PeriodDays - 1) < Day * q
    <3>1. Day * (PeriodDays - 1) = Day * PeriodDays - Day /\ Day * PeriodDays \in Int
          /\ Day * q \in Int
      BY <1>1, <1>2
    <3> QED BY <1>1, <1>3, <3>1
  <2> QED BY <1>1, <1>2, <2>1, FactorFollows
<1> QED BY <1>1, <1>2, <1>4, <1>5

\* The terms of the first upgrade, in its days.
LEMMA FirstTerms ==
  ASSUME Books, NEW n \in Purchases, CompleteOrder(n), NEW s \in Begun, Prev(n) = s,
         SubscriptionActive, sub.order = s, Prev(s) = None
  PROVE  \E days \in 0..PeriodDays :
           /\ days * Day >= purchase[s].to - date
           /\ days * Day < purchase[s].to - date + PayWindow + Day
           /\ purchase[n].due = MulDiv(Price[purchase[n].tier], days, PeriodDays)
                                  - MulDiv(Price[purchase[s].tier], days, PeriodDays)
<1>1. PICK old \in Nat, new \in Nat :
        old = Price[purchase[s].tier] /\ new = Price[purchase[n].tier] /\ old < new
  BY UpgradePaid, ListPrices
<1>2. PICK from \in Nat, to \in Nat, created \in Nat :
        /\ from = purchase[s].from /\ to = purchase[s].to /\ created = purchase[n].created
        /\ from <= created /\ created <= date /\ date < to /\ date <= created + PayWindow
        /\ to - from <= Term
  BY UpgradePaid
<1>3. date \in Nat /\ PayWindow \in Nat /\ Day \in Nat \ {0} /\ PeriodDays \in Nat \ {0}
  BY BillingAssumption DEF Books, BillingTypeOK, Dates
<1>4. to = from + Term /\ Term \in Nat
  <2>1. purchase[s].to = purchase[s].from + Term
    BY DEF Books, Dated
  <2> QED BY <1>2, <2>1, TermIsPositive DEF TermPositive
<1>5. DTotal(s) = PeriodDays
  <2>1. DTotal(s) = DaysUp(to - from)
    BY <1>2, UpgradePaid
  <2>2. to - from = Term
    BY <1>4
  <2> QED BY <2>1, <2>2, DaysOfPeriod
<1>6. VSource(s) = old
  <2>1. purchase[s].due = old /\ purchase[s].surplus = 0
    BY <1>1 DEF Books, Linked, Begun, Bought
  <2> QED BY <1>1, <2>1 DEF VSource
<1>7. PICK days \in Nat : days = DaysThen(n) /\ days = DaysUp(to - created)
                          /\ to - created <= Day * days /\ Day * days < to - created + Day
                          /\ days <= PeriodDays
  <2>1. to - created \in Nat /\ to - created <= Term /\ 0 < to - created
    BY <1>2, <1>3, <1>4
  <2>2. DaysThen(n) = DaysUp(to - created)
    BY <1>2, UpgradePaid
  <2>3. DaysUp(to - created) \in Nat /\ to - created <= Day * DaysUp(to - created)
        /\ Day * DaysUp(to - created) < to - created + Day
    BY <2>1, DaysCover
  <2>4. DaysUp(to - created) <= PeriodDays
    <3>1. DaysUp(to - created) <= DaysUp(Term)
      BY <1>4, <2>1, DaysGrow
    <3> QED BY <3>1, DaysOfPeriod
  <2> QED BY <2>2, <2>3, <2>4
<1>8. purchase[n].due = MulDiv(new, days, PeriodDays) - MulDiv(old, days, PeriodDays)
  <2>1. PICK gross, taken :
          /\ gross = MulDiv(new, days, PeriodDays) /\ taken = MulDiv(old, days, PeriodDays)
    OBVIOUS
  <2>2. GrossThen(n) = gross /\ purchase[n].surplus = LeastOf(taken, gross)
        /\ purchase[n].due = gross - purchase[n].surplus
    BY <1>1, <1>5, <1>6, <1>7, <2>1, UpgradePaid
  <2>3. gross \in Nat /\ taken \in Nat /\ taken <= gross
    <3>1. days \in 0..PeriodDays /\ old <= new
      BY <1>1, <1>3, <1>7
    <3>2. MulDiv(new, days, PeriodDays) \in Nat /\ MulDiv(old, days, PeriodDays) \in Nat
      BY <1>3, <3>1, Share
    <3>3. MulDiv(old, days, PeriodDays) <= MulDiv(new, days, PeriodDays)
      BY <1>3, <1>7, <3>1, ShareGrows
    <3> QED BY <2>1, <3>2, <3>3
  <2>4. LeastOf(taken, gross) = taken
    BY <2>3 DEF LeastOf
  <2> QED BY <2>1, <2>2, <2>4
<1>9. days \in 0..PeriodDays /\ days * Day = Day * days /\ Day * days \in Nat
  BY <1>3, <1>7
<1>10. days * Day >= to - date /\ days * Day < to - date + PayWindow + Day
  BY <1>2, <1>3, <1>7, <1>9
<1> QED BY <1>1, <1>2, <1>8, <1>9, <1>10

\* An upgrade of the order that runs is the last of the same window.
LEMMA UpgradedWindow ==
  ASSUME DearerByBoth, Books, Books', NEW n \in Purchases, CompleteOrder(n),
         NEW s \in Begun, Prev(n) = s, SubscriptionActive, sub.order = s, LastOf(s)
  PROVE  LastOf(n)' /\ Chain'[n] = {n} \cup Chain[s]
<1>1. /\ held[n] = 0 /\ given[n].times = 0 /\ date \in Nat
      /\ UNCHANGED <<date, traffic, given, held, drawn, unmetered>>
      /\ n \notin Chain[s] /\ Chain'[s] = Chain[s]
      /\ Chain'[n] = {n} \cup (IF Prev(n) = None THEN {} ELSE Chain[Prev(n)])
  BY PaidOrder
<1>2. s # None /\ s \in Purchases
  BY BillingAssumption DEF Begun, Bought
<1>3. PICK C : C = Chain[s] /\ Chain'[n] = {n} \cup C /\ n \notin C
  BY <1>1, <1>2
<1>4. s \in C /\ C \in SUBSET Begun /\ IsFiniteSet(C) /\ C \in SUBSET Purchases
  BY <1>3, ChainOfBegun DEF Books, RowsLinked
<1>5. /\ purchase'[n].tier = purchase[n].tier /\ purchase'[n].due = purchase[n].due
      /\ purchase'[n].from = date /\ purchase'[n].to = purchase[n].to /\ Prev(n)' = s
      /\ sub'.order = n
      /\ \A p \in C : purchase'[p] = purchase[p] /\ p # n
  BY <1>2, <1>3, <1>4, PaidRow
<1>6. /\ purchase[n].tier \in Tiers /\ purchase[s].tier \in Tiers
      /\ Price[purchase[s].tier] < Price[purchase[n].tier]
      /\ purchase[n].to = purchase[s].to /\ date < purchase[s].to
  BY UpgradePaid
<1>7. given[s].times = 0
  BY ActiveOrder
<1>8. PICK from \in Nat, to \in Nat : from = purchase[s].from /\ to = purchase[s].to /\ date < to
  BY UpgradePaid
<1>9. held[s] = date - from
  <2>1. held[s] = LeastOf(date, to) - from
    BY <1>7, <1>8 DEF LastOf, ServedThrough
  <2> QED BY <1>1, <1>8, <2>1 DEF LeastOf
<1>10. OnlyLastRefunded(n)'
  <2>1. ASSUME NEW p \in C
        PROVE  purchase[p].status = "completed" /\ Monthly[purchase[p].tier] <= Monthly[purchase[n].tier]
    <3>1. purchase[p].status = "completed"
      BY <1>3, ActiveOrder DEF LastOf, OnlyLastRefunded
    <3>2. Monthly[purchase[s].tier] <= Monthly[purchase[n].tier]
      BY <1>6 DEF DearerByBoth
    <3>3. Monthly[purchase[p].tier] \in Nat /\ Monthly[purchase[s].tier] \in Nat
          /\ Monthly[purchase[n].tier] \in Nat
      BY <1>4, <1>6, BegunPriced, ListPrices DEF Books
    <3>4. p # s => Monthly[purchase[p].tier] <= Monthly[purchase[s].tier]
      BY <1>3 DEF LastOf, OnlyLastRefunded
    <3> QED BY <3>1, <3>2, <3>3, <3>4
  <2>2. Chain'[n] \ {n} = C
    BY <1>3
  <2> QED BY <1>5, <2>1, <2>2 DEF OnlyLastRefunded
<1>11. LeftCovers(n)'
  BY <1>1 DEF LeftCovers
<1>12. ServedThrough(n)'
  <2>1. LeastOf(date, to) - date = 0
    BY <1>1, <1>8 DEF LeastOf
  <2> QED BY <1>1, <1>5, <1>6, <1>8, <2>1 DEF ServedThrough
<1>13. FirstUpgrade(n)'
  <2>1. Prev(s)' = Prev(s) /\ purchase'[s] = purchase[s]
    BY <1>4, <1>5 DEF Prev
  <2>2. SUFFICES ASSUME Prev(s) = None PROVE FirstUpgrade(n)'
    BY <1>5, <2>1 DEF FirstUpgrade
  <2>3. \E days \in 0..PeriodDays :
          /\ days * Day >= purchase[s].to - date
          /\ days * Day < purchase[s].to - date + PayWindow + Day
          /\ purchase[n].due = MulDiv(Price[purchase[n].tier], days, PeriodDays)
                                 - MulDiv(Price[purchase[s].tier], days, PeriodDays)
    BY <2>2, FirstTerms
  <2> QED BY <1>1, <1>5, <1>6, <1>8, <1>9, <2>1, <2>3 DEF FirstUpgrade
<1>14. PaidAhead(n)'
  <2>1. PICK old \in Nat, new \in Nat :
          old = Price[purchase[s].tier] /\ new = Price[purchase[n].tier] /\ old < new
    BY <1>6, ListPrices
  <2>2. PICK due \in Nat : due = purchase[n].due
    BY RowTypes DEF Books
  <2>3. (new - old) * (to - date) <= Term * (due + 1)
    <3>1. PICK created, worth, gross, taken :
            /\ created \in Nat /\ created = purchase[n].created
            /\ worth = VSource(s) /\ gross = GrossThen(n) /\ taken = purchase[n].surplus
      BY UpgradePaid
    <3>2. worth \in 0..old /\ from <= created /\ created <= date /\ to - from <= Term
      BY <1>8, <2>1, <3>1, UpgradePaid
    <3>3. DTotal(s) = DaysUp(to - from) /\ DaysThen(n) = DaysUp(to - created)
      BY <1>8, <3>1, UpgradePaid
    <3>4. gross = MulDiv(new, DaysUp(to - created), DaysUp(to - from))
      BY <2>1, <3>1, <3>3, UpgradePaid
    <3>5. taken = LeastOf(MulDiv(worth, DaysUp(to - created), DaysUp(to - from)), gross)
      BY <3>1, <3>3, UpgradePaid
    <3>6. due = gross - taken
      BY <2>2, <3>1, UpgradePaid
    <3>7. PICK whole \in Nat, left \in Nat, time \in Nat :
            /\ time \in 0..left /\ whole = to - from /\ left = to - created /\ time = to - date
            /\ whole <= Term /\ 0 < left /\ left <= whole
      <4>1. date \in Nat
        BY <1>1
      <4>2. /\ to - from \in Nat /\ to - created \in Nat /\ to - date \in Nat
            /\ to - date \in 0..(to - created) /\ 0 < to - created /\ to - created <= to - from
        BY <1>8, <3>1, <3>2, <4>1
      <4> QED BY <3>2, <4>2
    <3>8. (new - old) * time <= Term * (gross - taken + 1)
      <4>1. /\ old < new /\ worth \in 0..old /\ whole <= Term /\ 0 < left /\ left <= whole
            /\ time \in 0..left
        BY <2>1, <3>2, <3>7
      <4>2. /\ gross = MulDiv(new, DaysUp(left), DaysUp(whole))
            /\ taken = LeastOf(MulDiv(worth, DaysUp(left), DaysUp(whole)), gross)
        BY <3>4, <3>5, <3>7
      <4> QED BY <4>1, <4>2, UpgradePays
    <3> QED BY <3>6, <3>7, <3>8
  <2> DEFINE D == C \ {s}
  <2>4. IsFiniteSet(D) /\ C = D \cup {s} /\ s \notin D
    BY <1>4, FS_Subset
  <2>5. PICK v \in Nat, k \in Nat, before \in Nat :
          /\ v = VWindow(C) /\ k = Cardinality(C) /\ before = SumFunctionOnSet(HeldAtPrice, D)
    <3>1. VWindow(C) \in Nat
      BY <1>4, WindowSums DEF Books
    <3>2. Cardinality(C) \in Nat
      BY <1>4, FS_CardinalityType
    <3>3. SumFunctionOnSet(HeldAtPrice, D) \in Nat
      BY <1>4, <2>4, WindowSums DEF Books
    <3> QED BY <3>1, <3>2, <3>3
  <2>6. before + old * (to - from) <= Term * (v + k) /\ from <= to
    BY <1>3, <1>8, <2>1, <2>5 DEF LastOf, PaidAhead
  <2>7. SumFunctionOnSet(HeldAtPrice, C) = before + old * (date - from)
    <3>1. \A p \in D \cup {s} : HeldAtPrice[p] \in Int
      <4> TAKE p \in D \cup {s}
      <4>1. p \in Purchases /\ Price[purchase[p].tier] \in Nat /\ held[p] \in Nat
        BY <1>4, <2>4, BegunPriced, RowTypes DEF Books
      <4> QED BY <4>1, NatProduct DEF HeldAtPrice
    <3>2. SumFunctionOnSet(HeldAtPrice, D \cup {s}) = HeldAtPrice[s] + SumFunctionOnSet(HeldAtPrice, D)
      <4> HIDE DEF D
      <4> QED BY <2>4, <3>1, SumWith
    <3>3. HeldAtPrice[s] = old * (date - from)
      BY <1>2, <1>9, <2>1 DEF HeldAtPrice
    <3>4. HeldAtPrice[s] \in Int
      BY <3>1
    <3>5. SumFunctionOnSet(HeldAtPrice, C) = HeldAtPrice[s] + before
      BY <2>4, <2>5, <3>2
    <3> HIDE DEF D
    <3> QED BY <2>5, <3>3, <3>4, <3>5
  <2>8. SumFunctionOnSet(HeldAtPrice', C) = SumFunctionOnSet(HeldAtPrice, C)
    <3>1. \A p \in C : HeldAtPrice'[p] = HeldAtPrice[p]
      BY <1>1, <1>4, <1>5 DEF HeldAtPrice
    <3>2. PICK f, g : f = HeldAtPrice' /\ g = HeldAtPrice
      OBVIOUS
    <3>3. \A p \in C : f[p] = g[p]
      BY <3>1, <3>2
    <3>4. SumFunctionOnSet(f, C) = SumFunctionOnSet(g, C)
      BY <1>4, <3>3, SumAgree
    <3> QED BY <3>2, <3>4
  <2>9. VWindow({n} \cup C)' = due + v
    <3>1. PICK f : f = [o \in C \cup {n} |-> purchase'[o].due]
      OBVIOUS
    <3>2. PICK g : g = [o \in C |-> purchase[o].due]
      OBVIOUS
    <3>3. \A p \in C : f[p] = g[p] /\ g[p] \in Nat
      BY <1>4, <1>5, <3>1, <3>2, RowTypes DEF Books
    <3>4. f[n] = due
      BY <1>5, <2>2, <3>1
    <3>5. SumFunctionOnSet(f, C) = SumFunctionOnSet(g, C)
      BY <1>4, <3>3, SumAgree
    <3>6. SumFunctionOnSet(f, C \cup {n}) = f[n] + SumFunctionOnSet(f, C)
      <4>1. \A y \in C \cup {n} : f[y] \in Int
        BY <3>3, <3>4
      <4> QED BY <1>3, <1>4, <4>1, SumWith
    <3>7. SumFunctionOnSet(g, C) = v
      BY <2>5, <3>2 DEF VWindow
    <3>8. {n} \cup C = C \cup {n}
      OBVIOUS
    <3>9. VWindow({n} \cup C)' = SumFunctionOnSet(f, C \cup {n})
      BY <3>1, <3>8 DEF VWindow
    <3> QED BY <3>4, <3>5, <3>6, <3>7, <3>9
  <2>10. Cardinality({n} \cup C) = k + 1
    <3>1. {n} \cup C = C \cup {n}
      OBVIOUS
    <3>2. Cardinality(C \cup {n}) = Cardinality(C) + 1
      <4>1. n \notin C /\ IsFiniteSet(C)
        BY <1>3, <1>4
      <4> QED BY <4>1, FS_AddElement
    <3> QED BY <2>5, <3>1, <3>2
  <2>11. (before + old * (date - from)) + new * (to - date) <= Term * (due + v + (k + 1))
    <3>1. Term \in Nat
      BY TermIsPositive DEF TermPositive
    <3>2. PICK a \in Nat, b \in Nat : a = date - from /\ b = to - date
      <4>1. held[s] \in Nat
        BY <1>2, RowTypes DEF Books
      <4> QED BY <1>1, <1>8, <1>9, <4>1
    <3>3. to - from = a + b
      BY <1>1, <1>8, <3>2
    <3>4. before + old * (a + b) <= Term * (v + k) /\ (new - old) * b <= Term * (due + 1)
      BY <2>3, <2>6, <3>2, <3>3
    <3>5. /\ old * (a + b) = old * a + old * b /\ (new - old) * b = new * b - old * b
          /\ Term * (due + v + (k + 1)) = Term * (v + k) + Term * (due + 1)
          /\ old * a \in Int /\ old * b \in Int /\ new * b \in Int
          /\ Term * (v + k) \in Int /\ Term * (due + 1) \in Int
      BY <3>1, <3>2
    <3>6. (before + old * a) + new * b <= Term * (due + v + (k + 1))
      BY <2>5, <3>4, <3>5
    <3> QED BY <3>2, <3>6
  <2>12. Chain'[n] \ {n} = C /\ Chain'[n] = {n} \cup C
    BY <1>3
  <2>13. SumFunctionOnSet(HeldAtPrice', C) + new * (to - date)
           <= Term * (VWindow({n} \cup C)' + Cardinality({n} \cup C))
    BY <2>7, <2>8, <2>9, <2>10, <2>11
  <2>14. date <= to
    BY <1>1, <1>8
  <2> HIDE DEF D
  <2> QED BY <1>1, <1>5, <1>6, <1>8, <2>1, <2>12, <2>13, <2>14 DEF PaidAhead
<1> QED BY <1>3, <1>10, <1>11, <1>12, <1>13, <1>14 DEF LastOf

\* A payment begins a window, adds to the one whose order runs, or leaves them.
LEMMA CompleteWindows ==
  ASSUME DearerByBoth, Books, WindowsFit, Books', NEW n \in Purchases, CompleteOrder(n)
  PROVE  WindowsFit'
<1>1. /\ held[n] = 0 /\ given[n].times = 0 /\ date \in Nat
      /\ UNCHANGED <<date, traffic, given, held, drawn, unmetered>>
      /\ \A p \in Begun : Chain'[p] = Chain[p] /\ n \notin Chain[p]
      /\ Chain'[n] = {n} \cup (IF Prev(n) = None THEN {} ELSE Chain[Prev(n)])
  BY PaidOrder
<1>2. /\ Begun' = Begun \cup {n} /\ n \notin Begun /\ sub'.order = n /\ Prev(n)' = Prev(n)
      /\ \A p \in Begun : p \in Purchases /\ p < n /\ purchase'[p] = purchase[p]
      /\ Prev(n) # None => Prev(n) \in Begun
  BY PaidRow
<1>3. marred' = marred \cup
        (IF Prev(n) = (IF SubscriptionActive THEN sub.order ELSE None) THEN {}
         ELSE {n} \cup ({sub.order} \ {None}))
  BY DEF CompleteOrder, Prev
<1>4. BillingTypeOK /\ BillingTypeOK'
  BY DEF Books
<1> SUFFICES ASSUME NEW r \in Begun', Prev(r)' = None, Window(r)' \cap marred' = {}
             PROVE  \E t \in Begun' : Window(r)' = Chain'[t] /\ LastOf(t)'
  BY DEF WindowsFit
<1>5. Window(r)' = {p \in Begun : r \in Chain[p]} \cup (IF r \in Chain'[n] THEN {n} ELSE {})
  BY <1>1, <1>2 DEF Window
<1>6. CASE r = n
  <2>1. LastOf(n)' /\ Chain'[n] = {n}
    BY <1>2, <1>6, NewWindow
  <2>2. Window(r)' = {n}
    BY <1>1, <1>5, <1>6, <2>1
  <2> QED BY <1>6, <2>1, <2>2
<1>7. ASSUME r # n
      PROVE  /\ r \in Begun /\ Prev(r) = None
             /\ \E t \in Begun : Window(r) = Chain[t] /\ LastOf(t)
  <2>1. r \in Begun /\ Prev(r) = None
    BY <1>2, <1>7 DEF Prev
  <2>2. Window(r) \cap marred = {}
    BY <1>3, <1>5 DEF Window
  <2> QED BY <2>1, <2>2 DEF WindowsFit
<1>8. CASE r # n /\ r \notin Chain'[n]
  <2>1. PICK t \in Begun : Window(r) = Chain[t] /\ LastOf(t)
    BY <1>7, <1>8
  <2>2. Window(r)' = Chain[t] /\ Chain'[t] = Chain[t]
    BY <1>1, <1>5, <1>8, <2>1 DEF Window
  <2>3. /\ t \in Purchases /\ t \in Chain[t] /\ Chain[t] \subseteq Begun
    BY ChainOfBegun DEF Books, RowsLinked
  <2>4. sub.order = t => purchase[t].to <= date
    <3> SUFFICES ASSUME sub.order = t PROVE purchase[t].to <= date
      OBVIOUS
    <3>1. t # None
      BY <2>3, BillingAssumption
    <3>2. ~ SubscriptionActive
      <4> SUFFICES ASSUME SubscriptionActive PROVE FALSE
        OBVIOUS
      <4>1. Prev(n) # t
        <5>1. r \in Chain[t]
          BY <1>7, <1>8, <2>1, <2>2, <1>5, ChainOfBegun DEF Window, Books, RowsLinked
        <5> QED BY <1>1, <1>8, <3>1, <5>1
      <4>2. t \in marred'
        BY <1>3, <3>1, <4>1
      <4> QED BY <2>2, <2>3, <4>2
    <3>3. sub.expires = purchase[t].to
      BY <3>1 DEF Books, Current
    <3>4. purchase[t].to \in Nat
      BY <1>4, <2>3, RowTypes
    <3> QED BY <1>1, <3>1, <3>2, <3>3, <3>4 DEF SubscriptionActive
  <2>5. ServedThrough(t)'
    <3>1. given[t].times = 0 =>
            /\ held[t] = LeastOf(date, purchase[t].to) - purchase[t].from
            /\ purchase[t].to <= date
      BY <2>1, <2>4 DEF LastOf, ServedThrough
    <3> QED BY <1>1, <1>2, <3>1 DEF ServedThrough
  <2>6. \A p \in Chain[t] : /\ purchase'[p] = purchase[p] /\ given'[p] = given[p]
                            /\ held'[p] = held[p] /\ drawn'[p] <= drawn[p]
    <3>1. \A p \in Chain[t] : drawn[p] \in Nat
      BY <1>2, <1>4, <2>3, RowTypes
    <3> QED BY <1>1, <1>2, <2>3, <3>1
  <2>7. LastOf(t)'
    BY <1>1, <1>4, <2>1, <2>2, <2>3, <2>5, <2>6, LastOfKept
  <2> QED BY <1>2, <2>2, <2>7
<1>9. CASE r # n /\ r \in Chain'[n]
  <2>1. PICK t \in Begun : Window(r) = Chain[t] /\ LastOf(t)
    BY <1>7, <1>9
  <2>2. PICK s \in Begun : Prev(n) = s /\ s # None /\ r \in Chain[s] /\ Chain'[n] = {n} \cup Chain[s]
    BY <1>1, <1>2, <1>9
  <2>3. Window(r)' = Chain[t] \cup {n}
    BY <1>5, <1>9, <2>1 DEF Window
  <2>4. SubscriptionActive /\ sub.order = s
    <3>1. n \notin marred'
      BY <2>3
    <3> QED BY <1>3, <2>2, <3>1
  <2>5. s = t
    <3>1. s \in Chain[t]
      BY <2>1, <2>2 DEF Window
    <3>2. s \in Nat /\ s <= t
      BY <3>1, ChainOfBegun DEF Books, RowsLinked
    <3>3. t <= s /\ t \in Nat
      BY <1>2, <2>4, ActiveOrder, OrdersFinite
    <3> QED BY <3>2, <3>3
  <2>6. LastOf(n)'
    BY <2>1, <2>2, <2>4, <2>5, UpgradedWindow
  <2>7. Window(r)' = Chain'[n]
    BY <2>2, <2>3, <2>5
  <2> QED BY <1>2, <2>6, <2>7
<1> QED BY <1>6, <1>8, <1>9

-----------------------------------------------------------------------------
(* The invariant.                                                          *)

\* Nothing is written at first.
LEMMA BooksInit == BillingInit => Books
<1> SUFFICES ASSUME BillingInit PROVE Books
  OBVIOUS
<1>1. {MaxRefunds, Horizon} \subseteq Nat /\ Quota \in Nat \ {0}
  BY BillingAssumption
<1>2. \A o \in Purchases :
        /\ purchase[o] = NoPurchase /\ held[o] = 0 /\ drawn[o] = 0 /\ purchase[o].status = "none"
        /\ Prev(o) = None /\ given[o] = [sum |-> 0, times |-> 0, cooled |-> FALSE]
  BY DEF BillingInit, NoPurchase, Prev
<1>3. Begun = {} /\ Bought({"pending"}) = {} /\ Purchases \ Bought({"none"}) = {}
  BY <1>2 DEF Begun, Bought
<1>4. 0 \in EndTimes /\ 0 \in Dates
  BY <1>1, BillingAssumption, NatProduct DEF EndTimes, Dates
<1>5. BillingTypeOK
  <2>1. NoPurchase \in PurchaseRows
    BY <1>4 DEF NoPurchase, PurchaseRows
  <2>2. purchase \in [Purchases -> PurchaseRows]
    BY <2>1 DEF BillingInit
  <2>3. given \in [Purchases -> [sum : Nat, times : 0..MaxRefunds, cooled : BOOLEAN]]
    BY <1>1 DEF BillingInit
  <2>4. sub \in [order : Purchases \cup {None}, expires : EndTimes]
    BY <1>4 DEF BillingInit
  <2>5. held \in [Purchases -> Dates] /\ drawn \in [Purchases -> 0..Quota]
    BY <1>1, <1>4 DEF BillingInit
  <2> QED
    BY <1>1, <1>4, <2>2, <2>3, <2>4, <2>5 DEF BillingInit, BillingTypeOK
<1>6. RowsInOrder
  BY <1>2, <1>3 DEF RowsInOrder, Bought
<1>7. Linked
  BY <1>2 DEF Linked
<1>8. Worth
  BY <1>3 DEF Worth
<1>9. Dated
  BY <1>2, <1>3 DEF Dated
<1>10. Current
  BY DEF Current, BillingInit
<1>11. Unrefunded
  BY <1>2 DEF Unrefunded, Bought
<1>12. AllDrawn
  <2>1. IsFiniteSet(Purchases)
    BY OrdersFinite
  <2>2. \A o \in Purchases : drawn[o] = 0
    BY <1>2
  <2>3. SumFunctionOnSet(drawn, Purchases) = 0
    BY <2>1, <2>2, SumZero
  <2> QED BY <2>3 DEF AllDrawn, BillingInit
<1>13. DraftPriced
  BY <1>3 DEF DraftPriced
<1> QED
  BY <1>5, <1>6, <1>7, <1>8, <1>9, <1>10, <1>11, <1>12, <1>13 DEF Books

\* There is no window at first.
LEMMA WindowsInit == BillingInit => WindowsFit
<1> SUFFICES ASSUME BillingInit PROVE WindowsFit
  OBVIOUS
<1>1. Begun = {}
  BY DEF BillingInit, NoPurchase, Begun, Bought
<1> QED BY <1>1 DEF WindowsFit

\* A draft of a new order or of an upgrade.
LEMMA DraftOf ==
  ASSUME Books, NEW tier \in Tiers, BuyNew(tier) \/ Upgrade(tier)
  PROVE  Books' /\ Begun' = Begun /\ (\A p \in Begun : purchase'[p] = purchase[p])
         /\ UNCHANGED <<date, sub, traffic, allowance, given, held, drawn, marred, unmetered>>
<1>1. CASE BuyNew(tier)
  <2>1. WriteDraft(tier, None, Price[tier], 0, 0)
    BY <1>1 DEF BuyNew
  <2>2. NewTerms(tier, None, Price[tier], 0, 0)
    BY DEF NewTerms
  <2>3. UNCHANGED <<date, sub, traffic, allowance, given, held, drawn, marred, unmetered>>
    BY <2>1 DEF WriteDraft
  <2> QED BY <2>1, <2>2, <2>3, DraftBooks
<1>2. CASE Upgrade(tier)
  <2>1. PICK prev, gross, surplus, to :
          UpgradeTerms(tier, prev, gross, surplus, to) /\ WriteDraft(tier, prev, gross, surplus, to)
    BY <1>2, UpgradeDraft
  <2>2. UNCHANGED <<date, sub, traffic, allowance, given, held, drawn, marred, unmetered>>
    BY <2>1 DEF WriteDraft
  <2> QED BY <2>1, <2>2, DraftBooks
<1> QED BY <1>1, <1>2

\* Nothing changes when nothing changes.
LEMMA StutterOf ==
  ASSUME Books, UNCHANGED billingVars
  PROVE  Books' /\ Begun' = Begun /\ \A p \in Begun : purchase'[p] = purchase[p]
<1>1. UNCHANGED <<date, purchase, sub, traffic, allowance, given, held, drawn, marred, unmetered>>
  BY DEF billingVars
<1>2. Begun' = Begun /\ BillingTypeOK' /\ RowsInOrder' /\ Linked'
  BY <1>1 DEF Books, Begun, Bought, BillingTypeOK, RowsInOrder, Linked, Prev
<1>3. Worth' /\ Dated' /\ Current'
  BY <1>1 DEF Books, Begun, Bought, Worth, VSource, Dated, Prev, Current
<1>4. Unrefunded' /\ AllDrawn' /\ DraftPriced'
  BY <1>1 DEF Books, Begun, Bought, Unrefunded, AllDrawn, DraftPriced, Prev, VSource, DaysThen,
              GrossThen, DTotal
<1> QED BY <1>1, <1>2, <1>3, <1>4 DEF Books

\* Every step keeps the books.
LEMMA BooksNext == Books /\ [BillingNext]_billingVars => Books'
<1> SUFFICES ASSUME Books, [BillingNext]_billingVars PROVE Books'
  OBVIOUS
<1>1. CASE \E tier \in Tiers : BuyNew(tier) \/ Upgrade(tier)
  BY <1>1, DraftOf
<1>2. CASE \E o \in Purchases : CompleteOrder(o) \/ Lapse(o) \/ RefundPurchase(o)
  BY <1>2, CompleteBooks, LapseBooks, RefundBooks
<1>3. CASE DatePasses \/ DrawTraffic \/ ResetTraffic
  BY <1>3, DateBooks, TrafficBooks
<1>4. CASE UNCHANGED billingVars
  BY <1>4, StutterOf
<1> QED BY <1>1, <1>2, <1>3, <1>4 DEF BillingNext

\* Every step keeps what is said of the windows.
LEMMA WindowsNext ==
  ASSUME DearerByBoth, Books, WindowsFit, [BillingNext]_billingVars
  PROVE  WindowsFit'
<1>1. Books'
  BY BooksNext
<1>2. CASE \E tier \in Tiers : BuyNew(tier) \/ Upgrade(tier)
  BY <1>1, <1>2, DraftOf, IdleWindows
<1>3. CASE \E o \in Purchases : Lapse(o)
  <2>1. PICK o \in Purchases : Lapse(o)
    BY <1>3
  <2>2. UNCHANGED <<date, sub, traffic, allowance, given, held, drawn, marred, unmetered>>
    BY <2>1 DEF Lapse
  <2> QED BY <1>1, <2>1, <2>2, LapseBooks, IdleWindows
<1>4. CASE \E o \in Purchases : CompleteOrder(o) \/ RefundPurchase(o)
  BY <1>1, <1>4, CompleteWindows, RefundWindows
<1>5. CASE DatePasses \/ DrawTraffic \/ ResetTraffic
  BY <1>1, <1>5, ServiceWindows
<1>6. CASE UNCHANGED billingVars
  BY <1>1, <1>6, StutterOf, IdleWindows DEF billingVars
<1> QED BY <1>2, <1>3, <1>4, <1>5, <1>6 DEF BillingNext

\* What is given back is counted.
NoneForNothing == \A o \in Purchases : given[o].times = 0 => given[o].sum = 0

\* A refund is counted when it is given.
LEMMA NothingNext ==
  ASSUME Books, NoneForNothing, [BillingNext]_billingVars
  PROVE  NoneForNothing'
<1>1. CASE UNCHANGED given
  BY <1>1 DEF NoneForNothing
<1>2. CASE \E o \in Purchases : RefundPurchase(o)
  <2>1. PICK n \in Purchases : RefundPurchase(n)
    BY <1>2
  <2>2. PICK amount \in Nat \ {0} :
          given'[n] = [sum |-> given[n].sum + amount, times |-> given[n].times + 1,
                       cooled |-> given[n].cooled \/ CoolsOff(n)]
    BY <2>1, RefundRow
  <2>3. given'[n].times = given[n].times + 1
    BY <2>2
  <2>4. given[n].times \in Nat
    BY RowTypes DEF Books
  <2>5. \A p \in Purchases : p # n => given'[p] = given[p]
    BY <2>1, RefundRow
  <2>6. ASSUME NEW p \in Purchases, given'[p].times = 0 PROVE given'[p].sum = 0
    <3>1. p # n
      BY <2>3, <2>4, <2>6
    <3> QED BY <2>5, <2>6, <3>1 DEF NoneForNothing
  <2> QED BY <2>6 DEF NoneForNothing
<1> QED
  BY <1>1, <1>2 DEF BillingNext, BuyNew, Upgrade, WriteDraft, CompleteOrder, Lapse, DatePasses,
                    DrawTraffic, ResetTraffic, billingVars

\* What was served of a chain without a refund, by the period, is covered by
\* what was paid for it, but for a cent an order.
LEMMA ChainPaid ==
  ASSUME Books, NEW t \in Begun, LastOf(t), given[t].times = 0
  PROVE  TimeByPeriod(Chain[t]) <= VWindow(Chain[t]) + Cardinality(Chain[t])
<1>1. PICK C : C = Chain[t]
  OBVIOUS
<1>2. t \in C /\ C \in SUBSET Begun /\ IsFiniteSet(C) /\ t \in Purchases
  BY <1>1, ChainOfBegun DEF Books, RowsLinked
<1>3. BillingTypeOK /\ RowsInOrder
  BY DEF Books
<1>4. Term \in Nat \ {0}
  BY TermIsPositive DEF TermPositive
<1>5. PICK v \in Nat, k \in Nat, p \in Nat :
        v = VWindow(C) /\ k = Cardinality(C) /\ p = TimeByPeriod(C)
  <2>1. VWindow(C) \in Nat /\ TimeByPeriod(C) \in Nat
    BY <1>2, <1>3, WindowSums
  <2>2. Cardinality(C) \in Nat
    BY <1>2, FS_CardinalityType
  <2> QED BY <2>1, <2>2
<1>6. ASSUME NEW o \in C
      PROVE  HeldAtPrice[o] = Price[purchase[o].tier] * held[o] /\ HeldAtPrice[o] \in Nat
  <2>1. o \in Purchases /\ Price[purchase[o].tier] \in Nat /\ held[o] \in Nat
    BY <1>2, <1>3, BegunPriced, RowTypes
  <2> QED BY <2>1, NatProduct DEF HeldAtPrice
<1>7. PICK h : h = HeldAtPrice
  OBVIOUS
<1>8. SumFunctionOnSet(h, C) <= Term * (v + k)
  <2>1. PICK price \in Nat, from \in Nat, to \in Nat, length \in Nat :
          /\ price = Price[purchase[t].tier] /\ from = purchase[t].from /\ to = purchase[t].to
          /\ length = held[t]
    BY <1>2, <1>3, BegunPriced, RowTypes
  <2>2. SumFunctionOnSet(h, C \ {t}) + price * (to - from) <= Term * (v + k) /\ from <= to
    BY <1>1, <1>5, <1>7, <2>1 DEF LastOf, PaidAhead
  <2>3. length <= to - from
    <3>1. length = LeastOf(date, to) - from
      BY <2>1 DEF LastOf, ServedThrough
    <3>2. date \in Nat
      BY <1>3, BillingAssumption DEF BillingTypeOK, Dates
    <3> QED BY <2>1, <3>1, <3>2 DEF LeastOf
  <2>4. price * length <= price * (to - from)
    BY <2>1, <2>3, ProductGrows
  <2>5. \A o \in C : h[o] \in Int
    BY <1>6, <1>7
  <2>6. SumFunctionOnSet(h, C) = h[t] + SumFunctionOnSet(h, C \ {t})
    BY <1>2, <2>5, SumWithout
  <2>7. IsFiniteSet(C \ {t}) /\ \A o \in C \ {t} : h[o] \in Int
    BY <1>2, <2>5, FS_Subset
  <2>8. SumFunctionOnSet(h, C \ {t}) \in Int
    BY <2>7, SumInt
  <2>9. h[t] = price * length
    BY <1>2, <1>6, <1>7, <2>1
  <2>10. price * length \in Int /\ price * (to - from) \in Int /\ Term * (v + k) \in Int
    BY <1>4, <2>1
  <2> QED BY <2>2, <2>4, <2>6, <2>8, <2>9, <2>10
<1>9. Term * p <= SumFunctionOnSet(h, C)
  <2> DEFINE f == [o \in C |-> (Price[purchase[o].tier] * held[o]) \div (Day * PeriodDays)]
             g == [o \in C |-> Term * f[o]]
  <2>1. p = SumFunctionOnSet(f, C)
    BY <1>5 DEF TimeByPeriod
  <2>2. \A o \in C : f[o] \in Nat /\ g[o] = Term * f[o] /\ g[o] \in Nat /\ h[o] \in Nat /\ g[o] <= h[o]
    <3> TAKE o \in C
    <3>1. PICK m \in Nat : m = HeldAtPrice[o]
      BY <1>6
    <3>2. f[o] = m \div Term
      BY <1>6, <3>1 DEF Term
    <3> HIDE DEF f
    <3>3. f[o] \in Nat /\ Term * f[o] <= m
      BY <1>4, <3>2, Quotient
    <3>4. Term * f[o] \in Nat
      BY <1>4, <3>3, NatProduct
    <3> QED BY <1>7, <3>1, <3>3, <3>4
  <2> HIDE DEF f, g
  <2>3. Term \in Nat /\ C \in SUBSET C
    BY <1>4
  <2>4. SumFunctionOnSet(g, C) = Term * SumFunctionOnSet(f, C)
    BY <1>2, <2>2, <2>3, SumScale
  <2>5. SumFunctionOnSet(g, C) <= SumFunctionOnSet(h, C)
    BY <1>2, <2>2, <2>3, SumMonotone
  <2> QED BY <2>1, <2>4, <2>5
<1>10. SumFunctionOnSet(h, C) \in Nat
  BY <1>2, <1>6, <1>7, SumNat
<1>11. p < v + k + 1
  <2>1. Term * (v + k + 1) = Term * (v + k) + Term /\ Term * (v + k) \in Nat /\ Term * p \in Nat
    BY <1>4, <1>5
  <2>2. Term * p < Term * (v + k + 1)
    BY <1>4, <1>8, <1>9, <1>10, <2>1
  <2> QED BY <1>4, <1>5, <2>2, FactorFollows
<1> QED BY <1>1, <1>5, <1>11

\* A chain has a refund if and only if its last order has.
LEMMA RefundsOfLast ==
  ASSUME Books, NEW t \in Begun, LastOf(t)
  PROVE  Refunds(Chain[t]) = 0 <=> given[t].times = 0
<1>1. t \in Chain[t] /\ Chain[t] \in SUBSET Begun /\ IsFiniteSet(Chain[t])
  BY ChainOfBegun DEF Books, RowsLinked
<1> DEFINE C == Chain[t]
           f == [o \in C |-> given[o].times]
<1>2. \A o \in C : f[o] \in Nat /\ (o # t => f[o] = 0) /\ f[t] = given[t].times
  <2> TAKE o \in C
  <2>1. o \in Purchases /\ t \in Purchases
    BY <1>1 DEF Begun, Bought
  <2>2. o # t => given[o] = [sum |-> 0, times |-> 0, cooled |-> FALSE]
    BY <2>1 DEF LastOf, OnlyLastRefunded, Books, Unrefunded, Bought
  <2>3. given[o].times \in Nat
    BY <2>1, RowTypes DEF Books
  <2> QED BY <1>1, <2>2, <2>3
<1>3. Refunds(C) = SumFunctionOnSet(f, C)
  BY DEF Refunds
<1> HIDE DEF f
<1>4. f[t] <= SumFunctionOnSet(f, C) /\ SumFunctionOnSet(f, C) \in Nat
  BY <1>1, <1>2, SumAtLeast, SumNat
<1>5. f[t] = 0 => SumFunctionOnSet(f, C) = 0
  <2>1. f[t] = 0 => \A o \in C : f[o] = 0
    BY <1>2
  <2> QED BY <1>1, <2>1, SumZero
<1> QED BY <1>1, <1>2, <1>3, <1>4, <1>5

\* No chain is cheaper than the list prices.
LEMMA ChainNotCheaper ==
  ASSUME Books, NoneForNothing, NEW t \in Begun, LastOf(t)
  PROVE  NotCheaper(Chain[t])
<1>1. t \in Purchases /\ t \in Chain[t] /\ Chain[t] \in SUBSET Begun /\ IsFiniteSet(Chain[t])
  BY ChainOfBegun DEF Books, RowsLinked
<1>2. given[t].times \in Nat /\ given[t].sum \in Nat
  BY <1>1, RowTypes DEF Books
<1>3. Net(Chain[t]) = VWindow(Chain[t]) - given[t].sum
  BY <1>1, NetLeft DEF OneRefund, LastOf, OnlyLastRefunded
<1>4. CASE given[t].times = 0
  <2>1. Refunds(Chain[t]) = 0
    BY <1>4, RefundsOfLast
  <2>2. TimeByPeriod(Chain[t]) <= VWindow(Chain[t]) + Cardinality(Chain[t])
    BY <1>4, ChainPaid
  <2>3. given[t].sum = 0
    BY <1>1, <1>4 DEF NoneForNothing
  <2>4. VWindow(Chain[t]) \in Nat
    BY <1>1, WindowSums DEF Books
  <2>5. Net(Chain[t]) = VWindow(Chain[t])
    BY <1>3, <2>3, <2>4
  <2> QED BY <2>1, <2>2, <2>5 DEF NotCheaper
<1>5. CASE given[t].times # 0
  <2>1. Refunds(Chain[t]) # 0
    BY <1>5, RefundsOfLast
  <2>2. given[t].times > 0
    BY <1>2, <1>5
  <2> QED BY <1>1, <2>1, <2>2 DEF NotCheaper, LastOf, LeftCovers
<1> QED BY <1>4, <1>5

\* An order held to its end costs no more than its days by the month.
LEMMA OneNotDearer ==
  ASSUME PricesAgree, Books, NEW t \in Begun, LastOf(t), given[t].times = 0, Prev(t) = None,
         purchase[t].to <= date
  PROVE  VWindow({t}) <= TimeByMonth({t})
<1>1. t \in Purchases /\ purchase[t].tier \in Tiers /\ BillingTypeOK
  BY BegunPriced DEF Books
<1>2. PICK price \in Nat, monthly \in Nat :
        /\ price = Price[purchase[t].tier] /\ monthly = Monthly[purchase[t].tier]
        /\ NoDearer(price, monthly)
  BY <1>1, ListPrices DEF PricesAgree
<1>3. held[t] = Term
  <2>1. purchase[t].to = purchase[t].from + Term
    BY DEF Books, Dated
  <2>2. held[t] = LeastOf(date, purchase[t].to) - purchase[t].from
    BY DEF LastOf, ServedThrough
  <2>3. purchase[t].from \in Nat /\ purchase[t].to \in Nat /\ date \in Nat /\ Term \in Nat
    BY <1>1, RowTypes, BillingAssumption, TermIsPositive DEF TermPositive, BillingTypeOK, Dates
  <2> QED BY <2>1, <2>2, <2>3 DEF LeastOf
<1>4. VWindow({t}) = price
  <2> DEFINE f == [o \in {t} |-> purchase[o].due]
  <2>1. f[t] = price
    BY <1>1, <1>2 DEF Books, Linked, Begun, Bought
  <2> HIDE DEF f
  <2>2. SumFunctionOnSet(f, {t}) = price
    BY <2>1, SumOne
  <2> QED BY <2>2 DEF VWindow, f
<1>5. TimeByMonth({t}) = (monthly * Term) \div (Day * MonthDays)
  <2> DEFINE f == [o \in {t} |-> (Monthly[purchase[o].tier] * held[o]) \div (Day * MonthDays)]
  <2>1. f[t] = (monthly * Term) \div (Day * MonthDays)
    BY <1>2, <1>3
  <2>2. (monthly * Term) \div (Day * MonthDays) \in Int
    BY TermIsPositive, NatProduct, Quotient DEF TermPositive
  <2> HIDE DEF f
  <2>3. SumFunctionOnSet(f, {t}) = f[t]
    BY <2>1, <2>2, SumOne
  <2> QED BY <2>1, <2>3 DEF TimeByMonth, f
<1> QED BY <1>2, <1>4, <1>5, PeriodCosts

\* The first upgrade and what came before it, held to the end, cost no more
\* than their days by the month, but for a day and a cent an order.
LEMMA TwoNotDearer ==
  ASSUME PricesAgree, Books, NEW t \in Begun, LastOf(t), given[t].times = 0,
         NEW s \in Begun, Prev(t) = s, Prev(s) = None, purchase[t].to <= date
  PROVE  VWindow({s} \cup {t}) <= TimeByMonth({s} \cup {t}) + 2 + Price[purchase[t].tier] \div PeriodDays
<1>1. /\ t \in Purchases /\ purchase[t].tier \in Tiers /\ BillingTypeOK
      /\ s \in Purchases /\ purchase[s].tier \in Tiers /\ s # None
  BY BegunPriced, BillingAssumption DEF Books
<1>2. s # t
  BY <1>1, OrdersFinite DEF Books, Linked
<1>3. PICK ps \in Nat, ms \in Nat, pt \in Nat, mt \in Nat :
        /\ ps = Price[purchase[s].tier] /\ ms = Monthly[purchase[s].tier]
        /\ pt = Price[purchase[t].tier] /\ mt = Monthly[purchase[t].tier]
        /\ NoDearer(ps, ms) /\ NoDearer(pt, mt)
  BY <1>1, ListPrices DEF PricesAgree
<1>4. /\ held[s] = purchase[t].from - purchase[s].from
      /\ purchase[t].to = purchase[s].to
      /\ \E days \in 0..PeriodDays :
           /\ days * Day >= purchase[t].to - purchase[t].from
           /\ days * Day < purchase[t].to - purchase[t].from + PayWindow + Day
           /\ purchase[t].due = MulDiv(pt, days, PeriodDays) - MulDiv(ps, days, PeriodDays)
  BY <1>1, <1>3 DEF LastOf, FirstUpgrade
<1>5. PICK days \in 0..PeriodDays :
        /\ days * Day >= purchase[t].to - purchase[t].from
        /\ days * Day < purchase[t].to - purchase[t].from + PayWindow + Day
        /\ purchase[t].due = MulDiv(pt, days, PeriodDays) - MulDiv(ps, days, PeriodDays)
  BY <1>4
<1>6. PICK before \in Nat, after \in Nat :
        /\ before = held[s] /\ after = held[t] /\ before + after = Term
        /\ after <= days * Day /\ days * Day <= after + Day
  <2>1. purchase[s].to = purchase[s].from + Term
    BY DEF Books, Dated
  <2>2. held[t] = LeastOf(date, purchase[t].to) - purchase[t].from
    BY DEF LastOf, ServedThrough
  <2>3. /\ purchase[t].from \in Nat /\ purchase[t].to \in Nat /\ purchase[s].from \in Nat
        /\ held[s] \in Nat /\ held[t] \in Nat
    BY <1>1, RowTypes
  <2>4. date \in Nat /\ Term \in Nat /\ Day \in Nat /\ PeriodDays \in Nat
        /\ PayWindow \in Nat /\ PayWindow <= 1
    BY <1>1, BillingAssumption, TermIsPositive DEF TermPositive, BillingTypeOK, Dates, PricesAgree
  <2>5. held[t] = purchase[t].to - purchase[t].from
    BY <2>2, <2>3, <2>4 DEF LeastOf
  <2>6. days \in Nat /\ days * Day \in Nat
    BY <2>4, NatProduct
  <2>7. held[s] + held[t] = Term
    BY <1>4, <2>1, <2>3, <2>4, <2>5
  <2>8. held[t] <= days * Day /\ days * Day <= held[t] + Day
    BY <1>5, <2>3, <2>4, <2>5, <2>6
  <2> QED BY <2>3, <2>7, <2>8
<1> DEFINE d == Day * MonthDays
<1>7. d \in Nat \ {0} /\ Term \in Nat \ {0} /\ PeriodDays \in Nat \ {0}
  BY TermIsPositive, BillingAssumption DEF TermPositive
<1>8. VWindow({s} \cup {t}) = ps + (MulDiv(pt, days, PeriodDays) - MulDiv(ps, days, PeriodDays))
  <2> DEFINE f == [o \in {s} \cup {t} |-> purchase[o].due]
  <2>1. f[s] = ps
    BY <1>1, <1>3 DEF Books, Linked, Begun, Bought
  <2>2. f[t] = MulDiv(pt, days, PeriodDays) - MulDiv(ps, days, PeriodDays)
    BY <1>5
  <2>3. f[t] \in Int
    BY <1>1, RowTypes
  <2> HIDE DEF f
  <2>4. SumFunctionOnSet(f, {s} \cup {t}) = f[s] + f[t]
    <3>1. f[s] \in Int
      BY <2>1
    <3> QED BY <1>2, <2>3, <3>1, SumTwo
  <2> QED BY <2>1, <2>2, <2>4 DEF VWindow, f
<1>9. TimeByMonth({s} \cup {t}) = (ms * before) \div d + (mt * after) \div d
      /\ (ms * before) \div d \in Nat /\ (mt * after) \div d \in Nat
  <2> DEFINE f == [o \in {s} \cup {t} |-> (Monthly[purchase[o].tier] * held[o]) \div d]
  <2>1. f[s] = (ms * before) \div d /\ f[t] = (mt * after) \div d
    BY <1>3, <1>6
  <2> HIDE DEF d
  <2>2. (ms * before) \div d \in Nat /\ (mt * after) \div d \in Nat
    BY <1>7, NatProduct, Quotient
  <2> HIDE DEF f
  <2>3. SumFunctionOnSet(f, {s} \cup {t}) = f[s] + f[t]
    <3>1. f[s] \in Int /\ f[t] \in Int
      BY <2>1, <2>2
    <3> QED BY <1>2, <3>1, SumTwo
  <2> QED BY <2>1, <2>2, <2>3 DEF TimeByMonth, f, d
<1>10. ps - MulDiv(ps, days, PeriodDays) <= (ps * before) \div Term + 1
  BY <1>6, FirstKeeps
<1>11. MulDiv(pt, days, PeriodDays) <= (pt * after) \div Term + pt \div PeriodDays + 1
  BY <1>6, SecondCosts
<1>12. (ps * before) \div Term <= (ms * before) \div d /\ (pt * after) \div Term <= (mt * after) \div d
  BY <1>3, MonthCosts
<1>13. /\ MulDiv(ps, days, PeriodDays) \in Nat /\ MulDiv(pt, days, PeriodDays) \in Nat
       /\ (ps * before) \div Term \in Nat /\ (pt * after) \div Term \in Nat
       /\ pt \div PeriodDays \in Nat
  <2>1. ps * before \in Nat /\ pt * after \in Nat
    BY NatProduct
  <2>2. (ps * before) \div Term \in Nat /\ (pt * after) \div Term \in Nat /\ pt \div PeriodDays \in Nat
    BY <1>7, <2>1, Quotient
  <2> QED BY <1>7, <2>2, Share
<1> HIDE DEF d
<1>14. PICK a \in Nat, b \in Nat, c \in Nat, e \in Nat, x \in Nat, y \in Nat, z \in Nat :
         /\ a = MulDiv(ps, days, PeriodDays) /\ b = MulDiv(pt, days, PeriodDays)
         /\ c = (ps * before) \div Term /\ e = (pt * after) \div Term
         /\ x = (ms * before) \div d /\ y = (mt * after) \div d /\ z = pt \div PeriodDays
  BY <1>9, <1>13
<1>15. ps + (b - a) <= (x + y) + 2 + z
  BY <1>10, <1>11, <1>12, <1>14
<1> QED BY <1>3, <1>8, <1>9, <1>14, <1>15

\* No chain of one order, or of two, is dearer than its days by the month.
LEMMA ChainNotDearer ==
  ASSUME PricesAgree, Books, NEW t \in Begun, LastOf(t)
  PROVE  NotDearer(Chain[t])
<1> DEFINE C == Chain[t]
           slack == [o \in C |-> 1 + Price[purchase[o].tier] \div PeriodDays]
<1> SUFFICES ASSUME Cardinality(C) <= 2, Refunds(C) = 0, \A o \in C : purchase[o].to <= date
             PROVE  Net(C) <= TimeByMonth(C) + SumFunctionOnSet(slack, C)
  BY DEF NotDearer
<1>1. t \in Purchases /\ t \in C /\ C \in SUBSET Begun /\ IsFiniteSet(C)
  BY ChainOfBegun DEF Books, RowsLinked
<1>2. given[t].times = 0 /\ purchase[t].to <= date
  BY <1>1, RefundsOfLast
<1>3. Net(C) = VWindow(C) - given[t].sum /\ given[t].sum \in Nat
  BY <1>1, NetLeft, RowTypes DEF OneRefund, LastOf, OnlyLastRefunded, Books
<1>4. VWindow(C) \in Nat /\ TimeByMonth(C) \in Nat
  BY <1>1, WindowSums DEF Books
<1>5. PeriodDays \in Nat \ {0}
  BY BillingAssumption
<1>6. \A o \in C : slack[o] \in Nat /\ slack[o] = 1 + Price[purchase[o].tier] \div PeriodDays
                   /\ slack[o] >= 1
  <2> TAKE o \in C
  <2>1. Price[purchase[o].tier] \in Nat
    BY <1>1, BegunPriced DEF Books
  <2>2. Price[purchase[o].tier] \div PeriodDays \in Nat
    BY <1>5, <2>1, Quotient
  <2> QED BY <2>2
<1>7. ChainsFit
  BY ChainFits DEF Books, RowsLinked
<1> HIDE DEF slack
<1>8. SumFunctionOnSet(slack, C) \in Nat
  BY <1>1, <1>6, SumNat
<1>9. CASE Prev(t) = None
  <2>1. C = {t}
    BY <1>1, <1>7, <1>9 DEF ChainsFit
  <2>2. VWindow(C) <= TimeByMonth(C)
    BY <1>2, <1>9, <2>1, OneNotDearer
  <2> QED BY <1>3, <1>4, <1>8, <2>2
<1>10. CASE Prev(t) # None
  <2>1. PICK s \in Begun : s = Prev(t) /\ s \in Purchases /\ s < t /\ s # t
    BY <1>1, <1>10, OrdersFinite DEF Books, Linked, Begun, Bought
  <2>2. C = {t} \cup Chain[s] /\ s \in Chain[s]
    BY <1>1, <1>7, <1>10, <2>1 DEF ChainsFit
  <2>3. \A p \in C : p = s \/ p = t
    <3> SUFFICES ASSUME NEW p \in C, p # s, p # t PROVE FALSE
      OBVIOUS
    <3>1. {s, t, p} \subseteq C
      BY <1>1, <2>2
    <3>2. Cardinality({s, t, p}) = 3
      <4>1. Cardinality({s}) = 1 /\ IsFiniteSet({s})
        BY FS_Singleton
      <4>2. Cardinality({s} \cup {t}) = 2 /\ IsFiniteSet({s} \cup {t})
        <5>1. t \notin {s}
          BY <2>1
        <5>2. /\ IsFiniteSet({s} \cup {t})
              /\ Cardinality({s} \cup {t}) = Cardinality({s}) + 1
          BY <4>1, <5>1, FS_AddElement
        <5> QED BY <4>1, <5>2
      <4>3. p \notin {s} \cup {t}
        OBVIOUS
      <4>4. Cardinality(({s} \cup {t}) \cup {p}) = 3
        <5>1. Cardinality(({s} \cup {t}) \cup {p}) = Cardinality({s} \cup {t}) + 1
          BY <4>2, <4>3, FS_AddElement
        <5> QED BY <4>2, <5>1
      <4>5. ({s} \cup {t}) \cup {p} = {s, t, p}
        OBVIOUS
      <4> QED BY <4>4, <4>5
    <3>3. Cardinality({s, t, p}) <= Cardinality(C) /\ Cardinality(C) \in Nat
      BY <1>1, <3>1, FS_Subset, FS_CardinalityType
    <3> QED BY <3>2, <3>3
  <2>4. Prev(s) = None
    <3> SUFFICES ASSUME Prev(s) # None PROVE FALSE
      OBVIOUS
    <3>1. Prev(s) \in Begun /\ Prev(s) < s /\ Prev(s) \in Purchases
      BY <2>1 DEF Books, Linked, Begun, Bought
    <3>2. Prev(s) \in C
      <4>1. Chain[s] = {s} \cup Chain[Prev(s)] /\ Prev(s) \in Chain[Prev(s)]
        BY <1>7, <2>1, <3>1 DEF ChainsFit
      <4> QED BY <2>2, <4>1
    <3>3. s \in Nat /\ t \in Nat /\ Prev(s) \in Nat
      BY <1>1, <2>1, <3>1, OrdersFinite
    <3> QED BY <2>1, <2>3, <3>1, <3>2, <3>3
  <2>5. C = {s} \cup {t}
    BY <1>1, <2>2, <2>3
  <2>6. PICK z \in Nat, y \in Nat : z = Price[purchase[t].tier] \div PeriodDays
                                    /\ y = Price[purchase[s].tier] \div PeriodDays
                                    /\ slack[t] = 1 + z /\ slack[s] = 1 + y
    <3>1. slack[t] \in Nat /\ slack[t] = 1 + Price[purchase[t].tier] \div PeriodDays
          /\ slack[s] = 1 + Price[purchase[s].tier] \div PeriodDays
      BY <1>1, <1>6, <2>2
    <3>2. Price[purchase[t].tier] \div PeriodDays \in Nat /\ Price[purchase[s].tier] \div PeriodDays \in Nat
      BY <1>5, <2>1, BegunPriced, Quotient DEF Books
    <3> QED BY <3>1, <3>2
  <2>7. SumFunctionOnSet(slack, C) = slack[s] + slack[t]
    <3>1. slack[s] \in Int /\ slack[t] \in Int
      BY <2>6
    <3> QED BY <2>1, <2>5, <3>1, SumTwo
  <2>8. VWindow({s} \cup {t}) <= TimeByMonth({s} \cup {t}) + 2 + Price[purchase[t].tier] \div PeriodDays
    BY <1>2, <2>1, <2>4, TwoNotDearer
  <2>9. VWindow(C) <= TimeByMonth(C) + 2 + z
    BY <2>5, <2>6, <2>8
  <2> HIDE DEF C
  <2> QED BY <1>3, <1>4, <2>6, <2>7, <2>9
<1> QED BY <1>9, <1>10
-----------------------------------------------------------------------------
(* Theorems.                                                               *)

\* Billing keeps its types.
THEOREM BillingTyped == BillingSpec => []BillingTypeOK
<1>1. Books => BillingTypeOK
  BY DEF Books
<1> QED BY BooksInit, BooksNext, <1>1, PTL DEF BillingSpec

\* No refund is given at first.
LEMMA NothingInit == BillingInit => NoneForNothing
BY DEF BillingInit, NoneForNothing

BillingInv == Books /\ NoneForNothing /\ WindowsFit

\* The invariant holds throughout.
LEMMA BillingInvariant ==
  ASSUME DearerByBoth
  PROVE  BillingSpec => []BillingInv
<1>1. BillingInit => BillingInv
  BY BooksInit, WindowsInit, NothingInit DEF BillingInv
<1>2. BillingInv /\ [BillingNext]_billingVars => BillingInv'
  BY BooksNext, WindowsNext, NothingNext DEF BillingInv
<1> QED BY <1>1, <1>2, PTL DEF BillingSpec

\* A window that nothing came across is a chain of orders.
LEMMA WindowIsChain ==
  ASSUME BillingInv, NEW win \in Windows, win \cap marred = {}
  PROVE  \E t \in Begun : win = Chain[t] /\ LastOf(t)
<1>1. PICK r \in Begun : Prev(r) = None /\ win = Window(r)
  BY DEF Windows, Window, Prev
<1> QED BY <1>1 DEF BillingInv, WindowsFit

\* Whatever the price lists, if what is dearer by the period is not cheaper by
\* the month, and however fine time is told, no path of upgrades and refunds is
\* cheaper than the list prices (buildUpgradeDraft, GetRefundBasis,
\* classifyRefund).
THEOREM NeverCheaper ==
  ASSUME DearerByBoth
  PROVE  BillingSpec => []NoneCheaper
<1>1. ASSUME BillingInv PROVE NoneCheaper
  <2> SUFFICES ASSUME NEW win \in Windows, win \cap marred = {} PROVE NotCheaper(win)
    BY DEF NoneCheaper
  <2>1. PICK t \in Begun : win = Chain[t] /\ LastOf(t)
    BY <1>1, WindowIsChain
  <2> QED BY <1>1, <2>1, ChainNotCheaper DEF BillingInv
<1> QED BY <1>1, BillingInvariant, PTL

\* With price lists that agree no path of upgrades and refunds is cheaper or
\* dearer than the list prices (buildUpgradeDraft, GetRefundBasis,
\* classifyRefund; ADR 0013, 1.1).
THEOREM SamePrices ==
  ASSUME PricesAgree
  PROVE  BillingSpec => []SamePriceByEveryPath
<1>1. BillingSpec => []BillingInv
  BY BillingInvariant DEF PricesAgree
<1>2. BillingInv => SamePriceByEveryPath
  <2> SUFFICES ASSUME BillingInv, NEW win \in Windows, win \cap marred = {}
               PROVE  NotCheaper(win) /\ NotDearer(win)
    BY DEF SamePriceByEveryPath
  <2>1. PICK t \in Begun : win = Chain[t] /\ LastOf(t)
    BY WindowIsChain
  <2> QED BY <2>1, ChainNotCheaper, ChainNotDearer DEF BillingInv
<1> QED BY <1>1, <1>2, PTL

-----------------------------------------------------------------------------
(* The parts side by side.                                                 *)

\* What is a step of the composition is of each part a step or none.
LEMMA PartsStep ==
  ASSUME [PartsNext]_partsVars
  PROVE  /\ part' = part
         /\ [Next]_vars
         /\ [CatalogNext]_catalogVars
         /\ [TicketsNext]_ticketVars
         /\ [MailNext]_mailVars
         /\ [TokensNext]_tokenVars
         /\ [DesktopNext]_desktopVars
         /\ [ExtensionNext]_extensionVars
         /\ [KeysNext]_keyVars
         /\ [BillingNext]_billingVars
<1>1. CASE PartsNext
  BY <1>1
  DEF PartsNext, ConsoleMoves, CatalogMoves, TicketsMove, MailMoves, TokensMove, DesktopMoves,
      ExtensionMoves, KeysMove, BillingMoves
<1>2. CASE UNCHANGED partsVars
  BY <1>2 DEF partsVars
<1> QED BY <1>1, <1>2

\* Parts that share no state do side by side what each does by itself, so all
\* that is proved of one holds of it in the composition.
THEOREM PartsApart ==
  PartsSpec => /\ Spec /\ CatalogSpec /\ TicketsSpec /\ MailSpec /\ TokensSpec
               /\ DesktopSpec /\ ExtensionSpec /\ KeysSpec /\ BillingSpec
<1>1. PartsInit => /\ Init /\ CatalogInit /\ TicketsInit /\ MailInit /\ TokensInit
                   /\ DesktopInit /\ ExtensionInit /\ KeysInit /\ BillingInit
  BY DEF PartsInit
<1>2. [PartsNext]_partsVars => [Next]_vars
  BY PartsStep
<1>3. [PartsNext]_partsVars => [CatalogNext]_catalogVars
  BY PartsStep
<1>4. [PartsNext]_partsVars => [TicketsNext]_ticketVars
  BY PartsStep
<1>5. [PartsNext]_partsVars => [MailNext]_mailVars
  BY PartsStep
<1>6. [PartsNext]_partsVars => [TokensNext]_tokenVars
  BY PartsStep
<1>7. [PartsNext]_partsVars => [DesktopNext]_desktopVars
  BY PartsStep
<1>8. [PartsNext]_partsVars => [ExtensionNext]_extensionVars
  BY PartsStep
<1>9. [PartsNext]_partsVars => [KeysNext]_keyVars
  BY PartsStep
<1>10. [PartsNext]_partsVars => [BillingNext]_billingVars
  BY PartsStep
<1> QED
  BY <1>1, <1>2, <1>3, <1>4, <1>5, <1>6, <1>7, <1>8, <1>9, <1>10, PTL
  DEF PartsSpec, Spec, CatalogSpec, TicketsSpec, MailSpec, TokensSpec, DesktopSpec,
      ExtensionSpec, KeysSpec, BillingSpec

\* Every variable of every part keeps its type.
THEOREM PartsTyped == PartsSpec => []PartsTypeOK
<1>1. Spec => []TypeOK
  <2>1. ConsoleInv => TypeOK
    BY DEF ConsoleInv
  <2> QED BY <2>1, ConsoleInit, ConsoleStep, PTL DEF Spec
<1>2. CatalogSpec => []CatalogTypeOK
  <2>1. CatalogInv => CatalogTypeOK
    BY DEF CatalogInv
  <2> QED BY <2>1, CatalogBegins, CatalogStep, PTL DEF CatalogSpec
<1>3. TicketsSpec => []TicketsTypeOK
  <2>1. TicketsInv => TicketsTypeOK
    BY DEF TicketsInv
  <2> QED BY <2>1, TicketsBegin, TicketsStep, PTL DEF TicketsSpec
<1>4. MailSpec => []MailTypeOK
  <2>1. MailInv => MailTypeOK
    BY DEF MailInv
  <2> QED BY <2>1, MailBegins, MailStep, PTL DEF MailSpec
<1>5. TokensSpec => []TokensTypeOK
  <2>1. TokensInv => TokensTypeOK
    BY DEF TokensInv
  <2> QED BY <2>1, TokensBegin, TokensStep, PTL DEF TokensSpec
<1>6. DesktopSpec => []DesktopTypeOK
  <2>1. DesktopInv => DesktopTypeOK
    BY DEF DesktopInv
  <2> QED BY <2>1, DesktopBegins, DesktopStep, PTL DEF DesktopSpec
<1>7. ExtensionSpec => []ExtensionTypeOK
  <2>1. ExtensionInv => ExtensionTypeOK
    BY DEF ExtensionInv
  <2> QED BY <2>1, ExtensionBegins, ExtensionStep, PTL DEF ExtensionSpec
<1>8. KeysSpec => []KeysTypeOK
  <2>1. KeysInv => KeysTypeOK
    BY DEF KeysInv
  <2> QED BY <2>1, KeysBegin, KeysStep, PTL DEF KeysSpec
<1>9. PartsSpec => [](part \in Parts)
  <2>1. PartsInit => part \in Parts
    BY DEF PartsInit
  <2>2. part \in Parts /\ [PartsNext]_partsVars => (part \in Parts)'
    BY PartsStep
  <2> QED BY <2>1, <2>2, PTL DEF PartsSpec
<1>10. /\ part \in Parts /\ TypeOK /\ CatalogTypeOK /\ TicketsTypeOK /\ MailTypeOK
       /\ TokensTypeOK /\ DesktopTypeOK /\ ExtensionTypeOK /\ KeysTypeOK /\ BillingTypeOK
       => PartsTypeOK
  BY DEF PartsTypeOK
<1> QED
  BY <1>1, <1>2, <1>3, <1>4, <1>5, <1>6, <1>7, <1>8, <1>9, <1>10, BillingTyped, PartsApart, PTL
=============================================================================
