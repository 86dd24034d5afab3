----------------------------- MODULE SubTokens ------------------------------
(***************************************************************************)
(* Subscription tokens of a user and the two ways to revoke all of them    *)
(* (handler/usersub.go, handler/admin_users.go, handler/subscription.go).  *)
(*                                                                         *)
(* A token says when it was issued and the user when all were revoked;     *)
(* both are now(), the time the writing transaction began, and show when   *)
(* it commits.                                                             *)
(***************************************************************************)
EXTENDS Integers, FiniteSets, Common

CONSTANTS
  Tokens,
  Revokers,      \* requests that revoke all: the user's, or an admin's (D3)
  ActiveLimit,   \* maxActiveSubTokens
  LastTick       \* bound on time

Ticks == 1..LastTick
TokenRows == [state : {"none", "issuing", "issued"}, at : 0..LastTick, revoked : BOOLEAN]

ASSUME SubTokensAssumption == ActiveLimit \in Nat /\ LastTick \in Nat \ {0} /\ None \notin Ticks

VARIABLES
  tick,          \* the database's clock
  token,         \* subscription_tokens
  subRevokedAt,  \* users.sub_revoked_at, 0 for NULL
  revoking,      \* per request, when its transaction began
  dead,          \* history: the tokens a revocation that is over was to end
  backwards      \* history: a revocation was written over one that began later

tokenVars == <<tick, token, subRevokedAt, revoking, dead, backwards>>

TokensTypeOK ==
  /\ tick \in Ticks
  /\ token \in [Tokens -> TokenRows]
  /\ subRevokedAt \in 0..LastTick
  /\ revoking \in [Revokers -> Ticks \cup {None}]
  /\ dead \in SUBSET Tokens
  /\ backwards \in BOOLEAN

TokensInit ==
  /\ tick = 1
  /\ token = [t \in Tokens |-> [state |-> "none", at |-> 0, revoked |-> FALSE]]
  /\ subRevokedAt = 0
  /\ revoking = [r \in Revokers |-> None]
  /\ dead = {}
  /\ backwards = FALSE

ClockTick ==
  /\ tick < LastTick /\ tick' = tick + 1
  /\ UNCHANGED <<token, subRevokedAt, revoking, dead, backwards>>

\* Mutant: a token of the moment of the revocation stays valid.
ResolveSubscriptionToken_AtOnce(t) ==
  token[t].state = "issued" /\ ~ token[t].revoked /\ token[t].at >= subRevokedAt

\* Whether the subscription is delivered for this token.
ResolveSubscriptionToken(t) ==
  token[t].state = "issued" /\ ~ token[t].revoked /\ token[t].at > subRevokedAt

\* The same predicate.
CountActiveSubscriptionTokens ==
  Cardinality({t \in Tokens : token[t].state = "issued" /\ ~ token[t].revoked
                              /\ token[t].at > subRevokedAt})

\* createSubscriptionToken counts and then begins to write.
CreateSubscriptionToken(t) ==
  /\ token[t].state = "none"
  /\ CountActiveSubscriptionTokens < ActiveLimit
  /\ token' = [token EXCEPT ![t] = [@ EXCEPT !.state = "issuing", !.at = tick]]
  /\ UNCHANGED <<tick, subRevokedAt, revoking, dead, backwards>>

TokenIssued(t) ==
  /\ token[t].state = "issuing"
  /\ token' = [token EXCEPT ![t] = [@ EXCEPT !.state = "issued"]]
  /\ UNCHANGED <<tick, subRevokedAt, revoking, dead, backwards>>

\* RevokeSubscriptionToken: one of them, once.
RevokeSubscriptionToken(t) ==
  /\ token[t].state = "issued" /\ ~ token[t].revoked
  /\ token' = [token EXCEPT ![t] = [@ EXCEPT !.revoked = TRUE]]
  /\ dead' = dead \cup {t}
  /\ UNCHANGED <<tick, subRevokedAt, revoking, backwards>>

\* A transaction that will revoke all: what it writes is decided here.
RevokeAllBegins(r) ==
  /\ revoking[r] = None
  /\ revoking' = [revoking EXCEPT ![r] = tick]
  /\ UNCHANGED <<tick, token, subRevokedAt, dead, backwards>>

\* RevokeAllUserSubscriptionTokens, in revokeAdminUserSubsTx after the user's
\* row is locked, and the commit.  A later revocation may have been written in
\* between; its time is replaced by the earlier one.
RevokeAllUserSubscriptionTokens(r) ==
  /\ revoking[r] # None
  /\ subRevokedAt' = revoking[r]
  /\ backwards' = (backwards \/ revoking[r] < subRevokedAt)
  /\ dead' = dead \cup {t \in Tokens : token[t].state # "none" /\ token[t].at <= revoking[r]}
  /\ revoking' = [revoking EXCEPT ![r] = None]
  /\ UNCHANGED <<tick, token>>

TokensNext ==
  \/ ClockTick
  \/ \E t \in Tokens :
       CreateSubscriptionToken(t) \/ TokenIssued(t) \/ RevokeSubscriptionToken(t)
  \/ \E r \in Revokers : RevokeAllBegins(r) \/ RevokeAllUserSubscriptionTokens(r)

TokensSpec == TokensInit /\ [][TokensNext]_tokenVars

\* A token that was revoked, alone or with all others, is not honoured again: not
\* one still being issued when all were revoked, and not after later revocations,
\* unless one was written over another that began after it.
RevokedStaysOut == ~ backwards => \A t \in dead : ~ ResolveSubscriptionToken(t)

\* Why: a token that was revoked was issued, or begun, before; and as long as
\* the time of the last revocation never goes back, it stays before that.
TokensInv ==
  /\ TokensTypeOK
  /\ \A t \in dead : token[t].state # "none"
  /\ ~ backwards => \A t \in dead : token[t].revoked \/ token[t].at <= subRevokedAt
=============================================================================
