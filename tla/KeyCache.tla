------------------------------ MODULE KeyCache ------------------------------
(***************************************************************************)
(* The caches of the keys that Google signs with: IAPKeySet, which the     *)
(* console's requests are checked against, and GoogleJWKS, which those of  *)
(* the scheduler are (middleware/admin.go, middleware/internal.go).  The   *)
(* two are one idea written twice; `cache' says which of them this is.     *)
(*                                                                         *)
(* A call that finds its key, or is held off by the throttle, changes      *)
(* nothing: what it would be told is Accepts and Refuses.  A call that     *)
(* fetches holds the mutex until the fetch has ended, and counts the age   *)
(* of what it got from when it began.                                      *)
(***************************************************************************)
EXTENDS Integers, Sequences, Common

CONSTANTS
  Kids,
  Refetch,      \* jwksRefetchInterval, minRefetch
  Ttls,         \* how long what was fetched is fresh
  FetchTimeout, \* of the http.Client, which both give up after
  LastClock     \* bound on the clock

ASSUME KeyCacheAssumption ==
  /\ None \notin Kids
  /\ Refetch \in Nat \ {0} /\ FetchTimeout \in Nat /\ LastClock \in Nat
  /\ Ttls \subseteq Nat /\ Ttls # {}
  \* the smallest, googleJWKSMinTTL, is five minutes, the fetch five seconds
  /\ \A t \in Ttls : Refetch + FetchTimeout <= t

LongAgo == -Refetch
Times == LongAgo .. LastClock

VARIABLES
  cache,
  keys,      \* the kids of the keys it holds
  expires,   \* when they stop being fresh
  lastFetch, \* when the last attempt began
  lastMiss,  \* when the last attempt for an unknown kid of a fresh IAPKeySet began
  fetching,  \* the kid whose call holds the mutex and fetches
  clock,
  published, \* per kid, what Google does with its key: unknown, signing, gone
  since,     \* per kid, since when
  failed,    \* history: the last attempt failed
  tries      \* history: when the last three attempts began

keyVars ==
  <<cache, keys, expires, lastFetch, lastMiss, fetching, clock, published, since, failed, tries>>

KeysTypeOK ==
  /\ cache \in {"IAPKeySet", "GoogleJWKS"}
  /\ keys \subseteq Kids
  /\ expires \in Int
  /\ lastFetch \in Times /\ lastMiss \in Times /\ clock \in Times
  /\ fetching \in Kids \cup {None}
  /\ published \in [Kids -> {"unknown", "signing", "gone"}]
  /\ since \in [Kids -> Times]
  /\ failed \in BOOLEAN
  /\ tries \in Seq(Times) /\ Len(tries) <= 3

(***************************************************************************)
(* PublicKey and KeyFor                                                    *)
(***************************************************************************)
Fresh == clock < expires \/ (cache = "IAPKeySet" /\ clock = expires)

\* A fresh IAPKeySet asks when the last unknown kid was looked for, everyone
\* else when anything was.
Throttled ==
  IF cache = "IAPKeySet" /\ Fresh THEN clock - lastMiss < Refetch
  ELSE clock - lastFetch < Refetch

Accepts(k) == k \in keys /\ (Fresh \/ Throttled)
Refuses(k) == k \notin keys /\ Throttled

FetchBegins(k) ==
  /\ fetching = None
  /\ ~ Accepts(k) /\ ~ Refuses(k)
  /\ fetching' = k
  /\ lastFetch' = clock
  /\ lastMiss' = IF cache = "IAPKeySet" /\ Fresh THEN clock ELSE lastMiss
  /\ tries' = IF Len(tries) < 3 THEN Append(tries, clock) ELSE Append(Tail(tries), clock)
  /\ UNCHANGED <<cache, keys, expires, clock, published, since, failed>>

\* The set is there; one without a usable key is an error.
KeysFetched(ttl) ==
  LET served == {k \in Kids : published[k] = "signing"} IN
  /\ fetching # None
  /\ served # {}
  /\ keys' = served
  /\ expires' = lastFetch + ttl
  /\ failed' = FALSE
  /\ fetching' = None
  /\ UNCHANGED <<cache, lastFetch, lastMiss, clock, published, since, tries>>

\* Mutant: what is held counts as fetched although the fetch failed.
FetchFails_Renews ==
  /\ fetching # None
  /\ \E ttl \in Ttls : expires' = lastFetch + ttl
  /\ failed' = TRUE
  /\ fetching' = None
  /\ UNCHANGED <<cache, keys, lastFetch, lastMiss, clock, published, since, tries>>

\* What is held stays, and answers for itself until the next attempt.
FetchFails ==
  /\ fetching # None
  /\ failed' = TRUE
  /\ fetching' = None
  /\ UNCHANGED <<cache, keys, expires, lastFetch, lastMiss, clock, published, since, tries>>

(***************************************************************************)
(* Google, the clock                                                       *)
(***************************************************************************)
Rotate(k) ==
  /\ published[k] # "gone"
  /\ published' = [published EXCEPT ![k] = IF @ = "unknown" THEN "signing" ELSE "gone"]
  /\ since' = [since EXCEPT ![k] = clock]
  /\ UNCHANGED <<cache, keys, expires, lastFetch, lastMiss, fetching, clock, failed, tries>>

TimePasses ==
  /\ clock < LastClock
  /\ fetching # None => clock < lastFetch + FetchTimeout
  /\ clock' = clock + 1
  /\ UNCHANGED <<cache, keys, expires, lastFetch, lastMiss, fetching, published, since, failed, tries>>

KeysInit ==
  /\ cache \in {"IAPKeySet", "GoogleJWKS"}
  /\ keys = {} /\ expires = LongAgo /\ lastFetch = LongAgo /\ lastMiss = LongAgo
  /\ fetching = None /\ clock = 0
  /\ published = [k \in Kids |-> "unknown"] /\ since = [k \in Kids |-> LongAgo]
  /\ failed = FALSE /\ tries = <<>>

KeysNext ==
  \/ \E k \in Kids : FetchBegins(k) \/ Rotate(k)
  \/ \E ttl \in Ttls : KeysFetched(ttl)
  \/ FetchFails \/ TimePasses

KeysSpec == KeysInit /\ [][KeysNext]_keyVars

(***************************************************************************)
(* Properties                                                              *)
(***************************************************************************)
\* The last attempt failed, and the next one has to wait.
Excused == failed /\ clock - lastFetch < Refetch

\* The caches follow Google's keys, whatever kids they are asked for: a key it
\* signs with is refused no longer than the throttle lasts, one it gave up is
\* accepted no longer than a fetched set is fresh, or, in both cases, for one
\* throttle more after each attempt that failed; and it is asked no more than
\* once in that time by GoogleJWKS and twice by IAPKeySet, which counts an
\* attempt for an expired set and one for an unknown kid each by itself.
KeysFollow ==
  /\ fetching = None =>
       \A k \in Kids :
         /\ (published[k] = "signing" /\ Refuses(k)) => clock - since[k] < Refetch \/ Excused
         /\ (published[k] = "gone" /\ Accepts(k)) =>
              (\E ttl \in Ttls : clock - since[k] <= ttl) \/ Excused
  /\ \A i, j \in DOMAIN tries :
       j - i = (IF cache = "IAPKeySet" THEN 2 ELSE 1) => tries[j] - tries[i] >= Refetch

(***************************************************************************)
(* The inductive invariant                                                 *)
(***************************************************************************)
\* Attempts keep their distance: each one of GoogleJWKS from the one before;
\* of IAPKeySet the last two, unless the last was for an unknown kid.
Spaced ==
  /\ tries # <<>> => tries[Len(tries)] = lastFetch
  /\ \A i \in 1..(Len(tries) - 1) : tries[i] <= tries[i + 1]
  /\ Len(tries) >= 2 =>
       \/ tries[Len(tries)] - tries[Len(tries) - 1] >= Refetch
       \/ cache = "IAPKeySet" /\ lastMiss = lastFetch
  /\ \A i, j \in DOMAIN tries :
       j - i = (IF cache = "IAPKeySet" THEN 2 ELSE 1) => tries[j] - tries[i] >= Refetch

\* What is held was fetched, by an attempt that began a ttl before it expires,
\* the last one unless that failed; a key given up was given up since.
HeldAsFetched ==
  keys # {} => \E ttl \in Ttls :
    /\ expires - ttl <= lastFetch
    /\ (fetching = None /\ ~ failed) => expires - ttl = lastFetch
    /\ \A k \in keys : published[k] = "gone" => since[k] >= expires - ttl

\* A key that the last attempt did not find is younger than it.
MissedAreNew ==
  (fetching = None /\ ~ failed) =>
    \A k \in Kids \ keys : published[k] = "signing" => since[k] >= lastFetch

KeysInv ==
  /\ KeysTypeOK
  /\ lastMiss <= lastFetch /\ lastFetch <= clock /\ 0 <= clock
  /\ Spaced /\ HeldAsFetched /\ MissedAreNew
=============================================================================
