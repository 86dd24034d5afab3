----------------------------- MODULE Extension ------------------------------
(***************************************************************************)
(* The browser extension: the connection its popup shows and the proxy     *)
(* setting of the browser (web/extension/src/background: controller.ts,    *)
(* probe.ts, proxy.ts).                                                    *)
(*                                                                         *)
(* A step of a job goes from one await to the next.  The browser does what *)
(* is asked of its proxy setting in the order it is asked, and answers in  *)
(* that order.  The service worker may be stopped at any time; it starts   *)
(* again from what emit() saved, and the proxy setting stays as it is.     *)
(* Endpoints, their credentials and the fetched configuration are left     *)
(* out: a fetch, and a probe, succeeds or fails.                           *)
(***************************************************************************)
EXTENDS Sequences, Common

CONSTANT Jobs \* calls of handle, handleAlarm and onAuthRejected at once

Links == {"off", "connecting", "on", "no-route"}
\* connect: `announcing', `preparing', `probing', `routing'; fail: `failing';
\* disconnect: `clearing'; signOut: `logout', `leaving', `forgetting';
\* onAuthFailure: `dropping', `forgetting'; the alarms: `configuring', `counting';
\* refreshAll: `refreshing'; reapplyPac: `reapplying'; onAuthRejected: `rejecting';
\* emit: `saving'.
Awaits ==
  {"announcing", "preparing", "probing", "routing", "failing", "clearing", "logout",
   "leaving", "dropping", "forgetting", "configuring", "counting", "refreshing", "reapplying",
   "rejecting", "saving"}
ConnectAwaits == {"announcing", "preparing", "probing", "routing"}
JobRows == [at : Awaits \cup {"idle"}, aborted : BOOLEAN]
Idle == [at |-> "idle", aborted |-> FALSE]

ASSUME ExtensionAssumption == None \notin Jobs

VARIABLES
  link,     \* connection.status
  pac,      \* the proxy setting: that of a probe, of a connection, or none
  foreign,  \* another extension has the setting
  signedIn, \* there is a token, kept in local storage
  job,
  line,     \* the jobs that await an answer of chrome.proxy, in its order
  aborter,  \* connectAbort: the connect it would abort
  kept,     \* connection.status in local storage
  awake,    \* the service worker runs
  mingled   \* history: two jobs were at the proxy setting at once, a connect
            \* outlived the sign-out, or a foreign setting hid ours

extensionVars ==
  <<link, pac, foreign, signedIn, job, line, aborter, kept, awake, mingled>>

ExtensionTypeOK ==
  /\ link \in Links /\ kept \in Links
  /\ pac \in {"none", "probe", "route"}
  /\ foreign \in BOOLEAN /\ signedIn \in BOOLEAN /\ awake \in BOOLEAN /\ mingled \in BOOLEAN
  /\ job \in [Jobs -> JobRows]
  /\ line \in Seq(Jobs)
  /\ aborter \in Jobs \cup {None}

(***************************************************************************)
(* Jobs and the proxy setting                                              *)
(***************************************************************************)
Aborted(jobs) ==
  IF aborter = None THEN jobs
  ELSE [jobs EXCEPT ![aborter].aborted = (@ \/ jobs[aborter].at # "idle")]

\* The jobs that changed the proxy setting and have not written what they made
\* of it; and the connects that are still to change it.
Changing(jobs) ==
  {j \in Jobs : jobs[j].at \in {"routing", "failing", "clearing", "leaving", "dropping",
                               "forgetting", "reapplying", "rejecting"}}
AtSetting(jobs) ==
  Changing(jobs) \cup {j \in Jobs : jobs[j].at \in ConnectAwaits /\ ~ jobs[j].aborted}

\* j asks for a setting, having brought the jobs to `jobs', and awaits the
\* answer; others are at the setting.
Asks(j, jobs, others, setting, at) ==
  /\ pac' = setting
  /\ job' = [jobs EXCEPT ![j].at = at]
  /\ line' = Append(line, j)
  /\ mingled' = (mingled \/ others \ {j} # {})

Answers(j) == line # <<>> /\ Head(line) = j /\ line' = Tail(line)

Moves(j, at) == job' = [job EXCEPT ![j].at = at]

Starts(j) == awake /\ job[j].at = "idle"

(***************************************************************************)
(* connect                                                                 *)
(***************************************************************************)
\* connect, of the popup or of onStartup: up to the emit that saves
\* `connecting'.
ConnectStarts(j) ==
  /\ Starts(j) /\ signedIn
  /\ job' = [Aborted(job) EXCEPT ![j].at = "announcing"]
  /\ aborter' = j
  /\ link' = "connecting"
  /\ mingled' = (mingled \/ Changing(job) # {} \/ \E k \in Jobs : job[k].at = "logout")
  /\ UNCHANGED <<pac, foreign, signedIn, line, kept, awake>>

\* Only then is the configuration fetched and the setting looked at.
ConnectAnnounced(j) ==
  /\ job[j].at = "announcing"
  /\ kept' = link
  /\ Moves(j, "preparing")
  /\ UNCHANGED <<link, pac, foreign, signedIn, line, aborter, awake, mingled>>

\* The configuration is there and the setting is ours to change; each endpoint
\* with a probe_url is set alone and fetched through, until the job is aborted.
ProbeEndpoint(j) ==
  /\ job[j].at \in {"preparing", "probing"}
  /\ ~ foreign /\ ~ job[j].aborted
  /\ pac' = "probe"
  /\ Moves(j, "probing")
  /\ mingled' = (mingled \/ AtSetting(job) \ {j} # {})
  /\ UNCHANGED <<link, foreign, signedIn, line, aborter, kept, awake>>

\* The cancel, disconnect, sign-out or connect that aborted it takes care of
\* what is shown.
ConnectAborted(j) ==
  /\ job[j].at \in {"preparing", "probing"}
  /\ job[j].aborted
  /\ job' = [job EXCEPT ![j] = Idle]
  /\ UNCHANGED <<link, pac, foreign, signedIn, line, aborter, kept, awake, mingled>>

\* Some endpoint answered, or none has a probe_url.
ConnectRoutes(j) ==
  /\ job[j].at \in {"preparing", "probing"}
  /\ job[j].at = "preparing" => ~ foreign
  /\ ~ job[j].aborted
  /\ Asks(j, job, AtSetting(job), "route", "routing")
  /\ UNCHANGED <<link, foreign, signedIn, aborter, kept, awake>>

ConnectSucceeds(j) ==
  /\ job[j].at = "routing" /\ Answers(j)
  /\ link' = "on"
  /\ aborter' = None
  /\ Moves(j, "saving")
  /\ UNCHANGED <<pac, foreign, signedIn, kept, awake, mingled>>

\* fail: no configuration, no say over the setting, no endpoint, or none that
\* answers.  What comes before the probes does not look at the abort.
NoRoute(j) ==
  /\ \/ job[j].at = "preparing"
     \/ job[j].at = "probing" /\ ~ job[j].aborted
  /\ Asks(j, job, AtSetting(job), "none", "failing")
  /\ UNCHANGED <<link, foreign, signedIn, aborter, kept, awake>>

Unrouted(j) ==
  /\ job[j].at \in {"failing", "rejecting"} /\ Answers(j)
  /\ link' = "no-route"
  /\ Moves(j, "saving")
  /\ UNCHANGED <<pac, foreign, signedIn, aborter, kept, awake, mingled>>

\* emit, at the end of every job.
Emit(j) ==
  /\ job[j].at = "saving"
  /\ kept' = link
  /\ job' = [job EXCEPT ![j] = Idle]
  /\ UNCHANGED <<link, pac, foreign, signedIn, line, aborter, awake, mingled>>

(***************************************************************************)
(* disconnect, signOut, onAuthFailure, onAuthRejected                      *)
(***************************************************************************)
\* Mutant: a cancel leaves the probes running.
DisconnectStarts_Unaborted(j) ==
  /\ Starts(j) \/ (job[j].at = "counting" /\ link = "on")
  /\ aborter' = None
  /\ Asks(j, job, Changing(job), "none", "clearing")
  /\ UNCHANGED <<link, foreign, signedIn, kept, awake>>

\* disconnect, by the popup (also to cancel) or when the alarm finds the quota
\* used up.
DisconnectStarts(j) ==
  /\ Starts(j) \/ (job[j].at = "counting" /\ link = "on")
  /\ aborter' = None
  /\ Asks(j, Aborted(job), Changing(job), "none", "clearing")
  /\ UNCHANGED <<link, foreign, signedIn, kept, awake>>

DisconnectEnds(j) ==
  /\ job[j].at = "clearing" /\ Answers(j)
  /\ link' = "off"
  /\ Moves(j, "saving")
  /\ UNCHANGED <<pac, foreign, signedIn, aborter, kept, awake, mingled>>

SignOutStarts(j) ==
  /\ Starts(j)
  /\ job' = [Aborted(job) EXCEPT ![j].at = "logout"]
  /\ UNCHANGED <<link, pac, foreign, signedIn, line, aborter, kept, awake, mingled>>

\* /auth/logout has answered, or failed.
SignOutClears(j) ==
  /\ job[j].at = "logout"
  /\ Asks(j, job, AtSetting(job), "none", "leaving")
  /\ UNCHANGED <<link, foreign, signedIn, aborter, kept, awake>>

\* The token goes, the credentials and alarms are being removed.
SignedOut(j) ==
  /\ job[j].at = "leaving" /\ Answers(j)
  /\ signedIn' = FALSE
  /\ Moves(j, "forgetting")
  /\ UNCHANGED <<link, pac, foreign, aborter, kept, awake, mingled>>

\* After onAuthFailure.
Dropped(j) ==
  /\ job[j].at = "dropping" /\ Answers(j)
  /\ Moves(j, "forgetting")
  /\ UNCHANGED <<link, pac, foreign, signedIn, aborter, kept, awake, mingled>>

Forgotten(j) ==
  /\ job[j].at = "forgetting"
  /\ link' = "off"
  /\ Moves(j, "saving")
  /\ UNCHANGED <<pac, foreign, signedIn, line, aborter, kept, awake, mingled>>

\* A fetch of j is answered 401: the token goes at once, k clears the setting,
\* and j goes on as after any failure.
onAuthFailure(j, k) ==
  LET after == [preparing |-> "failing", logout |-> "leaving", configuring |-> "saving",
                counting |-> "counting", refreshing |-> "refreshing"]
  IN
  /\ job[j].at \in DOMAIN after /\ signedIn
  /\ job[k].at = "idle"
  /\ signedIn' = FALSE
  /\ pac' = "none"
  /\ job' = [job EXCEPT ![j].at = after[@], ![k].at = "dropping"]
  /\ line' = line \o <<k>> \o (IF job[j].at \in {"preparing", "logout"} THEN <<j>> ELSE <<>>)
  /\ mingled' = (mingled \/ AtSetting(job) \ {j} # {})
  /\ UNCHANGED <<link, foreign, aborter, kept, awake>>

\* The endpoint refused the credentials a third time.
onAuthRejected(j) ==
  /\ Starts(j)
  /\ link = "on"
  /\ Asks(j, job, AtSetting(job), "none", "rejecting")
  /\ UNCHANGED <<link, foreign, signedIn, aborter, kept, awake>>

(***************************************************************************)
(* signIn, the alarms, setPrefs                                            *)
(***************************************************************************)
SignIn(j) ==
  /\ Starts(j) /\ ~ signedIn
  /\ signedIn' = TRUE
  /\ Moves(j, "refreshing")
  /\ UNCHANGED <<link, pac, foreign, line, aborter, kept, awake, mingled>>

\* An alarm, or refresh of the popup.
Fetches(j, at) ==
  /\ Starts(j) /\ signedIn
  /\ Moves(j, at)
  /\ UNCHANGED <<link, pac, foreign, signedIn, line, aborter, kept, awake, mingled>>

\* What was fetched asks for nothing.
Fetched(j) ==
  /\ job[j].at \in {"configuring", "counting", "refreshing"}
  /\ Moves(j, "saving")
  /\ UNCHANGED <<link, pac, foreign, signedIn, line, aborter, kept, awake, mingled>>

\* setPrefs with other rules, or a fetched configuration, while connected; none
\* of the endpoints may be left.
reapplyPac(j) ==
  /\ Starts(j) \/ job[j].at = "configuring"
  /\ link = "on"
  /\ \/ Asks(j, job, AtSetting(job), "route", "reapplying")
     \/ Asks(j, job, AtSetting(job), "none", "failing")
  /\ UNCHANGED <<link, foreign, signedIn, aborter, kept, awake>>

Reapplied(j) ==
  /\ job[j].at = "reapplying" /\ Answers(j)
  /\ Moves(j, "saving")
  /\ UNCHANGED <<link, pac, foreign, signedIn, aborter, kept, awake, mingled>>

(***************************************************************************)
(* The browser                                                             *)
(***************************************************************************)
WorkerStops ==
  /\ awake
  /\ awake' = FALSE
  /\ job' = [j \in Jobs |-> Idle]
  /\ line' = <<>>
  /\ aborter' = None
  /\ UNCHANGED <<link, pac, foreign, signedIn, kept, mingled>>

\* load: what was cut off while it connected is cleared, and what another
\* extension has taken is not called on, though it is left in place.
load ==
  /\ ~ awake
  /\ awake' = TRUE
  /\ link' = IF kept = "connecting" \/ (kept = "on" /\ (pac = "none" \/ foreign)) THEN "off"
             ELSE kept
  /\ pac' = IF kept = "connecting" THEN "none" ELSE pac
  /\ kept' = link'
  /\ mingled' = (mingled \/ (kept = "on" /\ foreign))
  /\ UNCHANGED <<foreign, signedIn, job, line, aborter>>

OtherExtension ==
  /\ foreign' = ~ foreign
  /\ UNCHANGED <<link, pac, signedIn, job, line, aborter, kept, awake, mingled>>

ExtensionInit ==
  /\ link = "off" /\ kept = "off" /\ pac = "none"
  /\ foreign = FALSE /\ signedIn = FALSE
  /\ job = [j \in Jobs |-> Idle] /\ line = <<>> /\ aborter = None
  /\ awake = TRUE /\ mingled = FALSE

ExtensionNext ==
  \/ \E j \in Jobs :
       \/ ConnectStarts(j) \/ ConnectAnnounced(j) \/ ProbeEndpoint(j) \/ ConnectAborted(j)
       \/ ConnectRoutes(j) \/ ConnectSucceeds(j) \/ NoRoute(j) \/ Unrouted(j) \/ Emit(j)
       \/ DisconnectStarts(j) \/ DisconnectEnds(j)
       \/ SignOutStarts(j) \/ SignOutClears(j) \/ SignedOut(j) \/ Dropped(j) \/ Forgotten(j)
       \/ \E k \in Jobs \ {j} : onAuthFailure(j, k)
       \/ onAuthRejected(j) \/ SignIn(j)
       \/ \E at \in {"configuring", "counting", "refreshing"} : Fetches(j, at)
       \/ Fetched(j) \/ reapplyPac(j) \/ Reapplied(j)
  \/ WorkerStops \/ load \/ OtherExtension

ExtensionSpec == ExtensionInit /\ [][ExtensionNext]_extensionVars

(***************************************************************************)
(* Properties                                                              *)
(***************************************************************************)
\* Once its jobs have ended, and however often the service worker was stopped
\* in the middle of them, the popup tells the truth: on means that the browser
\* is set to our endpoints, off and no-route that it is not, connecting does
\* not stay, and who is signed out has no setting of ours; unless two jobs
\* were at the proxy setting at once, a connect outlived the sign-out, or
\* another extension hid the setting (the rules at the head of controller.ts).
ExtensionTruthful ==
  (awake /\ \A j \in Jobs : job[j].at = "idle") =>
    \/ mingled
    \/ /\ link # "connecting"
       /\ pac = IF link = "on" THEN "route" ELSE "none"
       /\ signedIn \/ pac = "none"

(***************************************************************************)
(* The inductive invariant                                                 *)
(***************************************************************************)
GoesOn(j) == job[j].at \in ConnectAwaits /\ ~ job[j].aborted
SetsUp(j) == job[j].at \in {"routing", "reapplying"}
TakesDown(j) ==
  job[j].at \in {"failing", "clearing", "leaving", "dropping", "forgetting", "rejecting"}

\* While nothing has mingled: one connect goes on at the most, and only when no
\* one else is at the setting; who takes the setting down, or sets it up, finds
\* it so; and the setting and both copies of the status fit each other at every
\* await, so that the worker may be stopped there.
JobsApart ==
  /\ \A j \in Jobs : GoesOn(j) =>
       /\ j = aborter /\ link = "connecting" /\ signedIn
       /\ job[j].at # "announcing" => kept = "connecting"
  /\ \A j \in Jobs : TakesDown(j) =>
       pac = "none" /\ \A k \in Jobs : ~ GoesOn(k) /\ ~ SetsUp(k)
  /\ \A j \in Jobs : SetsUp(j) =>
       /\ pac = "route"
       /\ \A k \in Jobs \ {j} : ~ GoesOn(k) /\ ~ SetsUp(k)
       /\ job[j].at = "routing" => link = "connecting" /\ kept = "connecting"
  /\ awake /\ link = "on" => pac = "route" \/ \E j \in Jobs : TakesDown(j)
  /\ awake /\ link = "connecting" =>
       \E j \in Jobs : GoesOn(j) \/ TakesDown(j) \/ job[j].at \in {"routing", "logout"}
  /\ link \in {"off", "no-route"} => pac = "none"
  /\ kept \in {"off", "no-route"} => pac = "none"
  /\ pac = "probe" => link = "connecting" /\ kept = "connecting"
  /\ signedIn \/ pac = "none"

ExtensionInv ==
  /\ ExtensionTypeOK
  /\ \A j \in Jobs : job[j].at = "idle" => ~ job[j].aborted
  /\ ~ awake => \A j \in Jobs : job[j].at = "idle"
  /\ ~ mingled => JobsApart
=============================================================================
