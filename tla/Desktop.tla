------------------------------ MODULE Desktop -------------------------------
(***************************************************************************)
(* The desktop browser: the connection, the sing-box processes under it    *)
(* and the proxy of the session (desktop/src/main/controller.ts, core.ts,  *)
(* index.ts).                                                              *)
(*                                                                         *)
(* Everything runs on one event loop: a step goes from one await to the    *)
(* next.  Nothing keeps two operations apart: the window's connect button  *)
(* is disabled while the status is `starting', but its region list, its    *)
(* settings, the sign-out and the five-minute tick are not.                *)
(*                                                                         *)
(* A process may never open its port, and may exit at any time; that one   *)
(* which was killed no longer answers is assumed of sing-box.              *)
(***************************************************************************)
EXTENDS Naturals, Common

CONSTANTS
  Operations, \* calls of connect, disconnect, tick, setPrefs under way at once
  Processes,  \* sing-box processes alive at once
  Ports,      \* loopback ports
  MaxRestarts \* 5 in the code

ConnectionStatuses == {"off", "starting", "on", "degraded", "failed"}
\* `loading': up to the port picked; `checking': in core.start, up to its
\* check; `waiting': for the port; `applying': the proxy is set;
\* `clearing', `cleared': the core is stopped, the proxy unset; `stopped': the
\* core is stopped, to be started with other rules.
Stages ==
  {"loading", "checking", "waiting", "applying", "clearing", "cleared", "stopped"}
Connecting == {"loading", "checking", "waiting", "applying", "stopped"}

\* waiter: whose launch waits for the port of this process; backoff: it
\* exited, and is to be launched again after a delay.
ProcessRows ==
  [state : {"none", "running", "killed"}, port : Ports \cup {None},
   waiter : Operations \cup {"restart", None}, backoff : BOOLEAN]
NoProcess == [state |-> "none", port |-> None, waiter |-> None, backoff |-> FALSE]
OperationRows == [stage : Stages, ends : {"on", "off", "failed"}]

ASSUME DesktopAssumption ==
  /\ MaxRestarts \in Nat
  /\ None \notin Ports \cup Processes \cup Operations \cup OperationRows \cup {"restart"}
  /\ "restart" \notin Operations

VARIABLES
  status,    \* conn.status
  lastError, \* conn.lastError is there
  proxy,     \* of session.defaultSession: None is direct
  core,      \* the fields of Core: proc, port_, restarts, stopping
  process,
  operation, \* the stage of each and the status it ends in
  entangled  \* history: a stop and a connect were under way at once, or the core was
             \* stopped or started while a launch was still to come

desktopVars == <<status, lastError, proxy, core, process, operation, entangled>>

DesktopTypeOK ==
  /\ status \in ConnectionStatuses /\ lastError \in BOOLEAN
  /\ proxy \in Ports \cup {None}
  /\ core \in [proc : Processes \cup {None}, port : Ports \cup {None},
               restarts : 0..MaxRestarts, stopping : BOOLEAN]
  /\ process \in [Processes -> ProcessRows]
  /\ operation \in [Operations -> OperationRows \cup {None}]
  /\ entangled \in BOOLEAN

At(c, stages) == operation[c] # None /\ operation[c].stage \in stages
UnderWayAt(stages) == {c \in Operations : At(c, stages)}
Goes(c, stage) == operation' = [operation EXCEPT ![c].stage = stage]
Ends(c) == operation' = [operation EXCEPT ![c] = None]
Begins(c, stage, ends) ==
  /\ operation[c] = None
  /\ operation' = [operation EXCEPT ![c] = [stage |-> stage, ends |-> ends]]
Alive(p) == process[p].state # "none"
Waiting == {p \in Processes : process[p].waiter # None}
-----------------------------------------------------------------------------
(* Core: the processes.                                                     *)

\* core.stop, up to its first await.
Stop ==
  /\ core' = [core EXCEPT !.stopping = TRUE, !.proc = None, !.port = None]
  /\ process' = [p \in Processes |->
       IF p = core.proc /\ Alive(p) THEN [process[p] EXCEPT !.state = "killed"]
       ELSE process[p]]

\* launch, up to the wait: `rest' are the processes without the one that is
\* to be launched again.
launch(rest, port, waiter) ==
  \E p \in Processes :
    /\ rest[p] = NoProcess
    /\ process' = [rest EXCEPT
         ![p] = [NoProcess EXCEPT !.state = "running", !.port = port, !.waiter = waiter]]
    /\ core' = [core EXCEPT !.proc = p, !.port = port]

\* The port of the process answers, whoever answers there.
Started(p) ==
  LET w == process[p].waiter IN
  /\ w # None
  /\ \E q \in Processes :
       process[q].state = "running" /\ process[q].port = process[p].port
  /\ process[p].port # None
  /\ process' = [process EXCEPT ![p] = IF Alive(p) \/ @.backoff
                                       THEN [@ EXCEPT !.waiter = None] ELSE NoProcess]
  /\ status' = "on" /\ lastError' = FALSE
  /\ IF w \in Operations
       THEN Goes(w, "applying") /\ proxy' = process[p].port
       ELSE UNCHANGED <<operation, proxy>>
  /\ UNCHANGED <<core, entangled>>

\* It does not answer in time: the launch kills its process, and whatever
\* the core holds now is no longer held.
NotStarted(p) ==
  LET w == process[p].waiter IN
  /\ w # None
  /\ process' = [process EXCEPT
       ![p] = IF Alive(p) THEN [@ EXCEPT !.waiter = None, !.state = "killed"]
              ELSE IF @.backoff THEN [@ EXCEPT !.waiter = None] ELSE NoProcess]
  /\ core' = [core EXCEPT !.stopping = TRUE, !.proc = None]
  /\ status' = "failed" /\ lastError' = TRUE
  /\ IF w \in Operations THEN Ends(w) ELSE UNCHANGED operation
  /\ entangled' = (entangled \/ Waiting \ {p} # {})
  /\ UNCHANGED proxy

\* handleCoreEvent and onUnexpectedExit, up to the delay.
Exited(p, seen) ==
  LET again   == ~ core.stopping /\ core.restarts < MaxRestarts
      givenUp == ~ core.stopping /\ core.restarts >= MaxRestarts
  IN
  /\ Alive(p)
  /\ status' = IF givenUp THEN "failed" ELSE IF status = "on" THEN "degraded" ELSE status
  /\ lastError' = (lastError \/ givenUp \/ status = "on")
  /\ core' = [core EXCEPT !.proc = None, !.restarts = IF again THEN @ + 1 ELSE @]
  /\ process' = [process EXCEPT
       ![p] = IF again \/ @.waiter # None
              THEN [@ EXCEPT !.state = "none", !.backoff = again] ELSE NoProcess]
  /\ proxy' = seen
  /\ entangled' = (entangled \/ (~ core.stopping /\ core.proc # p))
  /\ UNCHANGED operation

\* Mutant: a core that stops takes the proxy with it.
onExit_Unproxied(p) == Exited(p, None)

onExit(p) == Exited(p, proxy)

\* The delay is over.
onUnexpectedExit(p) ==
  LET rest == [process EXCEPT
        ![p] = IF @.waiter = None THEN NoProcess ELSE [@ EXCEPT !.backoff = FALSE]]
  IN
  /\ process[p].backoff
  /\ IF core.stopping
       THEN process' = rest /\ UNCHANGED core
       ELSE launch(rest, core.port, "restart")
  /\ UNCHANGED <<status, lastError, proxy, operation, entangled>>
-----------------------------------------------------------------------------
(* Controller: connect, disconnect, tick, setPrefs.                         *)

Connect(c) ==
  /\ Begins(c, "loading", "on")
  /\ status' = "starting" /\ lastError' = FALSE
  /\ entangled' = (entangled \/ UnderWayAt({"clearing", "cleared", "stopped"}) # {})
  /\ UNCHANGED <<proxy, core, process>>

\* refreshSubscription fails: it reports no more than the error, to the tick,
\* the sign-in ...
refreshSubscription ==
  /\ lastError' = TRUE
  /\ UNCHANGED <<status, proxy, core, process, operation, entangled>>

\* ... or to a connect without a link at hand, which loadSubscription ends
\* there.
NoLink(c) ==
  /\ At(c, {"loading"})
  /\ lastError' = TRUE
  /\ Ends(c)
  /\ UNCHANGED <<status, proxy, core, process, entangled>>

\* Not signed in, a subscription that cannot be fetched or read, no quota left,
\* no port; or the check fails.
ConnectFails(c) ==
  /\ At(c, {"loading", "checking"})
  /\ status' = "failed" /\ lastError' = TRUE
  /\ Ends(c)
  /\ UNCHANGED <<proxy, core, process, entangled>>

\* core.start, up to its first await, and from its last.
StartCore(c) ==
  /\ At(c, {"loading"})
  /\ core' = [core EXCEPT !.stopping = FALSE, !.restarts = 0]
  /\ Goes(c, "checking")
  /\ entangled' = (entangled \/ Waiting # {} \/ \E p \in Processes : process[p].backoff)
  /\ UNCHANGED <<status, lastError, proxy, process>>

LaunchCore(c) ==
  /\ At(c, {"checking"})
  /\ \E port \in Ports :
       /\ \A p \in Processes : Alive(p) => process[p].port # port
       /\ launch(process, port, c)
  /\ Goes(c, "waiting")
  /\ UNCHANGED <<status, lastError, proxy, entangled>>

Connected(c) ==
  /\ At(c, {"applying"})
  /\ status' = "on" /\ lastError' = FALSE
  /\ Ends(c)
  /\ UNCHANGED <<proxy, core, process, entangled>>

\* The disconnect button and the sign-out, or the tick that finds the pass
\* used up or expired.
Disconnect(c, ends) ==
  /\ ends = "failed" => status = "on"
  /\ Begins(c, "clearing", ends)
  /\ Stop
  /\ entangled' = (entangled \/ UnderWayAt(Connecting) # {} \/ Waiting # {})
  /\ UNCHANGED <<status, lastError, proxy>>

ClearProxy(c) ==
  /\ At(c, {"clearing"})
  /\ proxy' = None
  /\ Goes(c, "cleared")
  /\ UNCHANGED <<status, lastError, core, process, entangled>>

Disconnected(c) ==
  /\ At(c, {"cleared"})
  /\ status' = operation[c].ends /\ lastError' = (operation[c].ends = "failed")
  /\ Ends(c)
  /\ UNCHANGED <<proxy, core, process, entangled>>

\* Other rules: the core is stopped and started with them.
SetPrefs(c) ==
  /\ status \in {"on", "degraded"}
  /\ Begins(c, "stopped", "on")
  /\ Stop
  /\ entangled' = (entangled \/ UnderWayAt(Stages) # {} \/ Waiting # {})
  /\ UNCHANGED <<status, lastError, proxy>>

Reconnect(c) ==
  /\ At(c, {"stopped"})
  /\ status' = "starting" /\ lastError' = FALSE
  /\ Goes(c, "loading")
  /\ UNCHANGED <<proxy, core, process, entangled>>
-----------------------------------------------------------------------------
DesktopInit ==
  /\ status = "off" /\ lastError = FALSE /\ proxy = None
  /\ core = [proc |-> None, port |-> None, restarts |-> 0, stopping |-> FALSE]
  /\ process = [p \in Processes |-> NoProcess]
  /\ operation = [c \in Operations |-> None]
  /\ entangled = FALSE

DesktopNext ==
  \/ \E c \in Operations :
       \/ Connect(c) \/ NoLink(c) \/ ConnectFails(c) \/ StartCore(c) \/ LaunchCore(c) \/ Connected(c)
       \/ Disconnect(c, "off") \/ Disconnect(c, "failed") \/ ClearProxy(c) \/ Disconnected(c)
       \/ SetPrefs(c) \/ Reconnect(c)
  \/ refreshSubscription
  \/ \E p \in Processes :
       Started(p) \/ NotStarted(p) \/ onExit(p) \/ onUnexpectedExit(p)

DesktopSpec == DesktopInit /\ [][DesktopNext]_desktopVars
-----------------------------------------------------------------------------
(* Properties                                                              *)

Quiet == \A c \in Operations : operation[c] = None

\* Once the operations have ended: the window stays at `starting' with an
\* error on record, that of a subscription that could not be had; and unless
\* operations or processes entangled, what it calls on or degraded goes through
\* the proxy, whatever the processes did, and what it calls off does not
\* (connect, disconnect, handleCoreEvent: a core that crashes takes nothing to a
\* direct connection).
ProxyAsShown ==
  Quiet =>
    /\ status = "starting" => lastError
    /\ ~ entangled =>
         /\ status \in {"on", "degraded"} => proxy # None
         /\ status = "off" => proxy = None

\* What controller.ts says of connect: whichever step fails, it ends in
\* `failed'.  Without a link it stays at `starting', with the button disabled.
ConnectEndsOnOrFailed == Quiet => status # "starting"

\* What core.ts says of Core.start: when it fails it leaves no process of its
\* own running.  It leaves the one onUnexpectedExit launched on its port.
FailedStartLeavesNone ==
  [][\A p, q \in Processes :
       /\ process[p].waiter \in Operations /\ process'[p].waiter = None
       /\ status' = "failed"
       /\ process'[q].port = process[p].port
       => process'[q].state # "running"]_desktopVars

(***************************************************************************)
(* The inductive invariant                                                 *)
(***************************************************************************)
\* A process of an operation keeps that operation, and no other, waiting.
WaitersWait ==
  \A p \in Processes : process[p].waiter \in Operations =>
    /\ At(process[p].waiter, {"waiting"})
    /\ \A q \in Processes : process[q].waiter = process[p].waiter => q = p

Served == proxy # None \/ \E p \in Processes : process[p].waiter \in Operations

\* While nothing is entangled, who stops is alone with the core stopped; and a
\* core that runs or is to run again has the proxy, or a launch that sets it.
KeptApart ==
  /\ UnderWayAt({"clearing", "cleared"}) # {} =>
       UnderWayAt(Connecting) = {} /\ Waiting = {} /\ core.stopping /\ core.proc = None
  /\ UnderWayAt({"cleared"}) # {} => proxy = None
  /\ UnderWayAt({"applying"}) # {} => proxy # None
  /\ core.proc # None => Served
  /\ \A p \in Processes : process[p].backoff => core.stopping \/ Served
  /\ \A p \in Processes : process[p].waiter = "restart" => Served
  /\ status \in {"on", "degraded"} => Served \/ UnderWayAt({"cleared"}) # {}
  /\ status = "off" => proxy = None

DesktopInv ==
  /\ DesktopTypeOK
  /\ \A c \in Operations : At(c, {"clearing", "cleared"}) => operation[c].ends # "on"
  /\ status = "starting" /\ ~ lastError =>
       UnderWayAt({"loading", "checking", "waiting", "applying"}) # {}
  /\ WaitersWait
  /\ ~ entangled => KeptApart
=============================================================================
