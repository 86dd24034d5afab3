----------------------------- MODULE ChainScan -----------------------------
(***************************************************************************)
(* How reports of the chain reach processDeposit: the chain-scan task      *)
(* (runChainScan), which goes over a batch of watched addresses every      *)
(* minute, and the user's recheck (rescanOrderAddress) of one address.     *)
(*                                                                         *)
(* Each address has a cursor, the block time of the newest transfer booked *)
(* on it; a scan asks for what is newer than the cursor less a look-back.  *)
(* Scans overlap: the cursor a scan starts from, and the report it works   *)
(* off, may both be stale when it moves the cursor. Each statement is a    *)
(* transaction of its own, and a scan may stop between any two of them.    *)
(* What a deposit does to the order is module Payments; here it is only    *)
(* the state of the payments row.                                          *)
(***************************************************************************)
EXTENDS Integers, FiniteSets

CONSTANTS
  Addresses, Transfers,
  Tasks,      \* runs of chain-scan that may overlap
  Rechecks,   \* requests of recheckOrderPayment that may
  AddrOf,     \* the address each transfer pays to
  Id,         \* pay_addresses.id, which orders addresses never scanned
  BatchSize,  \* chainScanBatchSize
  Lookback,   \* chainScanLookbackMS
  Delay,      \* the chain makes a block final within this time
  Lag,        \* and reports it within this one
  MaxBlacklisted, MaxTime

Workers == Tasks \cup Rechecks

\* A transfer is final by the time the look-back ends: without that the
\* revisit that promotes it need not come.
ASSUME ScanAssumption ==
  /\ Tasks \cap Rechecks = {}
  /\ AddrOf \in [Transfers -> Addresses]
  /\ Id \in [Addresses -> Nat]
  /\ \A a, b \in Addresses : Id[a] = Id[b] => a = b
  /\ BatchSize \in Nat \ {0}
  /\ Lookback \in Nat /\ Delay \in Nat /\ Lag \in Nat
  /\ Lag <= Delay /\ Delay <= Lookback
  /\ MaxBlacklisted \in Nat /\ MaxTime \in Nat

VARIABLES
  now,          \* the time, which block times are counted in
  chain,        \* the transfers
  row,          \* payments.state of each
  cursor,       \* pay_addresses.cursor_ts, 0 for NULL
  older,        \* <<a, b>>: a comes before b by last_scanned_at, id
  watched,      \* addresses whose order is open or whose watch goes on
  blacklisted,  \* pay_addresses.is_blacklisted
  worker        \* the scans under way

vars == <<now, chain, row, cursor, older, watched, blacklisted, worker>>
-----------------------------------------------------------------------------
States == {"absent", "confirming", "solidified", "orphaned"}
ItemType == [addr : Addresses, from : Nat, frozen : BOOLEAN]
ReportType == [t : Transfers, solid : BOOLEAN]

WorkerType ==
  [todo : SUBSET ItemType,        \* addresses still to be scanned
   at : SUBSET Addresses,         \* the one being scanned, if any
   batch : SUBSET ReportType,     \* its report, less what is dealt with
   newest : Nat, failed : BOOLEAN]

Idle == [todo |-> {}, at |-> {}, batch |-> {}, newest |-> 0, failed |-> FALSE]

Init ==
  /\ now = 0
  /\ chain = [t \in Transfers |-> [st |-> "absent", time |-> 0]]
  /\ row = [t \in Transfers |-> "none"]
  /\ cursor = [a \in Addresses |-> 0]
  /\ older = {p \in Addresses \X Addresses : Id[p[1]] < Id[p[2]]}
  /\ watched = Addresses
  /\ blacklisted = {}
  /\ worker = [w \in Workers |-> Idle]
-----------------------------------------------------------------------------
(* The chain and the clock.                                                *)

Database == <<row, cursor, older, watched, blacklisted, worker>>

\* A block becomes visible up to Lag after its block time.
Broadcast(t) ==
  /\ chain[t].st = "absent"
  /\ \E time \in 1 .. now :
       /\ now - time <= Lag
       /\ chain' = [chain EXCEPT ![t] = [st |-> "confirming", time |-> time]]
  /\ UNCHANGED <<now, Database>>

Finalise(t, st) ==
  /\ chain[t].st = "confirming"
  /\ chain' = [chain EXCEPT ![t].st = st]
  /\ UNCHANGED <<now, Database>>

Tick ==
  /\ now < MaxTime
  /\ \A t \in Transfers : chain[t].st = "confirming" => now - chain[t].time < Delay
  /\ now' = now + 1
  /\ UNCHANGED <<chain, Database>>

\* The order is settled and address_watch_until has passed.
StopWatching(a) ==
  /\ a \in watched
  /\ watched' = watched \ {a}
  /\ UNCHANGED <<now, chain, row, cursor, older, blacklisted, worker>>

\* Tether has frozen the address.
Blacklist(a) ==
  /\ a \notin blacklisted
  /\ Cardinality(blacklisted) < MaxBlacklisted
  /\ blacklisted' = blacklisted \cup {a}
  /\ UNCHANGED <<now, chain, row, cursor, older, watched, worker>>
-----------------------------------------------------------------------------
(* One scan.                                                               *)

lookbackCursor(c) == IF c > Lookback THEN c - Lookback ELSE 0

\* Mutant: the scan time is not written.
Touched_Not(a) == older

\* last_scanned_at = now(): a goes behind every other address.
Touched(a) ==
  {p \in older : p[1] # a} \cup {<<b, a>> : b \in Addresses \ {a}}

\* ListScannableChainAddresses: the BatchSize addresses scanned longest ago.
Batch ==
  {a \in watched : Cardinality({b \in watched : <<b, a>> \in older}) < BatchSize}

\* A row as it was read: the cursor and the flag may be stale when used.
Item(a) == [addr |-> a, from |-> lookbackCursor(cursor[a]), frozen |-> a \in blacklisted]

ListScannable(w) ==
  /\ worker[w].todo = {} /\ worker[w].at = {}
  /\ Batch # {}
  /\ worker' = [worker EXCEPT ![w].todo = {Item(a) : a \in Batch}]
  /\ UNCHANGED <<now, chain, row, cursor, older, watched, blacklisted>>

\* A recheck past its cool-down: the claim is itself a scan time.
TryClaimAddressScan(w, a) ==
  /\ worker[w].todo = {} /\ worker[w].at = {}
  /\ worker' = [worker EXCEPT ![w].todo = {Item(a)}]
  /\ older' = Touched(a)
  /\ UNCHANGED <<now, chain, row, cursor, watched, blacklisted>>

\* A frozen address, which the task passes over, or one that could not be
\* fetched: neither counts as scanned.
PassOver(w, x) ==
  /\ x \in worker[w].todo /\ worker[w].at = {}
  /\ worker' = [worker EXCEPT ![w].todo = @ \ {x}]
  /\ UNCHANGED <<now, chain, row, cursor, older, watched, blacklisted>>

Report(x) ==
  {r \in ReportType : /\ AddrOf[r.t] = x.addr
                      /\ chain[r.t].st \in {"confirming", "solidified"}
                      /\ r.solid = (chain[r.t].st = "solidified")
                      /\ chain[r.t].time >= x.from}

Scan(w, x) ==
  /\ x \in worker[w].todo /\ worker[w].at = {}
  /\ w \in Tasks => ~x.frozen
  /\ worker' = [worker EXCEPT ![w].todo = @ \ {x}, ![w].at = {x.addr},
                              ![w].batch = Report(x)]
  /\ UNCHANGED <<now, chain, row, cursor, older, watched, blacklisted>>

\* Mutant: a row that is there already is left as it is.
Deposit_NoPromotion(w, r) ==
  /\ r \in worker[w].batch
  /\ row' = [row EXCEPT ![r.t] =
       IF @ # "none" THEN @ ELSE IF r.solid THEN "paid" ELSE "confirming"]
  /\ worker' = [worker EXCEPT
       ![w].batch = @ \ {r},
       ![w].newest = IF chain[r.t].time > @ THEN chain[r.t].time ELSE @]
  /\ UNCHANGED <<now, chain, cursor, older, watched, blacklisted>>

\* Mutant: the row is overwritten with what the report says.
Deposit_Overwrites(w, r) ==
  /\ r \in worker[w].batch
  /\ row' = [row EXCEPT ![r.t] = IF r.solid THEN "paid" ELSE "confirming"]
  /\ worker' = [worker EXCEPT
       ![w].batch = @ \ {r},
       ![w].newest = IF chain[r.t].time > @ THEN chain[r.t].time ELSE @]
  /\ UNCHANGED <<now, chain, cursor, older, watched, blacklisted>>

\* processDeposit of one transfer: a first report inserts the row, a later
\* one that says "solidified" promotes it.
Deposit(w, r) ==
  /\ r \in worker[w].batch
  /\ row' = [row EXCEPT ![r.t] =
       IF r.solid THEN "paid" ELSE IF @ = "none" THEN "confirming" ELSE @]
  /\ worker' = [worker EXCEPT
       ![w].batch = @ \ {r},
       ![w].newest = IF chain[r.t].time > @ THEN chain[r.t].time ELSE @]
  /\ UNCHANGED <<now, chain, cursor, older, watched, blacklisted>>

\* Mutant: a failure only forgets the newest time seen so far.
DepositFails_ResetsNewest(w, r) ==
  /\ r \in worker[w].batch
  /\ worker' = [worker EXCEPT ![w].batch = @ \ {r}, ![w].newest = 0]
  /\ UNCHANGED <<now, chain, row, cursor, older, watched, blacklisted>>

\* The others of the report go on, and the cursor will stay where it is.
DepositFails(w, r) ==
  /\ r \in worker[w].batch
  /\ worker' = [worker EXCEPT ![w].batch = @ \ {r}, ![w].failed = TRUE]
  /\ UNCHANGED <<now, chain, row, cursor, older, watched, blacklisted>>

\* TouchPayAddressScan, and UpdatePayAddressCursor of a recheck, which has
\* no scan time of its own to write when the cursor stays.
Touch(w) ==
  \E a \in worker[w].at :
    LET moves == ~worker[w].failed /\ worker[w].newest > 0
    IN  /\ worker[w].batch = {}
        /\ cursor' = IF moves THEN [cursor EXCEPT ![a] = worker[w].newest] ELSE cursor
        /\ older' = IF w \in Tasks \/ moves THEN Touched(a) ELSE older
        /\ worker' = [worker EXCEPT ![w] = [Idle EXCEPT !.todo = worker[w].todo]]
        /\ UNCHANGED <<now, chain, row, watched, blacklisted>>

\* The process is stopped, wherever the scan is.
Crash(w) ==
  /\ worker[w] # Idle
  /\ worker' = [worker EXCEPT ![w] = Idle]
  /\ UNCHANGED <<now, chain, row, cursor, older, watched, blacklisted>>
-----------------------------------------------------------------------------
Step(w) ==
  \/ w \in Tasks /\ ListScannable(w)
  \/ \E x \in worker[w].todo : PassOver(w, x) \/ Scan(w, x)
  \/ \E r \in worker[w].batch : Deposit(w, r) \/ DepositFails(w, r)
  \/ Touch(w)

Next ==
  \/ \E t \in Transfers :
       Broadcast(t) \/ Finalise(t, "solidified") \/ Finalise(t, "orphaned")
  \/ Tick
  \/ \E a \in Addresses : StopWatching(a) \/ Blacklist(a)
  \/ \E w \in Rechecks, a \in Addresses : TryClaimAddressScan(w, a)
  \/ \E w \in Workers : Step(w) \/ Crash(w)

Spec == Init /\ [][Next]_vars

ScanOf(w, a) == \E x \in worker[w].todo : x.addr = a /\ Scan(w, x)

\* The scheduler starts the task again and again, and no fetch or deposit
\* fails every time; stops come to an end (a step of the scan that leaves it
\* idle, which Crash alone would explain too, is no stop).
Fairness ==
  /\ \A w \in Tasks :
       /\ WF_vars(Step(w))
       /\ \A a \in Addresses : SF_vars(ScanOf(w, a))
       /\ \A t \in Transfers : SF_vars(Deposit(w, [t |-> t, solid |-> TRUE]))
  /\ <>[][\A w \in Workers : Crash(w) => Step(w)]_vars

FairSpec == Spec /\ Fairness
-----------------------------------------------------------------------------
(* Properties.                                                             *)

TypeOK ==
  /\ now \in Nat
  /\ chain \in [Transfers -> [st : States, time : Nat]]
  /\ row \in [Transfers -> {"none", "confirming", "paid"}]
  /\ cursor \in [Addresses -> Nat]
  /\ older \in SUBSET (Addresses \X Addresses)
  /\ watched \in SUBSET Addresses /\ blacklisted \in SUBSET Addresses
  /\ worker \in [Workers -> WorkerType]

Alive(t) == chain[t].st \in {"confirming", "solidified"}

Covered(t, from) == Alive(t) /\ chain[t].time < from => row[t] = "paid"

\* No cursor leaves money behind: whatever the overlap of scans, failed
\* deposits and crashes, a transfer that the next scan of its address will
\* not ask for is booked as received.
NothingSkipped ==
  \A t \in Transfers :
    Covered(t, lookbackCursor(cursor[AddrOf[t]]))

\* A transfer that is final ends up booked as received, unless its address
\* is frozen or no longer watched.
SolidifiedBooked ==
  \A t \in Transfers :
    chain[t].st = "solidified" ~>
      row[t] = "paid" \/ AddrOf[t] \in blacklisted \/ AddrOf[t] \notin watched

\* "Addresses take turns by last_scanned_at, none starves": every watched
\* address that is not frozen is scanned again and again.
NoneStarves ==
  \A a \in Addresses :
    a \in watched ~> \/ \E w \in Workers : worker[w].at = {a}
                     \/ a \in blacklisted \/ a \notin watched
-----------------------------------------------------------------------------
(* The promise shared with Payments: Inbox, where nothing is vouched for.  *)

fate == [t \in Transfers |-> chain[t].st]

Bookings == INSTANCE Inbox

\* Scans that overlap, fail or are stopped, and process what they fetched long
\* ago, keep Inbox's promise: no transfer is booked as received before it is
\* final, and none that is booked is taken back (processDeposit).
KeepsInbox == Bookings!Spec

\* What its proof needs: a report that is still to be dealt with stays true.
ReportsTrue ==
  \A w \in Workers : \A r \in worker[w].batch :
    /\ chain[r.t].st # "absent"
    /\ r.solid => chain[r.t].st = "solidified"
-----------------------------------------------------------------------------
(* What the proof of NothingSkipped rests on.                              *)

\* Nothing is of the future, and a block is final within Delay.
Timely ==
  /\ \A t \in Transfers :
       /\ chain[t].time <= now
       /\ chain[t].st = "confirming" => now - chain[t].time <= Delay
  /\ \A a \in Addresses : cursor[a] <= now
  /\ \A w \in Workers :
       /\ worker[w].newest <= now
       /\ \A r \in worker[w].batch : chain[r.t].st # "absent"

\* What a scan will not ask for is booked, and was out of reach by then.
TodoCovered ==
  \A w \in Workers : \A x \in worker[w].todo :
    /\ x.from = 0 \/ x.from + Lookback <= now
    /\ \A t \in Transfers : AddrOf[t] = x.addr => Covered(t, x.from)

\* Where this scan may still put the cursor, t is not skipped.
Near(w, t) ==
  /\ worker[w].newest <= chain[t].time + Lookback
  /\ \A r \in worker[w].batch : chain[r.t].time <= chain[t].time + Lookback

BatchCovered ==
  \A w \in Workers : \A a \in worker[w].at : \A t \in Transfers :
    AddrOf[t] = a /\ Alive(t) =>
      \/ row[t] = "paid" \/ worker[w].failed
      \/ [t |-> t, solid |-> TRUE] \in worker[w].batch \/ Near(w, t)

ScanInv == TypeOK /\ Timely /\ NothingSkipped /\ TodoCovered /\ BatchCovered
=============================================================================
