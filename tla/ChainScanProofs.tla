-------------------------- MODULE ChainScanProofs --------------------------
(***************************************************************************)
(* Theorems about ChainScan, for every value of its constants.             *)
(***************************************************************************)
EXTENDS ChainScan, TLAPS

USE ScanAssumption

-----------------------------------------------------------------------------
(* Types.                                                                  *)

\* A scan never asks for a block time below zero.
LEMMA CursorNat ==
  ASSUME NEW c \in Nat
  PROVE  lookbackCursor(c) \in Nat
BY DEF lookbackCursor

\* What is fetched begins at a block.
LEMMA ItemNat ==
  ASSUME TypeOK, NEW a \in Addresses
  PROVE  Item(a) \in ItemType
<1>1. cursor[a] \in Nat
  BY DEF TypeOK
<1>2. lookbackCursor(cursor[a]) \in Nat
  BY <1>1, CursorNat
<1> QED
  BY <1>2 DEF Item, ItemType

\* A worker that is idle has a row.
LEMMA IdleType == Idle \in WorkerType
BY DEF Idle, WorkerType

\* The first state has the types.
LEMMA TypeInit == Init => TypeOK
BY IdleType DEF Init, TypeOK, States

\* A step of one worker keeps the types.
LEMMA TypeStep ==
  ASSUME TypeOK, NEW w \in Workers, Step(w)
  PROVE  TypeOK'
<1> USE DEF TypeOK
<1>0. worker[w] \in WorkerType
  OBVIOUS
<1>1. CASE ListScannable(w)
  <2>1. {Item(a) : a \in Batch} \in SUBSET ItemType
    <3>1. Batch \subseteq Addresses
      BY DEF Batch
    <3>2. \A a \in Batch : Item(a) \in ItemType
      BY <3>1, ItemNat
    <3> QED
      BY <3>2
  <2>2. [worker[w] EXCEPT !.todo = {Item(a) : a \in Batch}] \in WorkerType
    BY <1>0, <2>1 DEF WorkerType
  <2> QED
    BY <1>1, <2>2 DEF ListScannable
<1>2. ASSUME NEW x \in worker[w].todo, PassOver(w, x)
      PROVE  TypeOK'
  <2>1. [worker[w] EXCEPT !.todo = @ \ {x}] \in WorkerType
    BY <1>0 DEF WorkerType
  <2> QED
    BY <1>2, <2>1 DEF PassOver
<1>3. ASSUME NEW x \in worker[w].todo, Scan(w, x)
      PROVE  TypeOK'
  <2>1. x \in ItemType
    BY <1>0 DEF WorkerType
  <2>2. [worker[w] EXCEPT !.todo = @ \ {x}, !.at = {x.addr}, !.batch = Report(x)]
          \in WorkerType
    BY <1>0, <2>1 DEF WorkerType, ItemType, Report
  <2> QED
    BY <1>3, <2>2 DEF Scan
<1>4. ASSUME NEW r \in worker[w].batch, Deposit(w, r)
      PROVE  TypeOK'
  <2>1. r \in ReportType /\ r.t \in Transfers
    BY <1>0 DEF WorkerType, ReportType
  <2>0. chain[r.t].time \in Nat
    BY <2>1
  <2>2. [worker[w] EXCEPT !.batch = @ \ {r},
           !.newest = IF chain[r.t].time > @ THEN chain[r.t].time ELSE @] \in WorkerType
    BY <1>0, <2>0 DEF WorkerType
  <2>3. row' \in [Transfers -> {"none", "confirming", "paid"}]
    BY <1>4, <2>1 DEF Deposit
  <2> QED
    BY <1>4, <2>2, <2>3 DEF Deposit
<1>5. ASSUME NEW r \in worker[w].batch, DepositFails(w, r)
      PROVE  TypeOK'
  <2>1. [worker[w] EXCEPT !.batch = @ \ {r}, !.failed = TRUE] \in WorkerType
    BY <1>0 DEF WorkerType
  <2> QED
    BY <1>5, <2>1 DEF DepositFails
<1>6. CASE Touch(w)
  <2>1. PICK a \in worker[w].at : Touch(w)!(a)
    BY <1>6 DEF Touch
  <2>2. a \in Addresses
    BY <1>0 DEF WorkerType
  <2>3. [Idle EXCEPT !.todo = worker[w].todo] \in WorkerType
    BY <1>0 DEF WorkerType, Idle
  <2>4. worker[w].newest \in Nat
    BY <1>0 DEF WorkerType
  <2> QED
    BY <2>1, <2>2, <2>3, <2>4 DEF Touched
<1> QED
  BY <1>1, <1>2, <1>3, <1>4, <1>5, <1>6 DEF Step

\* Every step keeps the types.
LEMMA TypeNext == TypeOK /\ [Next]_vars => TypeOK'
<1> SUFFICES ASSUME TypeOK, [Next]_vars
             PROVE  TypeOK'
  OBVIOUS
<1> USE DEF TypeOK
<1>1. ASSUME NEW t \in Transfers, Broadcast(t)
      PROVE  TypeOK'
  BY <1>1 DEF Broadcast, Database, States
<1>2. ASSUME NEW t \in Transfers, NEW st \in {"solidified", "orphaned"}, Finalise(t, st)
      PROVE  TypeOK'
  BY <1>2 DEF Finalise, Database, States
<1>3. CASE Tick
  BY <1>3 DEF Tick, Database
<1>4. ASSUME NEW a \in Addresses, StopWatching(a) \/ Blacklist(a)
      PROVE  TypeOK'
  BY <1>4 DEF StopWatching, Blacklist
<1>5. ASSUME NEW w \in Rechecks, NEW a \in Addresses, TryClaimAddressScan(w, a)
      PROVE  TypeOK'
  <2>1. w \in Workers
    BY DEF Workers
  <2>2. {Item(a)} \in SUBSET ItemType
    BY ItemNat
  <2>0. worker[w] \in WorkerType
    BY <2>1
  <2>3. [worker[w] EXCEPT !.todo = {Item(a)}] \in WorkerType
    BY <2>0, <2>2 DEF WorkerType
  <2> QED
    BY <1>5, <2>1, <2>3 DEF TryClaimAddressScan, Touched
<1>6. ASSUME NEW w \in Workers, Step(w)
      PROVE  TypeOK'
  BY <1>6, TypeStep
<1>7. ASSUME NEW w \in Workers, Crash(w)
      PROVE  TypeOK'
  BY <1>7, IdleType DEF Crash
<1>8. CASE UNCHANGED vars
  BY <1>8 DEF vars
<1> QED
  BY <1>1, <1>2, <1>3, <1>4, <1>5, <1>6, <1>7, <1>8 DEF Next

\* The variables keep their types: cursors and block times are never below
\* zero, and a scan works off the reports of transfers and no others.
THEOREM TypeCorrect == Spec => []TypeOK
<1> QED
  BY TypeInit, TypeNext, PTL DEF Spec
-----------------------------------------------------------------------------
(* Nothing is skipped.                                                     *)

\* What the look-back of a cursor comes to.
LEMMA CursorBack ==
  ASSUME NEW c \in Nat
  PROVE  /\ lookbackCursor(c) = 0 \/ lookbackCursor(c) + Lookback = c
         /\ lookbackCursor(c) \in Nat
BY DEF lookbackCursor

\* Nothing is scanned at first, and nothing is left behind.
LEMMA InvInit == Init => ScanInv
<1> SUFFICES ASSUME Init
             PROVE  ScanInv
  OBVIOUS
<1>1. Timely
  BY DEF Init, Timely, Idle
<1>2. NothingSkipped
  BY DEF Init, NothingSkipped, Covered, Alive
<1>3. TodoCovered /\ BatchCovered
  BY DEF Init, TodoCovered, BatchCovered, Idle
<1> QED
  BY TypeInit, <1>1, <1>2, <1>3 DEF ScanInv

\* A transfer that just came in is too young to have been skipped.
LEMMA InvBroadcast ==
  ASSUME ScanInv, NEW t \in Transfers, Broadcast(t)
  PROVE  Timely' /\ NothingSkipped' /\ TodoCovered' /\ BatchCovered'
<1> USE DEF ScanInv
<1>0. PICK time \in 1 .. now :
        /\ now - time <= Lag
        /\ chain' = [chain EXCEPT ![t] = [st |-> "confirming", time |-> time]]
  BY DEF Broadcast
<1>1. /\ now' = now /\ row' = row /\ cursor' = cursor /\ worker' = worker
      /\ now \in Nat /\ time \in Nat
  BY DEF Broadcast, Database, TypeOK
<1>2. /\ chain'[t].time = time /\ chain'[t].st = "confirming"
      /\ \A u \in Transfers \ {t} : chain'[u] = chain[u]
  BY <1>0 DEF TypeOK
<1>3. chain[t].st = "absent"
  BY DEF Broadcast
<1>4. \A u \in Transfers : chain[u].time \in Nat
  BY DEF TypeOK
<1>5. Timely'
  <2>1. ASSUME NEW w \in Workers, NEW r \in worker[w].batch
        PROVE  chain'[r.t].st # "absent"
    <3>1. r.t \in Transfers
      BY DEF TypeOK, WorkerType, ReportType
    <3> QED
      BY <1>2, <3>1 DEF Timely
  <2> QED
    BY <1>0, <1>1, <1>2, <2>1 DEF Timely
<1>6. ASSUME NEW from \in Nat, from = 0 \/ from + Lookback <= now
      PROVE  Covered(t, from)'
  BY <1>0, <1>1, <1>2, <1>6 DEF Covered
<1>7. NothingSkipped'
  <2> SUFFICES ASSUME NEW u \in Transfers
               PROVE  Covered(u, lookbackCursor(cursor[AddrOf[u]]))'
    BY DEF NothingSkipped
  <2>1. cursor[AddrOf[u]] \in Nat /\ cursor[AddrOf[u]] <= now
    BY DEF TypeOK, Timely
  <2>2. CASE u = t
    BY <1>1, <1>6, <2>1, <2>2, CursorBack
  <2>3. CASE u # t
    BY <1>1, <1>2, <2>3 DEF NothingSkipped, Covered, Alive
  <2> QED
    BY <2>2, <2>3
<1>8. TodoCovered'
  <2> SUFFICES ASSUME NEW w \in Workers, NEW x \in worker[w].todo
               PROVE  /\ x.from = 0 \/ x.from + Lookback <= now
                      /\ \A u \in Transfers : AddrOf[u] = x.addr => Covered(u, x.from)'
    BY <1>1 DEF TodoCovered
  <2>1. x.from = 0 \/ x.from + Lookback <= now
    BY DEF TodoCovered
  <2>2. x.from \in Nat
    BY DEF TypeOK, WorkerType, ItemType
  <2>3. ASSUME NEW u \in Transfers, AddrOf[u] = x.addr, u # t
        PROVE  Covered(u, x.from)'
    BY <1>1, <1>2, <2>3 DEF TodoCovered, Covered, Alive
  <2> QED
    BY <1>6, <2>1, <2>2, <2>3
<1>9. BatchCovered'
  <2> SUFFICES ASSUME NEW w \in Workers, NEW a \in worker[w].at, NEW u \in Transfers,
                      AddrOf[u] = a, Alive(u)'
               PROVE  \/ row[u] = "paid" \/ worker[w].failed
                      \/ [t |-> u, solid |-> TRUE] \in worker[w].batch \/ Near(w, u)'
    BY <1>1 DEF BatchCovered
  <2>0. /\ worker[w].newest \in Nat /\ worker[w].newest <= now
        /\ \A r \in worker[w].batch : r.t \in Transfers
    BY DEF TypeOK, WorkerType, ReportType, Timely
  <2>1. \A v \in Transfers : chain'[v].time \in Nat /\ chain'[v].time <= now
    BY <1>1, <1>2, <1>4, <1>0 DEF Timely
  <2>2. CASE u = t
    <3>1. now <= chain'[u].time + Lookback
      BY <1>0, <1>1, <1>2, <2>2
    <3>2. worker[w].newest <= chain'[u].time + Lookback
      BY <1>1, <2>0, <2>1, <3>1
    <3>3. ASSUME NEW r \in worker[w].batch
          PROVE  chain'[r.t].time <= chain'[u].time + Lookback
      BY <1>1, <2>0, <2>1, <3>1
    <3> QED
      BY <1>1, <3>2, <3>3 DEF Near
  <2>3. CASE u # t
    <3>1. Alive(u) /\ chain'[u] = chain[u]
      BY <1>2, <2>3 DEF Alive
    <3>2. CASE Near(w, u)
      <4>1. ASSUME NEW r \in worker[w].batch
            PROVE  chain'[r.t].time <= chain'[u].time + Lookback
        <5>1. r.t # t
          BY <1>3 DEF Timely
        <5> QED
          BY <1>2, <2>0, <3>1, <3>2, <5>1 DEF Near
      <4> QED
        BY <1>1, <3>1, <3>2, <4>1 DEF Near
    <3> QED
      BY <3>1, <3>2 DEF BatchCovered
  <2> QED
    BY <2>2, <2>3
<1> QED
  BY <1>5, <1>7, <1>8, <1>9

\* The end of a block's confirmation changes no block time.
LEMMA InvFinalise ==
  ASSUME ScanInv, NEW t \in Transfers, NEW st \in {"solidified", "orphaned"}, Finalise(t, st)
  PROVE  Timely' /\ NothingSkipped' /\ TodoCovered' /\ BatchCovered'
<1> USE DEF ScanInv
<1>1. /\ now' = now /\ row' = row /\ cursor' = cursor /\ worker' = worker
      /\ now \in Nat
  BY DEF Finalise, Database, TypeOK
<1>2. \A u \in Transfers : /\ chain'[u].time = chain[u].time
                           /\ Alive(u)' => Alive(u)
                           /\ chain'[u].st = "confirming" => chain[u].st = "confirming"
                           /\ chain'[u].st = "absent" => chain[u].st = "absent"
  BY DEF Finalise, TypeOK, Alive
<1>3. \A w \in Workers : \A r \in worker[w].batch : r.t \in Transfers
  BY DEF TypeOK, WorkerType, ReportType
<1>4. Timely'
  BY <1>1, <1>2, <1>3 DEF Timely
<1>5. \A u \in Transfers : \A from \in Nat : Covered(u, from) => Covered(u, from)'
  BY <1>1, <1>2 DEF Covered
<1>6. NothingSkipped'
  BY <1>1, <1>2 DEF NothingSkipped, Covered
<1>7. TodoCovered'
  BY <1>1, <1>2 DEF TodoCovered, Covered
<1>8. \A w \in Workers, u \in Transfers : Near(w, u) => Near(w, u)'
  BY <1>1, <1>2, <1>3 DEF Near
<1>9. BatchCovered'
  BY <1>1, <1>2, <1>8 DEF BatchCovered
<1> QED
  BY <1>4, <1>6, <1>7, <1>9

\* Time passes only while no block is overdue.
LEMMA InvTick ==
  ASSUME ScanInv, Tick
  PROVE  Timely' /\ NothingSkipped' /\ TodoCovered' /\ BatchCovered'
<1> USE DEF ScanInv
<1>1. /\ now' = now + 1 /\ chain' = chain /\ row' = row /\ cursor' = cursor
      /\ worker' = worker /\ now \in Nat
  BY DEF Tick, Database, TypeOK
<1>2. /\ \A t \in Transfers : chain[t].time \in Nat
      /\ \A a \in Addresses : cursor[a] \in Nat
      /\ \A w \in Workers : worker[w].newest \in Nat
      /\ \A w \in Workers : \A x \in worker[w].todo : x.from \in Nat
  BY DEF TypeOK, WorkerType, ItemType
<1>3. \A t \in Transfers : chain[t].st = "confirming" => now - chain[t].time < Delay
  BY DEF Tick
<1>4. Timely'
  BY <1>1, <1>2, <1>3 DEF Timely
<1>5. NothingSkipped'
  BY <1>1 DEF NothingSkipped, Covered, Alive
<1>6. TodoCovered'
  <2>1. \A w \in Workers : \A x \in worker[w].todo :
          x.from = 0 \/ x.from + Lookback <= now + 1
    BY <1>2, <1>1 DEF TodoCovered
  <2> QED
    BY <1>1, <2>1 DEF TodoCovered, Covered, Alive
<1>7. BatchCovered'
  BY <1>1 DEF BatchCovered, Near, Alive
<1> QED
  BY <1>4, <1>5, <1>6, <1>7

\* A scan starts from the cursor as it stands.
LEMMA InvStart ==
  ASSUME ScanInv, NEW w \in Workers, NEW A \in SUBSET Addresses,
         worker' = [worker EXCEPT ![w].todo = {Item(a) : a \in A}],
         UNCHANGED <<now, chain, row, cursor>>
  PROVE  Timely' /\ NothingSkipped' /\ TodoCovered' /\ BatchCovered'
<1> USE DEF ScanInv
<1>1. /\ \A v \in Workers : /\ worker'[v].at = worker[v].at
                            /\ worker'[v].batch = worker[v].batch
                            /\ worker'[v].newest = worker[v].newest
                            /\ worker'[v].failed = worker[v].failed
      /\ \A v \in Workers \ {w} : worker'[v].todo = worker[v].todo
      /\ worker'[w].todo = {Item(a) : a \in A}
  BY DEF TypeOK, WorkerType
<1>2. Timely'
  BY <1>1 DEF Timely
<1>3. NothingSkipped'
  BY DEF NothingSkipped, Covered, Alive
<1>4. ASSUME NEW a \in A
      PROVE  /\ Item(a).from = 0 \/ Item(a).from + Lookback <= now
             /\ \A t \in Transfers : AddrOf[t] = Item(a).addr => Covered(t, Item(a).from)
  <2>1. /\ Item(a).from = lookbackCursor(cursor[a]) /\ Item(a).addr = a
        /\ cursor[a] \in Nat /\ cursor[a] <= now /\ now \in Nat
    BY DEF Item, TypeOK, Timely
  <2>2. Item(a).from = 0 \/ Item(a).from + Lookback <= now
    BY <2>1, CursorBack
  <2> QED
    BY <2>1, <2>2 DEF NothingSkipped
<1>5. TodoCovered'
  <2> SUFFICES ASSUME NEW v \in Workers, NEW x \in worker'[v].todo
               PROVE  /\ x.from = 0 \/ x.from + Lookback <= now
                      /\ \A t \in Transfers : AddrOf[t] = x.addr => Covered(t, x.from)'
    BY DEF TodoCovered
  <2>1. /\ x.from = 0 \/ x.from + Lookback <= now
        /\ \A t \in Transfers : AddrOf[t] = x.addr => Covered(t, x.from)
    BY <1>1, <1>4 DEF TodoCovered
  <2> QED
    BY <2>1 DEF Covered, Alive
<1>6. BatchCovered'
  BY <1>1 DEF BatchCovered, Near, Alive
<1> QED
  BY <1>2, <1>3, <1>5, <1>6

\* What is given up, by a failed fetch or by a stop, leaves nothing to cover.
LEMMA InvDrop ==
  ASSUME ScanInv, NEW w \in Workers, NEW old \in WorkerType,
         worker' = [worker EXCEPT ![w] = old],
         old.todo \subseteq worker[w].todo, old.at = {}, old.batch \subseteq worker[w].batch,
         old.newest <= now,
         UNCHANGED <<now, chain, row, cursor>>
  PROVE  Timely' /\ NothingSkipped' /\ TodoCovered' /\ BatchCovered'
<1> USE DEF ScanInv
<1>1. /\ worker'[w] = old
      /\ \A v \in Workers \ {w} : worker'[v] = worker[v]
  BY DEF TypeOK
<1>2. Timely'
  BY <1>1 DEF Timely
<1>3. NothingSkipped'
  BY DEF NothingSkipped, Covered, Alive
<1>4. TodoCovered'
  BY <1>1 DEF TodoCovered, Covered, Alive
<1>5. BatchCovered'
  BY <1>1 DEF BatchCovered, Near, Alive
<1> QED
  BY <1>2, <1>3, <1>4, <1>5

\* A report holds every transfer of the address that is not yet booked and
\* not older than the scan asked for. Those it calls unconfirmed are within
\* Delay, hence within the look-back of whatever else it holds.
LEMMA InvScan ==
  ASSUME ScanInv, NEW w \in Workers, NEW x \in worker[w].todo, Scan(w, x)
  PROVE  Timely' /\ NothingSkipped' /\ TodoCovered' /\ BatchCovered'
<1> USE DEF ScanInv
<1>1. /\ UNCHANGED <<now, chain, row, cursor>>
      /\ worker'[w].todo = worker[w].todo \ {x} /\ worker'[w].at = {x.addr}
      /\ worker'[w].batch = Report(x) /\ worker'[w].newest = worker[w].newest
      /\ worker'[w].failed = worker[w].failed
      /\ \A v \in Workers \ {w} : worker'[v] = worker[v]
  BY DEF Scan, TypeOK, WorkerType
<1>2. \A r \in Report(x) : r.t \in Transfers /\ chain[r.t].st # "absent"
  BY DEF Report, ReportType
<1>3. Timely'
  BY <1>1, <1>2 DEF Timely
<1>4. NothingSkipped'
  BY <1>1 DEF NothingSkipped, Covered, Alive
<1>5. TodoCovered'
  BY <1>1 DEF TodoCovered, Covered, Alive
<1>6. BatchCovered'
  <2>0. \A v \in Workers, t \in Transfers : v # w => (Near(v, t)' <=> Near(v, t))
    BY <1>1 DEF Near
  <2>1. ASSUME NEW t \in Transfers, AddrOf[t] = x.addr, Alive(t)
        PROVE  \/ row[t] = "paid"
               \/ [t |-> t, solid |-> TRUE] \in Report(x) \/ Near(w, t)'
    <3>0. /\ chain[t].time \in Nat /\ now \in Nat /\ x.from \in Nat
          /\ worker[w].newest \in Nat /\ worker[w].newest <= now
      BY DEF TypeOK, WorkerType, ItemType, Timely
    <3>1. CASE chain[t].time < x.from
      BY <2>1, <3>1 DEF TodoCovered, Covered
    <3>2. CASE chain[t].time >= x.from /\ chain[t].st = "solidified"
      BY <2>1, <3>2 DEF Report, ReportType
    <3>3. CASE chain[t].st = "confirming"
      <4>1. now <= chain[t].time + Lookback
        BY <3>0, <3>3 DEF Timely
      <4>2. ASSUME NEW r \in Report(x)
            PROVE  chain[r.t].time <= chain[t].time + Lookback
        <5>1. chain[r.t].time \in Nat /\ chain[r.t].time <= now
          BY <1>2 DEF Timely, TypeOK
        <5> QED
          BY <3>0, <4>1, <5>1
      <4>3. worker[w].newest <= chain[t].time + Lookback
        BY <3>0, <4>1
      <4> QED
        BY <1>1, <4>2, <4>3 DEF Near
    <3> QED
      BY <2>1, <3>0, <3>1, <3>2, <3>3 DEF Alive
  <2> QED
    BY <1>1, <2>0, <2>1 DEF BatchCovered, Alive
<1> QED
  BY <1>3, <1>4, <1>5, <1>6

\* What is booked stays booked, and the newest time seen is of the report.
LEMMA InvDeposit ==
  ASSUME ScanInv, NEW w \in Workers, NEW r \in worker[w].batch, Deposit(w, r)
  PROVE  Timely' /\ NothingSkipped' /\ TodoCovered' /\ BatchCovered'
<1> USE DEF ScanInv
<1>1. /\ UNCHANGED <<now, chain, cursor>>
      /\ \A v \in Workers : /\ worker'[v].todo = worker[v].todo
                            /\ worker'[v].at = worker[v].at
                            /\ worker'[v].failed = worker[v].failed
      /\ worker'[w].batch = worker[w].batch \ {r}
      /\ worker'[w].newest \in {worker[w].newest, chain[r.t].time}
      /\ \A v \in Workers \ {w} : worker'[v] = worker[v]
  BY DEF Deposit, TypeOK, WorkerType
<1>2. /\ r \in ReportType /\ r.t \in Transfers
      /\ chain[r.t].time \in Nat /\ chain[r.t].time <= now
  BY DEF TypeOK, WorkerType, ReportType, Timely
<1>3. /\ \A t \in Transfers : row[t] = "paid" => row'[t] = "paid"
      /\ r.solid => row'[r.t] = "paid"
  BY <1>2 DEF Deposit, TypeOK
<1>4. Timely'
  BY <1>1, <1>2 DEF Timely
<1>5. NothingSkipped'
  BY <1>1, <1>3 DEF NothingSkipped, Covered, Alive
<1>6. TodoCovered'
  BY <1>1, <1>3 DEF TodoCovered, Covered, Alive
<1>7. \A v \in Workers, t \in Transfers : Near(v, t) => Near(v, t)'
  BY <1>1 DEF Near
<1>8. ASSUME NEW t \in Transfers, [t |-> t, solid |-> TRUE] \in worker[w].batch
      PROVE  row'[t] = "paid" \/ [t |-> t, solid |-> TRUE] \in worker'[w].batch
  BY <1>1, <1>3, <1>8
<1>9. BatchCovered'
  BY <1>1, <1>3, <1>7, <1>8 DEF BatchCovered, Alive
<1> QED
  BY <1>4, <1>5, <1>6, <1>9

\* A deposit that fails keeps the cursor where it is.
LEMMA InvDepositFails ==
  ASSUME ScanInv, NEW w \in Workers, NEW r \in worker[w].batch, DepositFails(w, r)
  PROVE  Timely' /\ NothingSkipped' /\ TodoCovered' /\ BatchCovered'
<1> USE DEF ScanInv
<1>1. /\ UNCHANGED <<now, chain, row, cursor>>
      /\ \A v \in Workers : /\ worker'[v].todo = worker[v].todo
                            /\ worker'[v].at = worker[v].at
                            /\ worker'[v].newest = worker[v].newest
      /\ worker'[w].batch = worker[w].batch \ {r} /\ worker'[w].failed
      /\ \A v \in Workers \ {w} : worker'[v] = worker[v]
  BY DEF DepositFails, TypeOK, WorkerType
<1>2. Timely'
  BY <1>1 DEF Timely
<1>3. NothingSkipped' /\ TodoCovered'
  BY <1>1 DEF NothingSkipped, TodoCovered, Covered, Alive
<1>4. BatchCovered'
  BY <1>1 DEF BatchCovered, Near, Alive
<1> QED
  BY <1>2, <1>3, <1>4

\* A cursor moves to the newest time of a report of which nothing failed:
\* what that leaves behind is booked.
LEMMA InvTouch ==
  ASSUME ScanInv, NEW w \in Workers, Touch(w)
  PROVE  Timely' /\ NothingSkipped' /\ TodoCovered' /\ BatchCovered'
<1> USE DEF ScanInv
<1>1. PICK a \in worker[w].at :
        /\ worker[w].batch = {}
        /\ cursor' = IF ~worker[w].failed /\ worker[w].newest > 0
                     THEN [cursor EXCEPT ![a] = worker[w].newest] ELSE cursor
        /\ worker' = [worker EXCEPT ![w] = [Idle EXCEPT !.todo = worker[w].todo]]
        /\ UNCHANGED <<now, chain, row>>
  BY DEF Touch
<1>2. /\ a \in Addresses
      /\ worker[w].newest \in Nat /\ worker[w].newest <= now
      /\ now \in Nat
  BY DEF TypeOK, WorkerType, Timely
<1>3. /\ worker'[w] = [Idle EXCEPT !.todo = worker[w].todo]
      /\ \A v \in Workers \ {w} : worker'[v] = worker[v]
  BY <1>1 DEF TypeOK
<1>4. /\ worker'[w].todo = worker[w].todo /\ worker'[w].at = {}
      /\ worker'[w].batch = {} /\ worker'[w].newest = 0
  BY <1>3 DEF Idle
<1>5. Timely'
  BY <1>1, <1>2, <1>3, <1>4 DEF Timely, TypeOK
<1>6. NothingSkipped'
  <2> SUFFICES ASSUME NEW t \in Transfers
               PROVE  Covered(t, lookbackCursor(cursor[AddrOf[t]]))'
    BY DEF NothingSkipped
  <2>1. CASE cursor'[AddrOf[t]] = cursor[AddrOf[t]]
    BY <1>1, <2>1 DEF NothingSkipped, Covered, Alive, lookbackCursor
  <2>2. CASE cursor'[AddrOf[t]] # cursor[AddrOf[t]]
    <3>1. AddrOf[t] = a /\ ~worker[w].failed /\ cursor'[a] = worker[w].newest
      BY <1>1, <1>2, <2>2 DEF TypeOK
    <3>2. CASE Alive(t) /\ row[t] # "paid"
      <4>1. Near(w, t)
        BY <1>1, <3>1, <3>2 DEF BatchCovered
      <4>2. worker[w].newest <= chain[t].time + Lookback /\ chain[t].time \in Nat
        BY <4>1 DEF Near, TypeOK
      <4>3. lookbackCursor(worker[w].newest) <= chain[t].time
        BY <1>2, <4>2, CursorBack
      <4>4. lookbackCursor(worker[w].newest) \in Nat
        BY <1>2, CursorBack
      <4> QED
        BY <1>1, <3>1, <4>2, <4>3, <4>4 DEF Covered, lookbackCursor
    <3> QED
      BY <1>1, <3>2 DEF Covered, Alive
  <2> QED
    BY <2>1, <2>2
<1>7. TodoCovered'
  BY <1>1, <1>3, <1>4 DEF TodoCovered, Covered, Alive
<1>8. BatchCovered'
  BY <1>1, <1>3, <1>4 DEF BatchCovered, Near, Alive
<1> QED
  BY <1>5, <1>6, <1>7, <1>8

\* Every step keeps the invariant.
LEMMA InvNext == ScanInv /\ [Next]_vars => ScanInv'
<1> SUFFICES ASSUME ScanInv, [Next]_vars
             PROVE  ScanInv'
  OBVIOUS
<1>0. TypeOK /\ TypeOK'
  BY TypeNext DEF ScanInv
<1> SUFFICES Timely' /\ NothingSkipped' /\ TodoCovered' /\ BatchCovered'
  BY <1>0 DEF ScanInv
<1>1. CASE \E t \in Transfers :
             Broadcast(t) \/ Finalise(t, "solidified") \/ Finalise(t, "orphaned")
  BY <1>1, InvBroadcast, InvFinalise
<1>2. CASE Tick
  BY <1>2, InvTick
<1>3. ASSUME NEW a \in Addresses, StopWatching(a) \/ Blacklist(a)
      PROVE  Timely' /\ NothingSkipped' /\ TodoCovered' /\ BatchCovered'
  <2>1. UNCHANGED <<now, chain, row, cursor, worker>>
    BY <1>3 DEF StopWatching, Blacklist
  <2> QED
    BY <2>1 DEF ScanInv, Timely, NothingSkipped, TodoCovered, BatchCovered,
                Near, Covered, Alive
<1>4. ASSUME NEW w \in Rechecks, NEW a \in Addresses, TryClaimAddressScan(w, a)
      PROVE  Timely' /\ NothingSkipped' /\ TodoCovered' /\ BatchCovered'
  <2>1. /\ worker' = [worker EXCEPT ![w].todo = {Item(b) : b \in {a}}]
        /\ UNCHANGED <<now, chain, row, cursor>>
    <3>1. {Item(b) : b \in {a}} = {Item(a)}
      OBVIOUS
    <3> QED
      BY <1>4, <3>1 DEF TryClaimAddressScan
  <2>2. w \in Workers /\ {a} \in SUBSET Addresses
    BY DEF Workers
  <2>3. ScanInv
    OBVIOUS
  <2> QED
    BY <2>1, <2>2, <2>3, InvStart
<1>5. ASSUME NEW w \in Workers, ListScannable(w)
      PROVE  Timely' /\ NothingSkipped' /\ TodoCovered' /\ BatchCovered'
  <2>1. Batch \in SUBSET Addresses
    BY <1>0 DEF Batch, TypeOK
  <2> QED
    BY <1>5, <2>1, InvStart DEF ListScannable
<1>6. ASSUME NEW w \in Workers, NEW x \in worker[w].todo, PassOver(w, x)
      PROVE  Timely' /\ NothingSkipped' /\ TodoCovered' /\ BatchCovered'
  <2> DEFINE old == [worker[w] EXCEPT !.todo = @ \ {x}]
  <2>0. worker[w] \in WorkerType
    BY <1>0 DEF TypeOK
  <2>1. /\ old \in WorkerType /\ old.todo \subseteq worker[w].todo
        /\ old.at = {} /\ old.batch = worker[w].batch
        /\ old.newest = worker[w].newest
    BY <1>6, <2>0 DEF WorkerType, PassOver
  <2>2. worker[w].newest <= now
    BY DEF ScanInv, Timely
  <2>3. /\ worker' = [worker EXCEPT ![w] = old]
        /\ UNCHANGED <<now, chain, row, cursor>>
    BY <1>6 DEF PassOver
  <2> QED
    BY <2>1, <2>2, <2>3, InvDrop
<1>7. ASSUME NEW w \in Workers, Crash(w)
      PROVE  Timely' /\ NothingSkipped' /\ TodoCovered' /\ BatchCovered'
  <2>1. /\ Idle.todo = {} /\ Idle.at = {} /\ Idle.batch = {} /\ Idle.newest <= now
    BY <1>0 DEF Idle, TypeOK
  <2> QED
    BY <1>7, <2>1, IdleType, InvDrop DEF Crash
<1>8. ASSUME NEW w \in Workers, Step(w)
      PROVE  Timely' /\ NothingSkipped' /\ TodoCovered' /\ BatchCovered'
  BY <1>5, <1>6, <1>8, InvScan, InvDeposit, InvDepositFails, InvTouch DEF Step
<1>9. CASE UNCHANGED vars
  BY <1>9 DEF vars, ScanInv, Timely, NothingSkipped, TodoCovered, BatchCovered,
              Near, Covered, Alive
<1> QED
  BY <1>1, <1>2, <1>3, <1>4, <1>7, <1>8, <1>9 DEF Next

\* No cursor ever leaves an unbooked transfer behind: for any number of
\* overlapping scans and rechecks, batch size, look-back no shorter than the
\* time to finality, and whatever fails or stops in between.
THEOREM NoneSkipped == Spec => []NothingSkipped
<1>1. ScanInv => NothingSkipped
  BY DEF ScanInv
<1> QED
  BY InvInit, InvNext, <1>1, PTL DEF Spec
-----------------------------------------------------------------------------
(* The promise of Inbox. Its steps are the chain's and, for a row, those   *)
(* of Deposit; everything else that happens in a scan it does not see.     *)

\* A worker that takes up no report keeps its reports true.
LEMMA TruthKept ==
  ASSUME ReportsTrue, NEW w \in Workers,
         worker'[w].batch \subseteq worker[w].batch,
         \A v \in Workers \ {w} : worker'[v] = worker[v], chain' = chain
  PROVE  ReportsTrue'
<1>1. \A v \in Workers : worker'[v].batch \subseteq worker[v].batch
  OBVIOUS
<1> QED
  BY <1>1 DEF ReportsTrue

\* The reports a worker holds stay true whatever the chain does later.
LEMMA TruthChain ==
  ASSUME TypeOK, ReportsTrue, NEW t \in Transfers,
         Broadcast(t) \/ Finalise(t, "solidified") \/ Finalise(t, "orphaned")
  PROVE  ReportsTrue'
<1>1. worker' = worker
  BY DEF Broadcast, Finalise, Database
<1>2. ASSUME NEW w \in Workers, NEW r \in worker[w].batch
      PROVE  chain'[r.t].st # "absent" /\ (r.solid => chain'[r.t].st = "solidified")
  <2>1. r.t \in Transfers
    BY DEF TypeOK, WorkerType, ReportType
  <2>2. chain[r.t].st # "absent" /\ (r.solid => chain[r.t].st = "solidified")
    BY DEF ReportsTrue
  <2> QED
    BY <2>1, <2>2 DEF Broadcast, Finalise, TypeOK
<1> QED
  BY <1>1, <1>2 DEF ReportsTrue

\* No step makes a report that is still to be dealt with untrue.
LEMMA TruthStep == TypeOK /\ ReportsTrue /\ [Next]_vars => ReportsTrue'
<1> SUFFICES ASSUME TypeOK, ReportsTrue, [Next]_vars
             PROVE  ReportsTrue'
  OBVIOUS
<1>0. \A w \in Workers : worker[w] \in WorkerType
  BY DEF TypeOK
<1>1. ASSUME NEW w \in Workers, NEW x \in worker[w].todo, Scan(w, x)
      PROVE  ReportsTrue'
  <2>1. \A v \in Workers \ {w} : worker'[v] = worker[v]
    BY <1>1 DEF Scan, TypeOK
  <2>2. worker'[w].batch = Report(x)
    BY <1>0, <1>1 DEF Scan, TypeOK, WorkerType
  <2>3. \A r \in Report(x) : chain[r.t].st # "absent" /\ (r.solid => chain[r.t].st = "solidified")
    BY DEF Report
  <2>4. chain' = chain
    BY <1>1 DEF Scan
  <2> QED
    BY <2>1, <2>2, <2>3, <2>4 DEF ReportsTrue
<1>2. ASSUME NEW w \in Workers, Crash(w)
      PROVE  ReportsTrue'
  <2>1. worker'[w].batch = {} /\ \A v \in Workers \ {w} : worker'[v] = worker[v]
    BY <1>2 DEF Crash, Idle, TypeOK
  <2> QED
    BY <1>2, <2>1, TruthKept DEF Crash
<1>3. ASSUME NEW w \in Workers, NEW todo,
             worker' = [worker EXCEPT ![w].todo = todo], chain' = chain
      PROVE  ReportsTrue'
  <2>1. worker'[w].batch = worker[w].batch
    BY <1>0, <1>3 DEF TypeOK, WorkerType
  <2>2. \A v \in Workers \ {w} : worker'[v] = worker[v]
    BY <1>3 DEF TypeOK
  <2> QED
    BY <1>3, <2>1, <2>2, TruthKept
<1>4. ASSUME NEW w \in Workers, NEW r \in worker[w].batch,
             Deposit(w, r) \/ DepositFails(w, r)
      PROVE  ReportsTrue'
  <2>1. worker'[w].batch = worker[w].batch \ {r}
    BY <1>0, <1>4 DEF Deposit, DepositFails, TypeOK, WorkerType
  <2>2. \A v \in Workers \ {w} : worker'[v] = worker[v]
    BY <1>4 DEF Deposit, DepositFails, TypeOK
  <2> QED
    BY <1>4, <2>1, <2>2, TruthKept DEF Deposit, DepositFails
<1>5. ASSUME NEW w \in Workers, Touch(w)
      PROVE  ReportsTrue'
  <2>1. worker' = [worker EXCEPT ![w] = [Idle EXCEPT !.todo = worker[w].todo]] /\ chain' = chain
    BY <1>5 DEF Touch
  <2>2. worker'[w].batch = {} /\ \A v \in Workers \ {w} : worker'[v] = worker[v]
    BY <2>1 DEF Idle, TypeOK
  <2> QED
    BY <2>1, <2>2, TruthKept
<1>6. ASSUME NEW w \in Workers, Step(w)
      PROVE  ReportsTrue'
  <2>1. ASSUME ListScannable(w) \/ \E x \in worker[w].todo : PassOver(w, x)
        PROVE  ReportsTrue'
    BY <1>3, <2>1 DEF ListScannable, PassOver
  <2> QED
    BY <1>1, <1>4, <1>5, <1>6, <2>1 DEF Step
<1>7. ASSUME NEW w \in Rechecks, NEW a \in Addresses, TryClaimAddressScan(w, a)
      PROVE  ReportsTrue'
  BY <1>3, <1>7 DEF TryClaimAddressScan, Workers
<1>8. CASE UNCHANGED <<worker, chain>>
  BY <1>8 DEF ReportsTrue
<1> QED
  BY <1>2, <1>6, <1>7, <1>8, TruthChain DEF Next, Tick, StopWatching, Blacklist, Database, vars

\* A step of the chain is one of the inbox: it moves a single transfer.
LEMMA ChainMoves ==
  ASSUME TypeOK, NEW t \in Transfers,
         Broadcast(t) \/ Finalise(t, "solidified") \/ Finalise(t, "orphaned")
  PROVE  Bookings!Next
<1>1. row' = row
  BY DEF Broadcast, Finalise, Database
<1>2. PICK to \in {"confirming", "solidified", "orphaned"} :
        /\ \A u \in Transfers \ {t} : chain'[u].st = chain[u].st
        /\ chain'[t].st = to
        /\ to = "confirming" => chain[t].st = "absent"
        /\ to # "confirming" => chain[t].st = "confirming"
  BY DEF Broadcast, Finalise, TypeOK
<1>3. fate' = [u \in Transfers |-> IF u \in {t} THEN to ELSE fate[u]]
  BY <1>2 DEF fate
<1>4. {t} \in SUBSET Transfers /\ \A u \in {t} : fate[u] = chain[t].st
  BY DEF fate
<1>5. \/ Bookings!Move({t}, "absent", "confirming")
      \/ Bookings!Move({t}, "confirming", "solidified")
      \/ Bookings!Move({t}, "confirming", "orphaned")
  BY <1>1, <1>2, <1>3, <1>4 DEF Bookings!Move
<1> QED
  BY <1>4, <1>5 DEF Bookings!Next

\* Dealing with a report hears of its transfer, receives it, or does nothing
\* the inbox sees.
LEMMA DepositBooks ==
  ASSUME TypeOK, ReportsTrue, NEW w \in Workers, NEW r \in worker[w].batch, Deposit(w, r)
  PROVE  Bookings!Next \/ UNCHANGED <<fate, row>>
<1>1. r.t \in Transfers /\ r.solid \in BOOLEAN
  BY DEF TypeOK, WorkerType, ReportType
<1>2. fate' = fate
  BY DEF Deposit, fate
<1>3. fate[r.t] # "absent" /\ (r.solid => fate[r.t] = "solidified")
  BY <1>1 DEF ReportsTrue, fate
<1>4. row[r.t] \in {"none", "confirming", "paid"}
  BY <1>1 DEF TypeOK
<1>5. row' = [row EXCEPT ![r.t] =
        IF r.solid THEN "paid" ELSE IF @ = "none" THEN "confirming" ELSE @]
  BY DEF Deposit
<1>6. CASE r.solid /\ row[r.t] \in {"none", "confirming"}
  BY <1>1, <1>2, <1>3, <1>5, <1>6 DEF Bookings!Next, Bookings!Receive, Bookings!Book
<1>7. CASE ~r.solid /\ row[r.t] = "none"
  BY <1>1, <1>2, <1>3, <1>5, <1>7 DEF Bookings!Next, Bookings!Hear, Bookings!Book
<1>8. CASE (r.solid /\ row[r.t] = "paid") \/ (~r.solid /\ row[r.t] # "none")
  BY <1>2, <1>5, <1>8 DEF TypeOK
<1> QED
  BY <1>1, <1>4, <1>6, <1>7, <1>8

\* Every step is one of the inbox, or none that it sees.
LEMMA InboxStep ==
  TypeOK /\ ReportsTrue /\ [Next]_vars => [Bookings!Next]_(Bookings!vars)
<1> SUFFICES ASSUME TypeOK, ReportsTrue, [Next]_vars
             PROVE  Bookings!Next \/ UNCHANGED <<fate, row>>
  BY DEF Bookings!vars
<1>1. ASSUME UNCHANGED <<chain, row>>
      PROVE  UNCHANGED <<fate, row>>
  BY <1>1 DEF fate
<1>2. ASSUME NEW w \in Workers, Step(w)
      PROVE  Bookings!Next \/ UNCHANGED <<fate, row>>
  BY <1>1, <1>2, DepositBooks
     DEF Step, ListScannable, PassOver, Scan, DepositFails, Touch
<1>3. ASSUME NEW w \in Workers, Crash(w)
      PROVE  UNCHANGED <<fate, row>>
  BY <1>1, <1>3 DEF Crash
<1>4. ASSUME NEW w \in Rechecks, NEW a \in Addresses, TryClaimAddressScan(w, a)
      PROVE  UNCHANGED <<fate, row>>
  BY <1>1, <1>4 DEF TryClaimAddressScan
<1>5. CASE Tick \/ (\E a \in Addresses : StopWatching(a) \/ Blacklist(a)) \/ UNCHANGED vars
  BY <1>1, <1>5 DEF Tick, StopWatching, Blacklist, Database, vars
<1> QED
  BY <1>2, <1>3, <1>4, <1>5, ChainMoves DEF Next

\* A report that a scan still holds is true when it is dealt with, for what
\* the chain is final about stays final.
THEOREM ReportsStayTrue == Spec => []ReportsTrue
<1>1. Init => ReportsTrue
  BY DEF Init, ReportsTrue, Idle
<1>2. Spec => []TypeOK
  BY TypeCorrect
<1> QED
  BY <1>1, <1>2, TruthStep, PTL DEF Spec

\* Any number of overlapping, failing and interrupted scans books a transfer
\* as received only once it is final, and never takes a booking back.
THEOREM ImplementsInbox == Spec => KeepsInbox
<1>1. Init => Bookings!Init
  BY DEF Init, fate, Bookings!Init
<1>2. Spec => [](TypeOK /\ ReportsTrue)
  BY TypeCorrect, ReportsStayTrue, PTL
<1>3. TypeOK /\ ReportsTrue /\ [Next]_vars => [Bookings!Next]_(Bookings!vars)
  BY InboxStep
<1> QED
  BY <1>1, <1>2, <1>3, PTL DEF Spec, KeepsInbox, Bookings!Spec
=============================================================================
