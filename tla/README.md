# BabelPlus: TLA+ specifications and proofs

This directory holds formal models of BabelPlus, a subscription service for VPN
access, checked with TLC on small instances and, where it matters most, proved
with TLAPS for every instance. It is kept beside the code: each definition of
a model names, in `PROJECT.json` ("map"), the lines of `src/` it stands for.

- [The system](#the-system)
- [The modules](#the-modules)
- [What each run checks](#what-each-run-checks)
- [What is proved](#what-is-proved)
- [Where the code and its documents disagree](#where-the-code-and-its-documents-disagree)
- [What is not modelled](#what-is-not-modelled)
- [Plan](#plan)

## The system

The server is a Go API on Cloud Run (`api/`) over one Postgres database, driven
by users, administrators, VPN nodes and Cloud Scheduler. Clients are a web
front end for users and one for administrators (`web/`), a browser extension
(`web/extension`), and an Electron desktop client (`desktop/`). The fleet of
nodes is provisioned by scripts (`infra/`).

| Component | State | Operations | What is hard | What makes it correct | Module |
|---|---|---|---|---|---|
| Orders and payments (`handler/order.go`) | `orders`, `coupons`, `pay_addresses`, `payments`, ledger, wallets | create, cancel, pay, deposit, expire, mark paid (D6), edit a payment (D13) | several requests, a task and reports of the chain reach one order in any order, several times, with stale reads before each transaction | money is conserved, held balances come back once, transfers are booked once and to the right order, everything final is eventually booked | `Payments`, `Escrow`, `Inbox` |
| Chain scan (`handler/task.go`, `rescanOrderAddress`) | cursor, last scan of each address | scan a batch each minute, recheck one address | overlapping runs, stale cursors, one failed deposit of a report, a stop at any point | no cursor leaves an unbooked transfer behind; what was seen unconfirmed is visited again; addresses take turns | `ChainScan`, `Inbox` |
| Refunds and commissions (`handler/admin_orders.go`, `wallet.go`) | `refunds`, `commissions`, upgrade chains | refund (D7), claw back, adjust, confirm, transfer | a refund waits for its row with counts of an older snapshot; an upgrade counts on an order that may be refunded; several rounded shares | no order gives back more than was paid for it; its commission is voided or claimed back | `Refunds` |
| Prices of upgrades and refunds (`order.go`, `admin_orders.go`; ADR 0013) | service times of orders, traffic of the cycle, refunds | draft, upgrade, refund | a window of several orders, each with days of its own; rounding down to cents and up to days; a refund ends what the next one measures | no path is cheaper than the list prices, or dearer | `Billing` |
| Idempotency (`httpx/idempotency.go`) | `idempotency_keys` | claim, look up, complete, replay, expire | the key is claimed outside the work's transaction | the work is done at most once per key | `Idempotency` |
| Node API, traffic and tasks (`handler/node.go`, `admin_nodes.go`, `admin_users.go`, `task.go`) | `user_rev`, users, `user_traffic`, servers, a node's list | conditional poll, traffic report, expire-check, traffic-reset, traffic-batch, writes of the console | a node keeps its list until the revision moves; the revision and the list are two statements; the crossing of a quota is decided on a snapshot | 304 means that nothing changed; who is banned or expired leaves the nodes | `NodeSync` |
| Authentication (`handler/auth.go`, `middleware/user.go`) | users, sessions, codes, invite codes | register, log in, refresh, log out, reset, change the password, send and check codes | every request judges first and writes later, with a password hash or a mail in between | an invite code counts who it let in, an old password opens nothing, a login has one live end | `Accounts` |
| Admin console (`middleware/admin.go`, `handler/admin_users.go`, `admin_nodes.go`) | `admin_users`, `used_totp`, `server_keys`, balances | gate, step-up code, manage admins, adjust a balance (D10), node keys (D5) | the gate, the code and the operation are separate transactions | a code lets one operation through, somebody can manage the admins | `AdminConsole` |
| Catalog (`handler/admin_catalog.go`, `catalog.go`) | plans, coupons, orders on them | create, edit, archive, delete; draft, write, commit, close | counts are those of a snapshot, the row is fresh | what was sold fits the catalog it was sold from | `Catalog` |
| Tickets (`handler/ticket.go`) | tickets, messages, events | create, reply, close; status, answers and notes of agents | reply and close race | the columns the console reads off a ticket are true | `Tickets` |
| Mail (`handler/task.go`, `auth.go`) | `email_log` as a queue | remind-sweep, broadcast, codes, mail-send | delivery at least once, overlapping sweeps, a stop after the claim | no message is sent twice | `Mail` |
| Subscriptions (`handler/usersub.go`, `subscription.go`) | `subscription_tokens`, `sub_revoked_at` | issue, revoke, revoke all (user, D3) | a token issued while all are revoked; `now()` is when a transaction began | a revoked token stays out | `SubTokens` |
| Desktop client (`desktop/src/main/controller.ts`, `core.ts`) | connection, sing-box processes, proxy of the session | connect, disconnect, sign-out, tick, setPrefs, exits and restarts | each operation is a chain of awaits and nothing keeps two apart | what the window calls on goes through the proxy | `Desktop` |
| Browser extension (`web/extension/src/background`) | connection, the browser's proxy setting, session | connect, cancel, disconnect, sign in and out, alarms, setPrefs | the same, with a service worker that is stopped anywhere and starts from what it saved, and other extensions at the same setting | the popup says what the browser's proxy is; who signed out has none of ours | `Extension` |
| Signing keys of Google (`middleware/admin.go`, `internal.go`) | cached keys, when they were fetched and asked for | look up, fetch | rotation against made-up kids and an unreachable Google: each must not defeat the guard against the other | the cache follows the rotation, and asks no more often than the throttle lets it | `KeyCache` |
| Rate limits, webhook dedup | windows, `webhook_events` | allow, record | concurrent counts | the limit holds per window | none |

They meet in the database. A handler reads outside a transaction, judges, then
writes inside one (`store.InTx`); the row locks and conditional `UPDATE`s of
that transaction, each of which has "0 rows" as a way out, are what makes the
writes of different handlers serial. Where a statement reads more than the rows
it locks, the rest is of its snapshot, and may be old by the time it gets its
lock: this is where most of the races below come from. Every report of the
chain, whether it comes from the webhook, the user's recheck or the scan, ends
in `processDeposit`; every write that changes whom a node may serve ends in a
bump of `user_rev`, by a trigger or by hand.

## The modules

```
Money             integer arithmetic of quotes and credits
Sums              lemmas: sums over finite sets
  Payments        orders, wallet, ledger, payments, chain
    MCPayments        instances for TLC
    PaymentsProofs    IInv, MoneyInv, Payments implements Escrow and Inbox
Escrow            the abstract promise about wallets
Inbox             the abstract promise about transfers and their rows
ChainScan         batches, cursors, scans and rechecks
    MCChainScan       instances for TLC
    ChainScanProofs   ScanInv, ChainScan implements Inbox
Idempotency       keys of requests: claim, work, answer, expiry
    MCIdempotency     instances for TLC
    IdempotencyProofs IInv
NodeSync          whom the nodes serve: polls, reports, tasks, console
    MCNodeSync        instances for TLC
    NodeSyncProofs    NodeSyncInv
Accounts          codes, invites, sessions, passwords
    MCAccounts        instances for TLC
    AccountsProofs    AccountsInv
Refunds           refunds, upgrade chains, commissions
    MCRefunds         instances for TLC
    RefundsProofs     RefundsInv
Common            the constant None, shared by
  AdminConsole      gate, step-up codes, admins, node keys, balances
  Catalog           plans and coupons under orders
  Tickets           replies, closings, agents
  Mail              email_log as a queue
  SubTokens         subscription tokens
  Desktop           operations over sing-box processes
  Extension         operations over the browser's proxy setting
  KeyCache          cached signing keys
  Billing           what upgrades and refunds cost
    Parts             the nine side by side
    MCParts           an instance for TLC
    PartsProofs       an invariant for each of the nine, and for all together
```

### Payments

One action is one database transaction. What a handler read before it is kept
as state, so that anything may happen in between:

| Variable | Code |
|---|---|
| `order` | a row of `orders`; status `draft` is the `orderDraft` a `createOrder` request holds, built from reads, before `writeOrder` |
| `asked` | `payOrder` requests that have judged their order and not yet entered their transaction; a request stays asked, which covers a client that repeats it |
| `wallet` | `wallet_balances.balance` |
| `couponUsed` | `coupons.used_count` |
| `ledger` | per order, the sum of its ledger entries, by the prefix of `entry_no`; `shortfall` is the write-off less what was recovered |
| `payment` | rows of `payments`, by external id |
| `credited` | what the wallet entries that name a transfer's receipt moved (a history the ledger holds) |
| `chain` | the chain itself: absent, confirming, solidified, orphaned |

| Actions | Code |
|---|---|
| `BuildDraft`, `WriteOrder`, `RejectDraft`, `CancelOrder` | `buildOrderDraft`, `writeOrder` (coupon use, held balance and order in one transaction), its rollbacks, `CancelOrder` |
| `payOrderOnce`, `payWithBalance`, `payWithUSDT` | the checks outside and the two transactions of `PayOrder` |
| `PassDeadline`, `WatchEnds`, `runOrderTimeout` | the clock passing `expires_at` and `address_watch_until`, and the task, an order at a time |
| `Broadcast`, `Finalise` | the chain (external) |
| `processDeposit`: `IngestDeposit`, `QuarantineDeposit`, `promoteSolidifiedDeposit`, `AppendScanner` | `processDeposit` and `handleAlreadyProcessed` |
| `Settle`: `SettleOpen`, `SettleClosed`, `SettlePaid` | `settleDeposit`: tiers A to C, late money, top-up after payment |
| `adminMarkOrderPaid`, `adminUpdatePayment` | D6 and D13 (D13 only in `EditSpec`) |

A report is fetched before the transaction that books it, so `Reported` lets a
transfer be reported unconfirmed after it was solidified or dropped.

### Escrow

What all of this promises about wallets: money leaves a wallet only for an
order (when it is created, or paid from the balance), an order keeps what it
holds or gives all of it back, once, and a wallet otherwise only grows, when a
deposit is settled. `Payments` implements it under the mapping `phase`, `held`.

### Inbox

What reports and bookings promise about transfers, with orders, addresses and
amounts left out: a payments row says that its transfer is on its way or
received; it says received only once the chain is final, or on an admin's word
(D6); and it never takes back what it said. Both `Payments` and `ChainScan`
implement it, and it is what they have in common: `Payments` books a transfer
with all that follows for its order, but lets a report be made at any time;
`ChainScan` says when reports are made, held back, worked off late, repeated or
lost, and reduces `processDeposit` to the row. In `Payments` what a row says is
read from its columns `state` and `by` (`said`); in `ChainScan`, where no admin
appears, it is `row`.

### ChainScan

A worker is a run of the task or a recheck; it holds the batch it read
(`todo`), the address it is at, the report still to be dealt with, and the
newest block time seen. Each statement of the code is an action, and a worker
may stop (`Crash`) between any two. `older` is the order of `last_scanned_at`.
Addresses of a batch and transfers of a report are taken in any order, which
covers the order the code takes them in. What a deposit does to an order is
the business of `Payments`; here it is the state of the payments row.

### Idempotency

`row` is `idempotency_keys`; `pc` and `answer` are how far a request is and what
it was told; `done` and `runs` are histories, of whose work was committed and
how often under each key. A repetition is a request of its own, with the same
key. The claim, the lookup of a key that is taken, the work and the record of
its answer are each a transaction in the code, hence an action:

| Actions | Code |
|---|---|
| `ClaimIdempotencyKey`, `GetIdempotencyKey` (`LookupStale`, `LookupMismatch`, `LookupReplay`, `LookupInProgress`) | `BeginIdempotent` |
| `Work`, `WorkFails` | the transaction of `CreateOrder`, `PayOrder`, the traffic push and the traffic-batch task; a failed one leaves its row, and a commit whose acknowledgement is lost fails as well |
| `CompleteIdempotencyKey` | `CompleteIdempotent`, whose own failure is logged and no more |
| `Crash` | the instance stops anywhere in between |
| `Expire`, `CleanupExpiredIdempotencyKeys` | `expires_at`, and the clean-up in the alive-gc task |

`Expire` waits for the claiming request to be over. A key lives for a day and
the platform ends a request after two minutes (`--timeout=120` in
`.github/workflows/deploy.yml`), so no request outlives its key.

### NodeSync

`user_rev` only grows and is only compared with a copy read earlier, so the
model keeps of each copy whether it has moved since: `fresh` are the nodes whose
etag is current, `reading` the polls between reading the revision and reading
the list. `held` is the list in a node's memory. A date in a user's row is
ahead of the clock or past it; `applied` says for which expiry the sweep ran.

| Actions | Code |
|---|---|
| `PollRev`, `PollAnswer`, `PollLost`, `NodeRestart` | `AuthenticateNode` and `GetUniProxyUsers`: revision, then list or 304 |
| `PushBegin`, `PushCommit`, `PushFail` | `PushUniProxyTraffic`, `AddNodeTrafficBatch`: the quota and the group's nodes are those of the statement's snapshot, the counter is fresh |
| `runExpireCheck`, `runTrafficReset`, `runTrafficBatch` | the tasks of `task.go` |
| `updateAdminUser`, `setBanned`, `terminateSubscription` | D1, ban, the end of a subscription by a refund |
| `createAdminNode`, `updateAdminNode`, `setAdminNodeEnabled`, `deleteAdminNode` | the console's writes to nodes, with the bumps each of them makes |
| `WriteUsers`, `TriggerGroups`, `Watched` | the trigger `users_bump_user_rev`: which columns, old and new group |

### Accounts

A request is two actions, `Judge` and `Write`: what was read is kept in `req`,
and anything may run before the write. A password is the number of times it was
set. `RegisterAccount`/`registerTx`, `Login`/`issueSession`,
`RefreshToken`/`RotateUserSession`, `ResetPassword`/`resetTx`,
`ChangePassword`/`changeTx`, `SendEmailCode`/`issueVerification` and
`CreateInviteCode`/`CreateUserInviteCode` are the pairs. `code` is
`email_verifications` with its tries, of which only the latest counts
(`Latest`), and `session` a row of `user_sessions`, with who rotated it.

### Refunds

One buyer and one inviter. `order` keeps of each order what was paid, held and
taken over from the one it upgrades (`prev`); `commission` has the status, the
amount and what its ledger entries add up to. D7 is one transaction of three
steps: `AdminGetOrderForRefund` (its sub-selects are read, the row is waited
for), `JudgeRefund` under the lock, `CommitRefund` or `RollBack`; `d7` is where
each admin's refund is. `Back`, `Window` and `WindowValue` are `GetRefundBasis`
and `summarizeRefundBasis`, the orders an upgrade took over; `planClawback`
voids a commission or claims a rounded-up share of it back. The completion of a
paid order and the confirmation of a commission have no code yet and are
external.

### Billing

What `Payments` and `Refunds` leave open: how much. One buyer, one period, time
in parts of a day. `purchase` has of an order what ADR 0013 computes with: what
was paid, what it took over, when its service began and ends. `Upgrade` is
`buildUpgradeDraft` (`Surplus`, from `VSource`, `DTotal` and `DLeft` of
`GetSubscriptionSource`); `RefundB`, `ConsumedTime` and `ConsumedData` are
`GetRefundBasis`, `CoolsOff` the gates of `classifyRefund`, and
`RefundPurchase` what D7 does with them, the end of the subscription included.
`held` and `drawn` remember what was served, which is what the property
compares with what was paid. `CompleteOrder` is external, as in `Refunds`; its
dates are those the comments of migration 0016 give the columns.

### AdminConsole

A request for a dangerous operation is four transactions: `Authenticate` and
`Gate` (the role), `RequireStepUp` (the row again, the code against its
secret), `ClaimTOTPCode`, and the operation with its audit row. Time is TOTP
steps; `used` is `used_totp`, which `CleanupUsedTotp` empties. The operations
are `CreateAdmin`, `resetAdminTotpTx`, `deleteAdminTx`, `adjustBalanceTx` and,
for node keys, `AdminCountActiveNodeKeys`, `CreateServerKey` and
`revokeAdminNodeKey` with its `Witnesses`.

### Catalog, Tickets, Mail, SubTokens

In `Catalog` an order is drafted (`BuildOrderDraft`), writes
(`WriteOrder`, which takes a use of its coupon under the coupon's lock) and
commits or rolls back; an admin's operation counts orders in its snapshot and
waits for its row (`AdminGetPlanForUpdate`, `AdminGetCouponForUpdate`), then
judges by what it counted.

In `Tickets` the user's reply and closing decide on the status in their
snapshot (`Begin`) and write later; `UpdateAdminTicket` and
`CreateAdminTicketMessage` write the row as it is. `events` are the closings on
record.

In `Mail` a row is claimed (`RunMailSend`, `ClaimQueuedMail` sets `sent`), then
handed over (`SendSucceeds`, `SendFails`), then marked if that failed; a call
may stop anywhere (`MailSendStops`). `RemindSweepFinds` and
`RemindSweepQueues` are the two statements of a sweep.

In `SubTokens` a token has the time its transaction began and shows when it
commits; `RevokeAllUserSubscriptionTokens` writes the time its own began.
`ResolveSubscriptionToken` honours a token that is neither revoked nor issued
at or before that time.

### Desktop

One event loop: a step runs from one await to the next. `operation` has the
stage of each call of connect, disconnect, tick and setPrefs; `process` the
sing-box processes, who waits for their port, and whether a restart is pending;
`core` the fields of `Core` (the handle, the port, the restarts left,
`stopping`). `Connect`, `StartCore`, `LaunchCore` and `Connected` are the parts
of `connect` and `Core.start`, `NoLink` and `ConnectFails` its failures, of which the
first, a `refreshSubscription` that fails, reports no more than the error
(`lastError`) and leaves the status; `Disconnect`, `ClearProxy`, `Disconnected` of
disconnect, sign-out and tick; `SetPrefs`, `Reconnect` of setPrefs; `Started`,
`NotStarted`, `onExit` and `onUnexpectedExit` are the callbacks. A process that
was killed is assumed not to answer on its port any more.

### Extension

Like `Desktop`, a step runs from one await to the next: `job` has where each
call of the popup, an alarm or the browser is, and whether its connect was
aborted. `chrome.proxy` answers in the order it was asked (`line`), and what it
was asked for is in place from then on (`pac`: that of one endpoint being
probed, of a connection, or none). `ConnectStarts` to `ConnectSucceeds`,
`ConnectAborted` and `NoRoute` are `connect`, `probeEndpoints` and `fail`;
`DisconnectStarts`, `SignOutStarts`, `onAuthFailure` and `onAuthRejected` begin
the ways out; `Fetches`, `reapplyPac` are the alarms and setPrefs. `Emit` saves
the connection (`kept`), which is what `load` starts from after `WorkerStops`.

### KeyCache

`cache` says which of the two caches this is; they differ in when they are fresh
and in whom the throttle asks. A fetch holds the mutex from `FetchBegins` to
`KeysFetched` or `FetchFails`, and no longer than the client's timeout. A call
that needs no fetch changes nothing, so it is no action: `Accepts` and `Refuses`
are what it would be told at any time. Google (`Rotate`) signs with a key, then
gives it up.

### Histories

Some variables record what the code does not: `late`, `crossed`, `overtaken`,
`doubled`, `backwards`, `overlapped`, `silent`, `entangled`, `raced`, `mingled`,
`marred`, `unmetered`. Each marks
the one race, silent write or forgetful path which breaks a property, so that the property can
say that nothing else does. What the marked race does is listed under
[disagreements](#where-the-code-and-its-documents-disagree). `spent`, `twice`,
`dead`, `credited`, `done`, `runs`, `edits`, `tries`, `failed`, `held` and `drawn` keep what happened.

## What each run checks

All bounds are constants of the cfg. `CHECK_DEADLOCK FALSE` everywhere: the
instances are finite (orders, transfers, time and ids run out), so they stop.

| Run | Instance | Distinct states | Checks |
|---|---|---|---|
| `wallet` | 3 orders, 1 user, 1 address, 1 transfer, coupon with 2 uses | 1.2 million | `HoldSettledOnce`, `WalletReconciles`, `CouponNotOversold`, `AddressNamesOneOrder`, `KeepsEscrow` |
| `chain` | 1 order, 3 transfers of 3 amounts, 2 rates | 1.3 million | `NoUnitSpentTwice`, `OverpayReturned`, `KeepsInbox` |
| `live` | 2 orders, 2 addresses of which 1 may be frozen, 2 transfers of one transaction | 0.35 million | `OverdueOrderSettles`, `SolidMoneyBooked` |
| `scan_cursor` | 1 address, 2 transfers, task and recheck | 1.2 million | `NothingSkipped`, `KeepsInbox` |
| `scan_live` | 3 addresses in batches of 2, at most 1 frozen, 1 transfer | 0.15 million | `SolidifiedBooked`, `NoneStarves` |
| `idem_once` | 4 requests on 2 keys: a payment, the same again, another order's, a creation | 78 thousand | `AtMostOnce`, `ReplayFaithful`, `KeyFreed` |
| `nodes` | 2 nodes, 2 groups, 1 subscriber with 2 keys, a report of each node in flight, 1 admin write or restart | 0.55 million | `EtagTruthful`, `LeavesNode`, `UsedUpLeaves` |
| `accounts` | 2 addresses, 1 invite code, 2 requests at a time, every limit 1 | 5.1 million | `TypeOK`, `InvitesTruthful`, `OldPasswordsOut`, `OneEndPerLogin` |
| `refunds` | 2 orders, 2 admins, 1 commission | 1.4 million | `RefundsWithinPayments`, `CommissionStopped`, `ClawbackSuffices` |
| `parts` | console: 3 admins, 2 requests, 2 keys; catalog: 2 orders, 2 admins, 1 plan, 1 coupon; a ticket with 2 requests; 3 mails, 2 sends, 2 sweeps; 3 tokens, 2 revocations; desktop: 2 operations, 2 processes, 2 ports; extension: 2 jobs; signing keys: 2 kids, 6 units of time; 3 orders on 3 tiers, 2 refunds, 4 units of time | 3.0 million | `PartsTypeOK`, `CodeAuthorisesOnce`, `LockedOut`, `OwnerRemains`, `ActiveFound`, `SoldAsListed`, `TicketTruthful`, `SentOnce`, `RevokedStaysOut`, `ProxyAsShown`, `ExtensionTruthful`, `KeysFollow`, `SamePriceByEveryPath` |
| `double_refund` | 1 order, 2 admins | violation | `RefundedOnce` |
| `desktop_orphan` | 1 operation, 2 processes | violation | `FailedStartLeavesNone` |

`parts` is nine modules in one run, composed by `Parts`. They share no state, so a
behaviour of the composition that interleaved them would show no state of any one
of them that it does not reach by itself; the variable `part`, chosen at the
start, says which moves, and the reachable states are the sum of the nine and not
their product. That a behaviour of the composition is one of each part is a
theorem (`PartsApart`), so what is proved of a part holds there as well.
What comes in twos there is interchangeable, and one permutation that swaps all
of it is the symmetry; the properties of the run are invariants.

Why the bounds are enough. In `wallet`, three orders are the least at which one
is refused for want of balance, one for the coupon, and one for an address; one
wallet is where they all meet. In `chain`, three transfers are the least at
which an order is paid with a write-off, the write-off is recovered, and the
excess is credited, and the amounts 3, 5 and 8 against a quote of 9 or 6 give
every tier; `CentScale` 2 and the rates 2 and 3 make the quote and the credit
round. In `live`, two orders and two transfers are what one transaction takes to
pay both, and the second address is there to be free, watched no longer, or
frozen. In the scan, `Lookback`, `Delay` and `Lag` are equal and 1, the tightest
values the assumption allows, and in `scan_cursor` four units of time let a
cursor leave a transfer more than a look-back behind.

In `idem_once`, a key is claimed, repeated, reused for another order, expires
and is claimed again, all in one behaviour: three requests are the least at
which one works, one is turned away and one comes after the key expired. The
second key tells rows apart.

In `nodes` the second node serves the subscriber too, so that two statements are
in flight together: two reports use up plan and pack, and one uses up the plan
when the pack is gone, with the other behind it. The second group, which is the
second node's alone, is where a user may move to and a bump may go astray. One
admin write is enough for each race of a write with a poll, a report and a task
(two would only follow one another); the starting rows are a subscriber in good
standing with one of his three dates ahead of him, or expired and swept, so that
what needs a history starts there. In
`accounts` two requests are what a race takes, and with limits of 1 the second
reaches each limit. In `refunds` the amounts make the share of a commission
round; a second order is where the window of an upgrade starts. In `parts` each
component has two of every kind of request that races, and what they race for:
one plan, one coupon, one ticket, one user; three tokens and three mails are one
before, one during and one after. The third admin's row is the one
`ActiveFound` is about, with an address that an earlier row had. In the extension
two jobs are what it takes to cross, abort or supersede one another; with three,
checked by itself (a million states), nothing new was found. For the signing
keys the throttle is 2, what was fetched is fresh for 3, and a fetch may take 1:
six units are a first fetch, its expiry, a rotation and a failure of the next.
In `Billing` three orders are the least at which an upgrade is upgraded, and two
refunds the least at which one counts on another; a period is two days of two
units, so that days round up, and the prices share no factor, so that cents
round down.

The type invariants of `Payments`, `ChainScan`, `Idempotency`, `NodeSync` and
`Refunds` are proved and not run. The inductive invariants of the proofs were given to TLC first, on the
instances of the runs.

Each property of a passing run has a mutant in `PROJECT.json`: a plausible slip
in one handler (a dropped status check, a missing `amount_balance`, a look-back
left out, a limit not checked again, a bump forgotten) under which TLC finds
the property violated. The mutants are the operators marked `Mutant:` in the
modules; no behaviour of the models uses them.

### Fairness

`Payments!Fairness`: `order-timeout` runs every minute, so an order that stays
overdue is taken (`WF` on `runOrderTimeout`); and scan after scan deals with a
solidified transfer until it is booked, as long as its address is one that
`ListScannableChainAddresses` gives, that of an open order or of one still
watched, and is not frozen (`WF` on `Scanned(t) /\ processDeposit(t, TRUE)`).
Rechecks and webhooks, users, administrators and the chain owe nothing.
`SolidMoneyBooked` leaves out what this leaves out, and the transfer whose
transaction is another order's reference.

`ChainScan!Fairness`: Cloud Scheduler starts the task every minute and the task
goes on (`WF` on its steps); no fetch and no deposit fails every time it is
tried (`SF`); and from some point on the process is not stopped any more. The
last is needed because a stop right after every fetch would leave nothing done
for ever, and is what the platform promises at best. Rechecks owe nothing.

`Idempotency!Fairness`: a request that arrived is worked on or ends with its
instance, a day passes, alive-gc runs every few minutes. No request need
arrive, and a request that could finish may be lost instead (`WF` on `Handle`
is satisfied by `Crash`).

`NodeSync!FairSpec`: a node polls every minute (`WF` on `PollRev`), not every
answer is lost (`SF` on `PollAnswer`), and Cloud Scheduler runs expire-check
every five minutes (`WF`). Reports, the console and the other tasks owe nothing;
nothing enqueues traffic-batch.

`NoneStarves` holds while fewer addresses are frozen than a batch holds
(`MaxBlacklisted` below `BatchSize`). A frozen address, or one whose fetch
fails, is passed over without a scan time and stays at the front of the next
batch; a hundred of them, still watched, would fill `chainScanBatchSize`. The
comment beside that constant ("they take turns, none starves") leaves this out.

## What is proved

Every safety property of the passing runs is a theorem, for every value of the
constants that the named assumptions allow, and each type invariant with it; what
is left to TLC is liveness. The one theorem of these with a hypothesis of its own,
about price lists, is `SamePrices`:

| Theorem | Says |
|---|---|
| `PaymentsProofs!TypeCorrect` | `Spec => []TypeOK`; with it, no wallet or ledger sum is ever negative |
| `PaymentsProofs!HoldsSettled` | `Spec => []HoldSettledOnce` |
| `PaymentsProofs!AddressesDistinct`, `AddressesKept` | `Spec => []AddressNamesOneOrder`, `Spec => AddressKept` |
| `PaymentsProofs!CouponsBounded` | `Spec => []CouponNotOversold` |
| `PaymentsProofs!WalletsReconcile` | `Spec => []WalletReconciles` |
| `PaymentsProofs!NothingSpentTwice`, `ExcessReturned` | `Spec => []NoUnitSpentTwice`, `Spec => []OverpayReturned` |
| `PaymentsProofs!ImplementsEscrow`, `ImplementsInbox` | `Spec => KeepsEscrow`, `Spec => KeepsInbox` |
| `PaymentsProofs!EditsKeepBooks`, `EditsKeepEscrow` | with D13's edits: `EditSpec => []` of `HoldSettledOnce`, `WalletReconciles`, `AddressNamesOneOrder`, `CouponNotOversold`; `EditSpec => KeepsEscrow` |
| `ChainScanProofs!TypeCorrect`, `NoneSkipped` | `Spec => []TypeOK`, `Spec => []NothingSkipped` |
| `ChainScanProofs!ReportsStayTrue`, `ImplementsInbox` | `Spec => []ReportsTrue`, `Spec => KeepsInbox` |
| `IdempotencyProofs!TypeCorrect`, `WorkOnce`, `RepliesFaithful` | `Spec => []TypeOK`, `[]AtMostOnce`, `[]ReplayFaithful` |
| `NodeSyncProofs!NodesTyped`, `EtagsAreTruthful` | `Spec => []TypeOK`, `[]EtagTruthful` |
| `AccountsProofs!AccountsTyped`, `InvitesTell`, `OldPasswordsAreOut`, `LoginHasOneEnd` | `Spec => []TypeOK`, `[]InvitesTruthful`, `[]OldPasswordsOut`, `[]OneEndPerLogin` |
| `RefundsProofs!RefundsTyped`, `RefundsStayWithin`, `CommissionStops`, `ClawbackIsWhole` | `Spec => []TypeOK`, `[]RefundsWithinPayments`, `[]CommissionStopped`, `[]ClawbackSuffices` |
| `PartsProofs!ConsoleInvariant`, `CodeOnce`, `OutIsOut`, `OwnerStays`, `ActiveIsFound` | `Spec => []ConsoleInv`, `[]CodeAuthorisesOnce`, `[]LockedOut`, `[]OwnerRemains`, `[]ActiveFound` |
| `PartsProofs!SoldIsAsListed` | `CatalogSpec => []SoldAsListed` |
| `PartsProofs!TicketsAreTruthful` | `TicketsSpec => []TicketTruthful` |
| `PartsProofs!SentAtMostOnce` | `MailSpec => []SentOnce` |
| `PartsProofs!RevokedIsOut` | `TokensSpec => []RevokedStaysOut` |
| `PartsProofs!ProxyIsAsShown` | `DesktopSpec => []ProxyAsShown` |
| `PartsProofs!PopupTellsTheTruth` | `ExtensionSpec => []ExtensionTruthful` |
| `PartsProofs!CachesFollow` | `KeysSpec => []KeysFollow` |
| `PartsProofs!BillingTyped` | `BillingSpec => []BillingTypeOK` |
| `PartsProofs!NeverCheaper` | if `DearerByBoth`: `BillingSpec => []NoneCheaper`, the half of `SamePriceByEveryPath` that says no path costs less than its days |
| `PartsProofs!SamePrices` | if `PricesAgree`: `BillingSpec => []SamePriceByEveryPath` |
| `PartsProofs!PartsApart`, `PartsTyped` | `PartsSpec` implies the specification of each part; `PartsSpec => []PartsTypeOK` |

### Assumptions

They are named `...Assumption` in the modules and TLC evaluates each on the
instances of the runs. Most only say that amounts are natural numbers, that a
null value is no value, and that the sets summed over are finite. These say
more:

| Assumption | Why the code justifies it |
|---|---|
| `ScanAssumption`: `Lag <= Delay <= Lookback` | the look-back is longer than a transfer takes to be final, and that no less than it takes to appear |
| `NodeSyncAssumption`, `AccountsAssumption`: where a behaviour starts | rows at the start satisfy what the writers of the rows keep (a sweep that ran had a date that was past; a code was used by the accounts made with it) |
| `ConsoleAssumption`: `Retention >= 2 * Skew + Patience` | `CleanupUsedTotp` keeps a code for far longer than a request may take and clocks may differ; there is a founder, who is the first row |
| `KeyCacheAssumption`: `Refetch + FetchTimeout <= ttl` | the least time a set is held is five minutes, a fetch takes five seconds |

What an administrator may do to the price lists is no assumption of `Billing`: its
types are proved for any lists. What an upgrade or a refund is worth does depend
on them, and the two theorems about prices carry the condition they need, which
TLC evaluates on the instance of `parts` (`ListsAgree`):

| Hypothesis | Where it comes from |
|---|---|
| `DearerByBoth`: of two tiers the one that is dearer by the period is no cheaper by the month | an upgrade is judged by the price of the period (`order.go:1246`), but a refund charges the traffic of the whole cycle at the monthly price of the last order: were that lower, traffic drawn before the upgrade would be charged too little |
| `PricesAgree`, besides: a period is no dearer than its days by the month | the longer periods are sold at a discount, if at all; were one sold above, who keeps his order to its end would have paid more than its days by the month |
| `PricesAgree`, besides: `PayWindow <= 1` | `orderPayWindow` is 30 minutes (`order.go:75`), so this says that a unit of time is at least that; the price of an upgrade is computed when it is ordered and its service begins when it is paid, which costs the buyer less than a day as long as rounding up to days is what hides it |

### The arguments

`Payments`. `TypeOK` is inductive once one knows that an order
that awaits money has an address and that a transfer on the chain has one
(`AddressByStatus`, `TransferAddressed`): without them a deposit could meet an
order at `None`. `HoldSettledOnce` needs `AddressByStatus` too, since it tells
an order paid from the balance from one paid on the chain by its address.
`IInv` is the conjunction. `CouponsBounded` rests on an invariant of its own:
`couponUsed` equals the number of written orders with the coupon, and never
exceeds the total. The refinement maps each handler to `Create`, `Pay`,
`Return`, `Deposit` or a stutter of `Escrow`, using `IInv` for what an order
holds when it is closed.

The properties about sums need what a step does to a sum. `Sums` proves that
`SumFunctionOnSet` adds up one element at a time, in any order, and grows with
the set and the function, by the least subset at which it would not: the
well-foundedness of the subsets of a finite set is in the library as a fact
about a set, which induction over the set is not. With this `WalletReconciles` is inductive
by itself. `NoUnitSpentTwice` and `OverpayReturned` speak of receipts at an
address, of which only some are booked; they are proved together (`MoneyInv`):
what the order consumed and what was credited is covered by the rows booked as
received (`Covered`), nothing is written off or credited before an order is
settled (`NothingEarly`), and a row says what the chain says or what an admin
vouched for (`RowsFit`), so that booked money is real. In the proof the three
are said of each order with its address (`Standing` in `PaymentsProofs`), and a
settlement touches one of them. `OverpayReturned` allows each receipt less than
an amount that is worth a cent (`Worthwhile`), since every credit is rounded
down by itself, and dropped when it has more cents than an int64; an order an
admin settled by hand (D6) is left out. That `Payments` implements `Inbox`
follows from `RowsFit`: a row that is only confirming is no admin's, so that a
promotion is a `Receive`, and a report about an admin's row leaves what it says
alone.

An admin's edit of a payments row (D13, `EditSpec`) breaks what is about money on
the chain, since a row that said received may say confirming again and be settled
again. `IInv`, the ledger and the count of the coupon do not rest on the rows at
all (`EditKeeps`), so whatever is edited, and however often a deposit is settled
again for it, orders are settled once, wallets reconcile with their entries, and
`Escrow` is kept: `EditsKeepBooks`, `EditsKeepEscrow`.

`ChainScan`. A cursor moves to the newest block time of a
report of which nothing failed, so one must know that everything in its address
older than that, less the look-back, is booked. A transfer the report did not
hold was older than the scan's starting point and booked by then
(`TodoCovered`; a cursor is never ahead of the clock, so nothing can appear
behind it later: `Lag <= Lookback`); one the report called final is booked when
the report is worked off; one it called unconfirmed is less than `Delay`, hence
less than the look-back, older than anything else in the report
(`BatchCovered`, `Near`). `ScanInv` is the conjunction, with `Timely` for the
clock. Overlap is what makes the quantification over workers necessary: each
worker carries its own stale starting point, and the invariant speaks of each.
That `ChainScan` implements `Inbox` rests on `ReportsTrue`: a report still to be
dealt with stays true, because what the chain is final about stays final.

`Idempotency`. Work is done by a request that got its key, so
it is enough that such a request is alone with its key until it is answered
(`Holds`: the row is in progress, its own, and not expired) and that nothing
was committed under the key before it (`ExecutingFirst`, `RowFaithful`: a key
without a row has no committed work). A failed request leaves its row, which is
what keeps the second of two deliveries out when the first one's commit was
never acknowledged. A replay reads its row's response, which is the owner's, and
the owner asked for the same (`SameFingerprint`).

`NodeSync`. `EtagTruthful` is not inductive: what an etag may hide of a user
the sweep has not yet seen, it may hide from nodes of his group alone, or a
change of group would carry the excuse to a node that has none (`HeldTruthful`);
a sweep has run only for a date that is past (`SweptIsPast`), so that one that
comes changes what it bumps; and a node not created yet has polled nothing
(`UncreatedSilent`). Each writer of a user's row then either changes nothing a
list shows, or bumps the nodes that show it, or leaves its mark in `silent`. A
report leaves one only if its statement saw another quota or other nodes than
those it is booked under (`Stale`); else it bumps every node of the group, or
does not cross the quota and changes no entry (`NotCrossing`).

`Accounts`. A code's uses are counted against the accounts that name it, so an
invite code that was not made has no user (`NotYetMinted`), and a registration
that was judged still names a code (`RequestsFit`). For passwords and ends it is
not enough to look at live sessions: a refresh that was judged will bring one
back whose time has run out. `Counts` is live or to be renewed by a refresh that
is not late; of these each has the password in force (`CountsCurrent`) and is
alone in its login (`CountsAlone`), and a login under way that is not late has
it too (`LoginsCurrent`).

`Refunds`. What an order may give back is what its row and those of the orders
behind it say was paid, `amount_paid` and `amount_balance`, which for an order
paid from the wallet is less than it cost (`BasisIsPayments`). These orders are the least set closed under `prev`; that set only
grows while the refund waits, since an order's source is fixed when it is
created (`FromTheStart`). A refund that has its order to itself knows the sum of
the earlier ones (`AloneWithin`), and what it decided under the lock is right at
its commit, one holding the lock at a time (`OneHolds`, `JudgedStands`).
`ClawbackSuffices` is about the last of the parts, so the invariant is about
each: what has been claimed is, of the commission, at least the fraction that
was refunded of the payment (`ClaimedInStep`, a product on both sides, since the
share is a rounded quotient).

`AdminConsole`. A code comes again within twice the skew and the patience of a
request after it was claimed (`CodesTimely`); until then `used_totp` has it
(`SpentRemembered`), which is where the assumption on `Retention` is used.
`OwnerRemains` needs that only owners have requests under way (`OwnersAsk`),
`ActiveFound` that an address has one active row (`EmailsUnique`).

`Catalog`. An order agrees with its plan from the draft on (`DraftedAsListed`),
and an archiving counts orders which, once settled, stay so (`CountedSettled`);
a use of a coupon is an order that names it (`UsesCounted`). `Tickets`: a row
tells what is in it (`RowsTruthful`) and a reply that is to meet a closed ticket
knows it, or was overtaken (`RequestsAware`). `Mail`: one call at a time has a
mail (`ClaimedOnce`), it was not handed over before it was claimed
(`HandedOverOnce`); of two sweeps that found a user one is marked (`FoundOnce`).
`SubTokens`: a token that was revoked carries its own mark or began before the
time of the last revocation of all, as long as that never goes back.

`Desktop`. An operation that leaves the window at `starting` is under way, or has
put its error on record. While nothing is entangled, who stops is alone with the core stopped
(`KeptApart`), and a core that runs, or will run again, has the proxy or a launch
that is to set it; an operation that waits has one process (`WaitersWait`).
`Extension`. The invariant must hold at each await, since the worker may be
stopped there: one connect goes on at most, who takes the setting down finds it
so, and both copies of the status fit the setting (`JobsApart`). `KeyCache`. What
is held was fetched by an attempt that began a ttl before it expires
(`HeldAsFetched`), what the last one did not find is younger than it
(`MissedAreNew`), and attempts keep their distance (`Spaced`).

`Billing`. `SamePriceByEveryPath` is about sums over a window, and a window is
not in the state: it is a new order and all that upgrade it, directly or not. So
the books come first (`Books`): orders are written one after the other, an upgrade
comes after an order that has begun, and costs more (`Linked`), services follow
one another in time (`Dated`), no order counts for more than its price (`Worth`),
a draft is priced by its source (`DraftPriced`). They are inductive by themselves.
A window that nothing came across is then a line, the chain of its last order, and
`WindowsFit` says what such a line has cost: all but the last are completed and
none is dearer by the month (`OnlyLastRefunded`); what was paid covers, at the
price of the period, what was served before the last and the whole of the last,
but for a cent an order (`PaidAhead`); what a refund leaves covers what was served
by the month (`LeftCovers`); the last is served until now or was to its end
(`ServedThrough`); and a first upgrade cost the difference of the two prices for
the days that were left, counted to less than a day and the time an order may wait
for its payment (`FirstUpgrade`). In the proof the rounded quotients are bounded
from both sides and multiplied out; a sum gains a summand when an order begins,
and one summand changes when time passes or traffic is drawn, which is where the
lemmas of `Sums` come in. The property is then read off one chain at a time
(`ChainNotCheaper`, `ChainNotDearer`). The price lists matter in two places only:
`DearerByBoth` for the traffic a refund charges, the rest of `PricesAgree` for the
bound from above.

`Parts`. A step is a step of one part and leaves the variables of the other eight,
so of each part it is a step or none (`PartsStep`).

### Model-checked only

Liveness (`OverdueOrderSettles`, `SolidMoneyBooked`, `SolidifiedBooked`,
`NoneStarves`, `KeyFreed`, `LeavesNode`, `UsedUpLeaves`), which is beyond the
prover.

## Where the code and its documents disagree

Two disagreements have a run which TLC ends in a violation:

| Run | Property | What happens |
|---|---|---|
| `double_refund` | `RefundedOnce` | `AdminGetOrderForRefund` locks the order but takes the sum of earlier refunds from its snapshot: two full refunds at once both pass, against the comment at `admin_orders.go:1381` |
| `desktop_orphan` | `FailedStartLeavesNone` | a process that exits before its port answers is launched again while `Core.start` still waits; `start` fails, the second process stays, and its own start turns the window to on with the proxy unset, against the comment at `core.ts:119` |

The others were met while modelling. Where a definition states the claim, it is
named; it is in the module, and a cfg that checks it shows it violated.

Orders and payments:
- `payWithBalance` leaves `amount_paid` at 0 (`order.go:1822`), so for an order
  paid from the wallet the refund is computed from what was held of it alone, or
  from nothing; `orders.sql:336` says that the base is all that was paid along
  the chain, and `order.go:2635` why `amount_paid` must grow
  (`BasisIsPayments`). The same base makes the share of a commission that is
  claimed back the whole of it.
- One transaction pays two orders: the first has it as its reference, the unique
  index on `gateway_ref` (`0006_orders.up.sql:82`) refuses the second for ever,
  and ADR 0012 (line 507) calls the index harmless (`ReferenceIndexHarmless`).
  Such a transfer is the exception `SolidMoneyBooked` names.
- A partial payment booked while its order was open is neither kept nor credited
  when the order expires (`tasks.sql:216`), though ADR 0012 says such money is
  returned (`ExpiredMoneyReturned`).
- Two parallel `createOrder` requests of a user both use a once-per-user coupon:
  `uses_per_user` is judged outside the transaction and not again
  (`order.go:1277`; `CouponPerUser`).
- After D13 puts a settled payment back to `confirming`, the next scan credits
  it again (`admin_orders.go:2050`; `TransferCreditedOnce` under `EditSpec`).
- `loadAccrual` takes no commission to be 0 and says that this makes the floor of
  the price stricter; it makes it looser, as the comment a few lines on says
  (`order.go:1334`, `order.go:1339`).

Idempotency and tasks:
- A traffic-batch delivery that failed leaves its key in progress, so the
  redelivery is answered 200 and never done, which the comment at `task.go:768`
  warns against (`AckedWorkDone`).
- A batch resent after its answer could not be recorded is dropped
  (`LookupInProgress`), where the comment in `node.go` says it is executed once
  more.

Nodes and traffic:
- A quota is lowered (a pack swept, or D1) and the node polls under a running
  `AddNodeTrafficBatch`, which still counts with the old one: the report crosses
  the new quota only, nobody bumps, and the user stays; `api-contract.md:654`
  says that the crossing must bump, and `tasks.sql.go:95` counts three other ways
  to miss it (`ExhaustedLeaves`). A group changed under the statement does the
  same. `UsedUpLeaves` leaves out these reports and no other.
- `runTrafficReset` moves no revision, so a user whose quota it restores stays
  out of the lists until something else moves it; the comment in `stats.sql` at
  `AdvanceUserResetCycle` says that it reaches the nodes by itself
  (`QuotaReturns`).
- `updateAdminNode` bumps a group it took from a node after the node has left it,
  so a change that only takes groups away never moves the node's own revision,
  and it goes on serving their users.
- D1 on a user who was swept leaves `expiry_applied_at`, so the sweep passes
  over the second expiry: he stays on the nodes (the `"earlier"` that `LeavesNode`
  leaves out).
- `u_lifetime` grows with each report and again at the reset (`servers.sql:267`,
  `stats.sql:253` against `0003_accounts.up.sql:87`).

Accounts:
- A login or refresh judged before a reset writes its session after it, which
  lives on with the old password's authority; two refreshes of one session leave
  two live ends.
- A reset link works for two requests at once, and older links stay valid; a
  change judged on the old password overwrites a reset.
- Counted limits (codes per hour, unused invites) are overrun by requests that
  count before either writes; `wallet.sql:185` admits it.

Refunds and commissions:
- The refund of an upgrade covers its window with the orders before it, and each
  of those can be refunded by itself afterwards.
- The source of an upgrade can be refunded, or used by a second upgrade, before
  the first is paid.
- Several partial refunds claw back, each rounded up, more than the commission
  (`ClawbackBounded`).
- A second upgrade costs too much. `buildUpgradeDraft` scales the price of the
  whole period by the days of its source (`order.go:1254`), which after a first
  upgrade has fewer than the period: in the example of ADR 0013 (line 491) the
  last 8 days of a month at 12000 cost 6400, not 3200, although the ADR (line 33)
  and its line 493, about the surplus, count them against the month. A chain
  held to its end is then dearer than its days at the price of the month
  (`NotDearer` without its bound on the orders of a window).
- The first refund of an order sets `transfer_enable_plan` to 0, so the next one
  finds no traffic used: it charges none, and passes the gate of a light user
  (`unmetered`).
- A refund of an old order ends the subscription of a newer one, and an order
  that was upgraded from is refunded as if its own service had gone on
  (`marred`).
- `first_settled_order` counts orders that are paid or completed now, so a first
  order that was refunded is none.

Admin console:
- `TouchServerKey` and `TouchKeyLastUsed` are never called, so no key has a
  witness and `AdminRevokeNodeKeyTwoStep` refuses always: a key leaves by its
  expiry only, whatever `api-contract.md:320` and `middleware/node.go:208` say.
  Its `EXISTS` would not keep two revocations apart either
  (`admin_ops.sql:411`), and two issues of a key count before either writes.
- Two owners disable each other when both have passed the gate (`crossed`).
- The comment and the warning of `DeleteAdmin` (`admin_users.go:2189`) say that
  `LookupAdminByIAPEmail` has no condition on `disabled_at`, takes the row that
  was disabled, and leaves an admin who is made again with a 403 for good. The
  query has been ordered since (`middleware/admin.go:1033`): it takes the row in
  office first, which is what `ActiveFound` says.
- What D10 audits as before plus the amount may differ from what it audits as
  after, when another write came between.

Catalog:
- The comment at `AdminGetPlanForUpdate` says that the lock makes the counts
  beside it meaningful; the counts are those of the statement's snapshot. A coupon can be
  deleted under an order just committed, a plan archived or changed in kind
  under an open one (`overtaken`).
- An edit of a coupon that does not say `enabled` enables it again.

Tickets and mail:
- A reply judged before a close lands in the closed ticket, though
  `ticket.go` and `tickets_user.sql` say the single statement closes the window
  (`raced`); two closings both leave an event.
- A row that failed is never sent again, though the task answers 503 so as to be
  delivered again; two sweeps at once remind twice (`doubled`, which `task.go`
  admits); a queued `verify_code` row ends as failed.

Subscriptions: a D3 that began before the user's own revocation may commit after
it and set the time back, which revives tokens issued in between (`backwards`);
the limit of tokens is counted before it is written, which the code admits.

Desktop (more than what `FailedStartLeavesNone` shows): a connect without a link
at hand whose `refreshSubscription` fails returns with the status still
`starting` (`controller.ts:156`, `192`), where the comment at line 177 says that
every failing step ends in `failed` (`ConnectEndsOnOrFailed`); the button stays
disabled (`renderer/index.ts:207`), and the way out is another region, or
signing out. A change of region while connected starts a second process and forgets the first; a start resets `stopping` while the
restart of an earlier process is pending, which then launches one more; a
`NotStarted` clears the handle of a newer start; disconnect or sign-out during a
connect is overtaken by it. The comments in `index.ts` and `core.ts` say that no
process is left behind.

Extension (`mingled`; the rule at the head of `controller.ts` is that the popup
never pretends):
- setPrefs or the alarm that fetches the configuration sets the PAC again between
  another job's clearing it and that job's writing `off` or `no-route`: the
  browser stays proxied while the popup says that it is not.
- A connect begun while a sign-out awaits its logout call, or under way when a
  fetch is answered 401 (`onAuthFailure` aborts nothing), goes on and ends `on`
  with nobody signed in.
- A connect that was superseded still fails: it clears the proxy of the newer one
  and saves `no-route`, so that a service worker stopped after that does not know
  that it was probing, and the PAC of a probe stays. One that succeeds takes the
  newer one's `connectAbort` away, which then cannot be cancelled.
- `load` calls a connection off that another extension's setting hides, without
  clearing ours, which comes back when the other extension goes.

Signing keys: `IAPKeySet` may fetch twice within `jwksRefetchInterval`, once
because what it has expired and once for an unknown kid, though the comment
there (`admin.go:827`) calls it the least time between two attempts; `GoogleJWKS` may not.

## What is not modelled

- Webhook deduplication (`webhook_events`): what a webhook may book is in
  `Payments`, where a report may come at any time and any number of times.
- Rate limits: they only refuse.
- The web front ends: views over the API.
- Notices, articles and settings: single statements with an audit row. The audit
  row is written in the transaction of its operation and is not state of its own
  here.
- A node's configuration and its revision (like the user list), alive reports
  and device counts, statistics, retention, alerts.
- Prices for several periods, the price floor and percentages of coupons;
  formats, mail text, subscription formats, HTTP envelopes, logging;
  SQL that only reads; provisioning scripts; generated code (the HTTP envelopes,
  the interface and the row types of the queries), which, its SQL apart, is more
  than a third of the implementation's lines. What remains outside the map is
  for the most part lists, views, validation of input and formatting, in which
  no state changes.

Inside `Idempotency`: `BeginInternalTask` has no caller and is left out; two
different requests never have the same hash.

Inside `Payments`: an order has one balance to hold and at most one coupon, as
in the code; `markOrderPaid` grants no subscription, since the code that would
(`paid` to `completed`) is not written yet; a failed statement rolls its transaction back and is the absence of a step;
`confirmations_required` is for display and does not appear in the model.

Inside `AdminConsole`: two steps never have the same six digits. Inside
`Refunds`: what time and traffic took from the value of a subscription is a
choice of the model; `Billing` computes it. Inside `Billing`: coupons, renewals,
balances and races. Inside `Desktop`: tabs, routing tables, store, diagnostics.
Inside `Extension`: which endpoints, rules and credentials a PAC is made of.

## Plan

1. Done: `Money`, `Payments`, `Escrow`, `Inbox`, `ChainScan`, `Idempotency`, with
   their proofs.
2. Done: `NodeSync`, `Accounts`, `Refunds`, `AdminConsole`, `Catalog`,
   `Tickets`, `Mail`, `SubTokens`, `Desktop`, `Extension`, `KeyCache`, `Billing`,
   model-checked.
3. Done: proofs of the safety properties of all of these, the prices of `Billing`
   and the composition of the parts included.
4. Renewals and several periods in `Billing`, once code completes an order; the
   price floor; `webhook_events`.
