# Verification of the business suite: models, checks and proofs

TLA+ models of the parts of this repository where several requests, background
ticks, a payment gateway, a paired desktop or a crash meet the same rows. Each module is
translated from the TypeScript and SQL it names in `PROJECT.json` ("map": the
definition, the file, the lines). TLC checks small instances; TLAPS proves the
safety properties for any number of tables, orders, payments, turns, handlers,
restores, invoices, plans, synced changes, campaigns and messages, under the
assumptions named below.

The server is one Node.js process over PostgreSQL. Handlers interleave at every
`await`, every transaction runs at READ COMMITTED, and the only mutual
exclusion is `SELECT ... FOR UPDATE`, unique indexes and row locks taken by
writes. That is the concurrency the models have.

## 1. The system

State, operations and interactions, per component. "→" names the module.

| Component | State | Operations | Interacts with | What is hard | What makes it correct |
|---|---|---|---|---|---|
| Table service (`table-session-service.ts`, the `orders`, `table-sessions` and `tables` routes) → `TableService` | `orders`, `table_sessions`, `table_session_tables`, `dining_tables.status`, `is_active` | take an order, pay, void, move, detach, seat, merge, release, set the status by hand, deactivate, delete | checkout calls release; moves and orders open sessions | unlocked reads used later; locks taken in different orders; two cashiers at once; repeated submissions | one visit per table, one settlement per order, cashiers do not leave the closing to one another, nothing stranded, nothing evicted |
| Gateway payments (`wallet-service.ts`, `payment-gateway.ts`, `billing-service.ts`) → `Payments` | `billing_payments`, the payment's ledger row, the authority at Zarinpal | create, start, return (OK/NOK), verify, approve, reject, fulfil | credits the wallet; changes the plan | a remote call between two queries; reloads; lost answers; crash after capture | credited once, only on somebody's word; no captured money recorded as failed; plans only for paid purchases |
| Wallet (`wallet-service.ts`) → `Wallet` | `business_wallets`, `wallet_ledger`, `feature_usage` | grant, deduct, charge per use, subscription fee, refund | everything that costs money | a floor at zero in the UPDATE; lifetime sums; several charge paths | balance and sums equal the ledger |
| AI billing (`ai-wallet-billing.ts`, `ai-plan-allowance.ts`) → `Wallet` | `ai_wallet_settlements`, `ai_wallet_debt`, `ai_plan_allowance_usage` | gate a turn, settle it, reconcile debt, consume the allowance | wallet, plan | gate and settlement far apart; settled twice; month and plan change between | every cost accounted for once; allowance, then wallet, then debt |
| Message credit and outbox (`messaging-billing.ts`, `message-outbox-service.ts`, `message-campaigns-service.ts`) → `Wallet` (money), `Outbox` (rows) | `message_outbox`, `message_campaigns`, the reservation in memory | top-up review, launch, trigger, pause, resume, reserve, send, settle, retry, complete | wallet, SMS and e-mail providers | crash between reserve and settle, between send and mark; channels without an adapter; racing launches | accounts agree after any refund; a message goes out once, and once more at most per crash; retries are bounded; queues drain and campaigns complete |
| Subscription billing (`subscription-service.ts`, `billing/policy`) → `Subscription` | `business_subscriptions`, `billing_invoices` | change plan, cancel, reactivate, renew, expire, pay and void invoices, mark overdue | wallet fee, plan purchase | the renewal reads row and invoice unlocked and writes over what it read; ticks may overlap, and the lock between two renewals is a counter's row | the wallet pays a period once; only paid or free periods are renewed; no ended period is carried for ever |
| Hybrid server sync (`server-sync.ts`, `sync-events.ts`) → `ServerSync` | `sync_events`, the pull cursor, the pushed marks, dead letters | push, pull, apply, defer, reconcile, retry, discard | site and central server over HTTP | repeated batches, ids visible out of order, poison events, crash between steps | the cursor and the pushed mark pass nothing that is not held; everything recorded is held in the end |
| Order-state sync (`order-state-sync.ts`, `payment-service.ts`) → `ServerSync` | `orders.sync_state_hlc`, `sync_hlc_state`, state and payment events | record, apply | server sync, the order routes | late and duplicated states, edits on both sides, payment on either side, clocks that differ | once their states are through, open copies agree unless one millisecond was stamped on both sides; settled orders stay settled |
| Restore engine (`restore-engine.ts`, `restore-journal.ts`) → `Restore` | databases by name, the emergency dump, the restore journal | verify, back up, swap, re-grant, roll back | PostgreSQL catalog | crash between renames, half of a statement pair, lost answers, torn lines, failing rollbacks | production's data is always somewhere whole; no swap before its journal line, and no result that did not happen |
| Pairing, master-data sync, offline queue | codes, credentials, merged records | redeem, acknowledge, merge | server sync | retries and staged credentials | later candidates |
| Inventory costing, retail, ledger and fiscal periods, receivables/payables/cheques, shifts, loyalty, reservations, payroll, assets, AEC, CRM, website, AI gateway and coworker, sign-in, realtime, desktop, platform console, UI | their tables | their services | the checkout transaction, the ledger | mostly one transaction over locked rows, arithmetic or I/O | not modelled; the reason per component is in `PROJECT.json` |

## 2. Modules

| Module | What it is |
|---|---|
| `TableService` | dine-in service at one location |
| `Visits` | abstract: a party arrives at free tables, may be joined by further ones, and leaves once |
| `TableService_proofs` | its theorems |
| `Payments` | gateway payments of one business |
| `Receipts` | abstract: a receipt is decided once; only its settling posts the ledger entry |
| `Payments_proofs` | its theorems |
| `Wallet` | the wallet, its ledger, AI turns and message drains |
| `Wallet_proofs` | its theorems |
| `ServerSync` | a paired site and the central server: order copies, event logs, push, pull, dead letters |
| `Delivery` | abstract: an event is applied at most once and never after it was given up, a payment is posted by that alone, and a sender forgets only what somebody holds |
| `ServerSync_proofs` | its theorems about the two databases, the transport and what they deliver, whatever the clocks do |
| `ServerSyncStamps_proofs` | its theorem about the stamps, however far the clocks are apart |
| `Subscription` | one business's subscription, its invoices and the renewal tick |
| `Subscription_proofs` | its theorems |
| `Outbox` | message campaigns, the outbox and its drain |
| `Prepaid` | abstract: a message goes out only while it is queued and only if it was paid for, is decided once, and a campaign is done only after a look that found nothing of it queued |
| `Outbox_proofs` | its theorems |
| `Restore` | the full-system restore over databases by name |
| `Restore_proofs` | its theorems |
| `MCTableService`, `MCPayments`, `MCWallet`, `MCServerSync`, `MCSubscription`, `MCOutbox` | small instances, and symmetry where ids are interchangeable; `Restore` needs none |

### TableService

Variables are the columns that decide occupancy. `payments[o]` counts the
settlements posted for an order. `req[c]` is the request a handler is serving:
its place `pc` and the values it has read. A handler is one step per statement
at which it may wait for a row, or reads a row it does not hold; the writes of a
transaction appear in the step that commits (nobody else can read them before).
Row locks are not variables: the place a handler has reached determines what it
holds (`HoldsOrder`, `HoldsSession`, `HoldsTable`, `HoldsCounter`).

| Action | Code |
|---|---|
| `CreateCheck`, `CreateSession`, `CreateInsert`, `CreateOpen` | `createOrder`: the table check before the transaction; the order-number row and the unlocked read of the table's session; the INSERT, whose foreign keys wait for locked rows and whose unique `client_request_id` turns a repeat into a read-back; or `openSession` and the INSERT |
| `PayLock`, `PaySession`, `PaySettle`, `PayFree` | POST `/pay`: `lockOpenOrder`; `releaseTableAfterOrderSettled` locks the session and counts the surviving orders, whose rows it does not lock; if one was found the rest of the transaction commits (`PaySettle`), if none `releaseSessionTables` waits for the tables, and all commits (`PayFree`) |
| `VoidOrder`, `Detach`, `MoveLock`, `MoveTable`, `MoveAttach` | PATCH `/api/orders/[id]` |
| `Seat`, `MergeLock`, `MergeTable`, `ReleaseLock`, `ReleaseFree` | `/api/table-sessions` |
| `PatchRead`, `PatchWrite`, `PatchActive`, `DeleteRead`, `DeleteWrite` | `/api/tables/[id]`, whose handlers hold no transaction |
| `DeadlockVictim` | PostgreSQL rolls back one transaction of a cycle of waits (external) |

Not modelled: order lines and money (a settlement is counted, not summed),
parked (`held`) orders, `bill_requested` rows of older installs, guest counts
and notes, reservations' seat action (the same `openSession`). Two writers of the
same rows are left out: `applyOrderState` (`order-state-sync.ts:431-436`), which
attaches an order that arrives from the peer to a session, and the synced
checkout (`payment-service.ts:213` and `:327`, the `releaseTableAfterOrderSettled`
calls of `completeOrderPayment` and `completeSplitOrderPayment`), which closes one
as POST `/pay` does; `ServerSync` has both, without tables. The partial unique index on active memberships is left
out too: the model is the weaker system, and `OneVisitPerTable` holds in it.

### Payments

`pay` is the row (status, purpose, fulfilment, whether an administrator decided
it), `credits` the number of ledger rows with the payment's id, `gateway` what
Zarinpal knows of the authority, `activated` the payments whose plan was
activated, `req` the handlers. `verifyPayment` and `fulfilPurchasedPayment` hold
no transaction, so each query and the gateway call is a step (`Return`,
`ZarinpalVerify`, `CancelWrite`, `FailWrite`, `Fulfil`, `ActivatePlan`,
`MarkFulfilment`); `settlePayment` and `rejectPayment` run under the row's lock
and are one step each. The gateway is external: the customer pays or the
authority expires, and an answer may be lost before or after the gateway has
acted. It is assumed to refuse a verification only of an authority that was not
paid in time. `zarinpalVerify` (`payment-gateway.ts:178`) takes every answer
below 500 for a refusal, also one it cannot parse or a rate limit; that the
gateway gives none of these for an authority it has captured is an assumption
about Zarinpal that no code here can discharge, and `CapturedNotFailed` rests on
it. `Crash`
ends every handler. Add-on purchases fulfil as plans do and are left out, as
are collisions of gateway reference numbers.

### Wallet

`wallet` is the row of `business_wallets` with the sums of `wallet_ledger` by
kind; `usage` the spend by feature; `debt`, `plan` and `booked` the AI tables;
`turn[t]` where an AI turn is and what its gate read; `drain` the reservation of
the message drain in flight. Every movement takes the wallet's row lock and is
one step. The gate's reading of the allowance is outside the lock
(`CheckAiAffordability`, then `GateAiTurn`) and the settlement comes after the
provider's answer. A settlement is two steps: `SettleAiTurn` (which the chat
route's error path may repeat with the same request id) takes the wallet's row
lock and reads the plan's credit and what the month has used of it, neither of
which that lock guards; `SettleAiWalletCharge` commits what follows from them.
`settling` is the settlement in between, and every other movement waits for it
(`Unlocked`). `NewMonth` and `ChangePlan` may come in between, and move the
allowance; a settlement whose month ended while it ran writes the old month's row
(`late`). `Crash` rolls an open settlement back, loses the turns under way and
keeps the reservation, as the code does: a drain that dies after
`reserveMessageSend` is never refunded. Amounts are whole Rial; 64-bit columns are
far above any balance and are not bounded.

How the code behaves where no property speaks: an approved message top-up
(`GrantMessages`) leaves the AI debt standing beside a positive balance; nothing
depends on what the gate read, so a gate that reads stale values costs nobody
money, it only lets a turn run or refuses it; and after a crash the accounts
agree, but what the drain had reserved and not sent is not given back.

### ServerSync

Two sides, each with `copy` (its order rows: status, the bill as one value, its
stamp, the payments posted), `log` (its `sync_events` of origin 'local'),
`inbox` (what its row of the peer's event says) and `known` (whether the order's
customer and items are there). `tx` is a transaction under way; `push`, `orphan`,
`pull`, `cursor`, `pushed`, `refused`, `letters` are the transport. One counter
per side, `number`, stands for transaction ids, event ids and stamp sequences:
each of them only has to grow, and a transaction draws them at different moments,
so that ids, transaction ids and commits come in different orders.

| Action | Code |
|---|---|
| `Begin`, `RecordCentral`, `RecordSite`, `Commit` | a local create, edit, void or checkout: the transaction's first write, `recordOrderState` with `app_sync_next_hlc` and `appendSyncOutboxEvent`, COMMIT. A checkout records the bill and then the payment |
| `MasterArrives` | `runMasterSync` brings what a state refers to |
| `Receive` (`ApplyState`, `ApplyPayment`, `ApplyCreate`) | `applySyncEvent`: a duplicate is answered from its row; a revoked device, or an actor unknown here or not permitted the event, makes a dead letter of any event but the legacy `order.create` (a fault, so bounded); so does a settlement of a settled order; a missing prerequisite defers, for a payment also when the customer who takes the difference is not here; an infrastructure failure rolls back. `applyOrderState`, `completeSplitOrderPayment` and the older, non-transactional `order.create` |
| `Reconcile`, `RetryLetter`, `DiscardLetter` | `reconcileDeferredSyncEvents`, `updateSyncDeadLetter` |
| `StartPush`, `ServePush`, `FinishPush`, `GiveUpPush`, `ServeOrphan` | `runServerPush` and the push route; a request given up on may still be served while the next one is sent |
| `StartPull`, `PullEvent`, `RecordPullLetter`, `GiveUpPull`, `SaveCursor` | `runServerPull` and the pull route, whose page ends below `pg_snapshot_xmin` |
| `RetryPulled`, `DiscardPulled` | `updateSyncDeadLetter` for a server_pull letter |
| `Crash` | a side's process or database dies (external) |

`Delivery` says what all this amounts to, per side and event: recorded when its
transaction commits; `Kept` once the peer has decided, deferred or dead-lettered
it (or, of a central event, the site keeps its envelope); `Applied` and `Closed` by
what the peer's row says; `Posted` when its payment is the one in the peer's copy;
`Dropped` when it is marked pushed or the cursor has passed it. Batches, retries,
faults and the rest of a pull are stutters there, an answer to one event is
`Hold`, `Apply` or `Close`, and `FinishPush` and `SaveCursor` are `Drop`.

How the code behaves where no property speaks: a payment made on both sides is
refused by each (`order_not_open`) and deferred for ever, and the two copies keep
their own; a void with an older stamp than a concurrent edit elsewhere is stale
there, so the order is voided on one side and open on the other; an edit
concurrent with a checkout may make the peer settle another bill, if the totals
agree or a customer takes the difference (`ApplyPayment`). A legacy
`order.create` can stay pending or failed, and `Delivered` excepts it. A
server_pull letter whose retry ends in a terminal refusal stays open.

With a site whose clock lags, an edit the peer drops as stale leaves two open
copies that differ for good: the floor carries the site to the millisecond of the
state it has seen, and its own sequence may be the smaller one. `Sync_apart` is
that run, violated. `ApartInOneMsOnly` is what the floor does achieve, for clocks
however far apart: copies stay apart only if both sides stamped a state of the
order in one millisecond (checked in `Sync`, and a theorem).

Not modelled: the other event types (the same inbox and transport carry them),
backoff lengths, protocol errors of an older peer, held orders, what a bill is
made of.

### Subscription

`sub` is the subscription's row, `invoice[e]` the invoice whose reference is the
period ending at `e` with what the wallet (`fees`) and the administrator
(`payments`) paid on it, `tick[t]` what a renewal tick has read.

| Action | Code |
|---|---|
| `DecidePlan`, `LockPlan`, `WritePlan` | `changeBusinessPlan`: the instant and the decision on an unlocked row; the business's lock and, under it, the unlocked read that decides whether the period is kept; the upsert and COMMIT |
| `Cancel`, `SetAutoRenew` | their services, one statement each |
| `ReadReactivated`, `Reactivate` | `reactivateBusinessSubscription`: an unlocked read, then the one of two UPDATEs it called for |
| `PayInvoice`, `VoidInvoice` | `applyInvoicePayment`, `voidBillingInvoice`, under the invoice's lock |
| `BeginTick`, `MarkOverdue` | `markOverdueInvoices`: one read, then a write per row |
| `ReadSubscription` | the due list and `renewBusinessSubscription`'s own read of the row (merged: the second read decides all over again what the first had found) |
| `Lapse`, `Close` | grace over; not to be renewed |
| `ReadTotal`, `RenewFree` | the plan and its price, read later than the row; a free plan |
| `AskNumber`, `BillPeriod`, `ReadInvoice`, `ChargeOutstanding` | `allocateInvoiceNumber` takes the row lock of the month's `billing_invoice_counters` row and keeps it to COMMIT (`Granted`): the period's invoice is claimed and charged in one step under it, or was claimed before: then it is read without a lock of its own, and what was outstanding then is charged |

How the code behaves where no property speaks: the upsert leaves
`cancel_at_period_end` standing, so a plan bought after a cancellation is
cancelled at its period's end; a tick that read the row before a purchase writes
the period, or 'expired', over it; a paid or voided invoice can become 'overdue'
again and be charged. A plan change that was decided just before the period's
end and is written just after the renewal made it past due clears the grace; if
that period's invoice is then voided, every later tick finds a duplicate and the
subscription stays active (`NoFreeRide` excepts exactly this).

`server.ts` starts a tick every hour whether or not the last has ended, so two may
overlap. Two renewals of one period then meet at the counter of the month their
invoice number comes from, although the one that comes second keeps no number:
`claimInvoice` allocates before it tries the reference. The second therefore reads
an invoice the first has settled. The key is the calendar month of the call: two
ticks on either side of a month's end hold different rows, and both may charge one
open invoice (`NeverBilledTwice` is refuted). `BilledOnce` says the rest, for
any number of ticks.

Not modelled: trials (no caller starts one), the plan catalogue's draft and
retired states, entitlement stamps, idempotency keys, credit notes.

### Outbox

`row[r]` is an outbox row and how often the provider accepted it, `accepted` what
it accepted in all, `queue` the rows whose backoff is over in the order the drain
takes them, `drain` the tick (`tickInFlight` lets one run) with what is left of
its batch, taken in the queue's order (`At`), `credit` and `charged` the money a message costs
(one unit; `Wallet` has the ledger). `CheckLaunch` and `Launch` are apart because
the status is read without a lock; `QueueTriggered`, `Pause`, `Resume` are one
statement or transaction each. A drain is `BeginDrain` (batch and reservation),
per row `Skip`, or `Send` and then `RecordSent`, or `CountFailure` and
`RecordFailure`, then `Settle`, `CountOpen` and `Reconcile`. `Die` loses the tick.

`CountOpen` and `Reconcile` are one UPDATE. It is two steps because its subselect
counts the open rows on the statement's snapshot, and a launch that holds the
campaign's row makes it wait: PostgreSQL (READ COMMITTED) then re-checks that row
but writes what was counted before.

The outbox implements `Prepaid`: `Life`, `Sender`, `Went`, `Completed` and `Found`
read its variables off the rows, the campaigns and the tick. Batches, backoffs,
adapters, pauses and attempts are stutters there; a drain's reservation and refund
are `Pay` and `Refund`, and the counted campaigns are what was `checked`.

How the code behaves where no property speaks: `reconcileCampaigns` asks
`RETURNING (... c.status <> 'completed')`, which PostgreSQL evaluates on the row
the UPDATE has just written, so no campaign "became" completed and
`postCompletedCampaignCost` is never called (the comments at
`message-outbox-service.ts:248` and `message-cost-posting.ts:101` say it is); a
death between the last row and the reconciliation leaves a campaign 'sending'
with an empty queue; a pause does not stop the batch under way; two racing
launches queue every recipient twice; a second launch (racing, or of a paused
campaign) that commits between the count and the write of `reconcileCampaigns`
(`message-outbox-service.ts:227`) leaves its rows queued for good under a campaign
that is 'completed' and can be neither launched nor resumed; a reservation is lost with the tick; rows
of a channel without adapter keep their places in the batch, and enough of them
starve the rest. `QueueDrains` does not speak of that: it excepts a time in which a
channel has no adapter or the credit is short of a batch (`Stopped`).

Not modelled: audiences, templates, delivery reports, database errors inside a
drain other than those of a death.

### Restore

Databases are records by name (`target`, `scratch`, `recovery[k]`): whether they
exist, are whole, accept connections, and whose data they hold. `live` is
production's data, to its last write. Every SQL statement, dump and journal line
of `restoreDumpFile`, `applyDumpToTarget` and `rollbackDatabaseSwap` is an action
named for it, in the code's order; each may fail, the answer of a rename or a DROP
may be lost after it was done, the process may die between any two (`Die`), and the
application writes whenever the production name takes connections (`Write`).
`setDatabaseConnections` is two statements, of which the second may fail alone. A
line of the journal that cannot be written leaves nothing, a part of itself, or all
of itself unsynced (`NotAppended`); a line written behind a part is glued to it, and
no reader finds either (`legible`). DROP and CREATE of the scratch database are one
step, after which a failure leaves it there or not.

What a line of the journal is worth (`JournalTells`): no database changed its name
before `apply_started` was written and synced; a readable last line of a success or
of a rollback is so, with production open under its name; one of a failure before
the swap says only that the restored data is nowhere in production. The comments
claim more, and TLC shows where that fails. Of a failure before the
swap they say that production is untouched: it may be closed to connections (a
fault after the first statement of `setDatabaseConnections`), and a first rename
whose answer was lost leaves nothing under the production name, with no rollback
(`Restore_untouched`). And they say that an act that cannot be recorded does not
happen: an `apply_started` glued to a torn line is one nobody can read, and the swap
goes ahead (`SwapIsOnRecord` is refuted).

How the code behaves where no property speaks: writes the new database took before
its proof failed are dropped with it; writes made while the emergency dump was taken
and proved are in the recovery database only. Nothing resumes a restore that died.

Assumed: one restore at a time. The platform, tenant and setup restores each have a
guard of their own (`db-locks.ts:30-39`); nothing keeps two kinds apart, though all
use `<target>_restore_verify` (`restore-engine.ts:617`).

Not modelled: what the callers do around the engine, and their own lines after its
last (`platform-backup-service.ts:1890-1893` repeats the phase, or writes
`verify_failed` for an error that is no `RestoreApplyError`, such as a failed
emergency dump; `post_restore_reconnect_*`); a write cut exactly before its newline;
uploads and retention, tenant-level backups.

## 3. What the runs check

| Run | Properties | Shows |
|---|---|---|
| `TableService_floor` | `TypeOK`, `ClosedHoldsNothing`, `OneVisitPerTable`, `SettledExactlyOnce`, `ShownSeatedIsHeld`; `NobodyIsEvicted`, `LastCheckoutReleases`, `FinalOrdersStayFinal`, `MoveJoinsOpenVisit`, `ImplementsVisits` | every interleaving of two handlers keeps the floor consistent, cashiers settling a visit's last orders do not leave its closing to one another, and the sessions implement `Visits` |
| `TableService_answered` | `EveryRequestIsAnswered` | no request waits for ever, although moves, checkouts and merges lock in different orders |
| `TableService_closed_visit` | `OpenOrderHasOpenVisit` — **violated** | an order taken while the visit's last bill is paid stays open in a closed visit, its table shown free |
| `Payments_flow` | `TypeOK`, `CreditedExactlyOnce`, `VerifiedIsBacked`, `CapturedNotFailed`, `PlansFollowPayments`; `ImplementsReceipts` | reloads, reviews, lost answers and crashes neither credit twice nor credit unpaid money |
| `Wallet_money` | `TypeOK`, `BalanceIsLedger`, `SpentIsLedger`, `AiCostsAreCovered`; `AllowanceNeverOverdrawn`, `DebtIsTheLastResort` | the accounts agree after any order of movements |
| `Sync` | `TypeOK`, `NothingBehindCursor`, `ApartInOneMsOnly`; `ImplementsDelivery`, `SettledIsFinal`, `Delivered` | an order changed on both sides, the site's clock behind, batches lost, repeated and reordered, commits out of order: the exchange implements `Delivery`, nothing is skipped, nothing settled is touched, open copies whose states are through are one bill unless both sides stamped one millisecond, everything is held in the end |
| `Sync_apart` | `OpenCopiesAgree` — **violated** | that exception happens: every state was applied, and the open copies differ for good |
| `Subscription` | `TypeOK`, `BilledOnce`; `OpensPaidPeriods`, `NoFreeRide` | two ticks that overlap, also over a month's end: a period's invoice is paid by the wallet once unless they held counters of different months, only paid or free periods are renewed by a tick, and an ended one is left |
| `Subscription_paid_twice` | `NeverOverCollected` — **violated** | a payment recorded between the renewal's read and its charge is collected a second time |
| `Outbox` | `TypeOK`, `SentOnceAndPaid`; `ImplementsPrepaid`, `QueueDrains` | messages go out once (once more per crash) and paid for, the drain implements `Prepaid`, queues drain and campaigns complete unless a campaign was launched twice |
| `Restore` | `TypeOK`, `DataSurvives`, `JournalTells` | no failure and no crash loses production's data; no swap before its line is written and synced; and no readable last line claims a success or a rollback that is not so |
| `Restore_untouched` | `UntouchedIfFailedBeforeSwap` — **violated** | production is left closed, or without its name, under a line that says it was not touched |

The violated properties are statements of the repository's comments and docs;
`PROJECT.json` "findings" quotes them. The runs that
are violated are one per question the passing runs leave open. More such statements
stand in the modules beside the properties, each a claim of the docs or comments, and
TLC refutes each when a passing run's cfg is given it as its property:

| Statement | Given to | Refuted by |
|---|---|---|
| `LastBillFreesTable` | `TableService_floor` | the other order a checkout has counted is voided or moved before the checkout commits: no order of the visit is open and nobody frees its tables |
| `RetiredHoldsNobody` | `TableService_answered` | a party that sits down between a deletion's look and its write has a retired table |
| `ShownFreeIsFree` | `TableService_floor` | PATCH `/api/tables/[id]` never looks for a session: a status set by hand shows an occupied table free |
| `CapturedIsSettled` | `Payments_flow` | a NOK return or a rejection that commits between the gateway's "100" and the settlement leaves captured money uncredited |
| `StampsAreNewest` | `Sync` | a site whose clock lags stamps an edit older than the state it has just applied |
| `NeverBilledTwice` | `Subscription` | two ticks on either side of a calendar month's end both charge one open invoice |
| `SwapIsOnRecord` | `Restore` | a swap goes ahead whose `apply_started` is glued to a torn line |

Two more disagreements have no statement: of two handlers fulfilling one purchase
the one that fails last overwrites 'succeeded' (the comment calls fulfilment
durable); and an approved message top-up leaves the AI debt beside a positive balance
(the migration says a top-up clears it first). For every property of a passing run,
"mutants" names a plausible bug (a dropped lock, a missing re-check, a wrong
order) under which TLC finds the property violated. The mutated operators stand
beside the ones they mutate.

### Bounds

* `TableService`: two handlers, tables, sessions and orders. Each race in the
  code is between two requests over one order, one session or one table, and the
  second table or session is what makes "somebody else's" possible. A session id
  is used once (`Fresh`), so a run has two visits; an operation that needs a
  third is refused. `floor` leaves out `delete` and `activate`, which multiply
  the states by the tables' activity; `answered` has them, on one table, and
  keeps the operations whose locks can form a cycle. The violated
  run keeps the operations its race needs.
* `Payments`: two payments and two handlers; a row has one handler reading and
  another deciding, and the second payment shows that nothing leaks between rows.
* `Wallet`: two turns, amounts 1 and 2, costs 1 and 3, credits 0 and 2. A cost
  of 3 exceeds allowance and balance together, so each of the three places that
  can pay is met empty, full and exactly met. One settlement is open at a time,
  because each holds the wallet's row; months and plans change under it.
  `MaxCredit` bounds money put in, `MaxCharge` the feature charges; both are guards
  (`PutIn`, `PutOut`) and nothing else depends on them.
* `Sync`: an order of the site edited, paid and voided on both sides, beside one
  created at the centre, because commit order needs a second central
  transaction. A change begins only below `MaxNumber` (two numbers at the site,
  three at the centre), so the site creates the order and changes it once more,
  while the centre makes two or three changes, overlapping or not. Batches of two,
  one fault of any kind, one abandoned request still being served. The site's clock
  is 2 ms behind, and each stamp takes a millisecond, so that it stamps behind, at
  and past the floor. `Sync_apart` has one order of the centre, edited on both sides.
* `Subscription`: two ticks and a request of people at once, a paid and a free plan,
  periods and grace of one instant, a calendar month that ends while the first period
  is renewed (two ticks meet at one counter, or hold two), and three acts of people, of
  which one may be a death. Auto-renewal and two more (a plan change, a payment, money
  put in, a void) are what the races need: with them TLC also meets the case
  `NoFreeRide` excepts. A request is through before a second instant passes.
* `Outbox`: two rows of two channels, a batch of two, two attempts, two racing
  launches, two acts, one death. With two rows the batch's limit does not bind; it
  also holds with a batch of one, and with three rows and one act.
* `Restore`: two restores, so that the second meets what the first left behind;
  four faults of any kind (a statement, half of one, an answer, a line, a death),
  enough for a failing apply whose rollback fails and whose journal line is lost or
  torn; one write into each database. Its violated run needs one restore and one
  fault.

Of the passing runs `Wallet_money` checks for deadlock. It is off in the table runs, where all
ids may be used up and every table released with nothing left to ask for, and in
the payment run, where all payments may be decided and nobody returns; in the runs
of sync, subscription and outbox, where the bounds on numbers, time, acts and rows
end a behaviour; and in `Restore` also because a swap cut in half stops the
application for good.

### Fairness

Liveness is checked under these assumptions only:

`EveryRequestIsAnswered`: `FairSpec` gives each handler's
statements (`Step(c)`) strong fairness. A handler is a running promise chain, so
it takes its next statement; and PostgreSQL queues the waiters of a row lock, so
a statement that becomes possible again and again is granted. Arrivals of
requests (`Begin`, `Request1`) have no fairness. A cycle of waits ends because
PostgreSQL aborts one of its transactions (`DeadlockVictim`, part of `Step`).

`Delivered` (`ServerSync`): a transaction ends, a request that is served is
answered, a pull goes on (weak fairness: each is a running promise chain); the
site's 30-second tick starts a push with every refused row due again
(`StartPush({})`, backoff has a ceiling) and a pull, again and again (strong
fairness: each waits for the other to end). Faults, people and the arrival of
master data have none; a deferred event counts as held, and so does a dead letter.

`NoFreeRide` (`Subscription`): time passes, the hourly timer starts each tick, a
tick or a request that runs goes on. `QueueDrains` (`Outbox`): the timer starts
the messaging tick, a tick that runs goes on, a backoff ends. What people do has
no fairness.

## 4. What is proved

All theorems are `Spec => ...` for every value of the constants. Assumptions:
`None` is not an id (`NoneAssumption`), `Ops` are known operations, the
wallet's amounts, costs and credits are natural numbers, amounts positive
(`AmountsAssumption`), and so are the prices, amounts and durations of
`Subscription`, whose instants have a calendar month (`SubscriptionAssumption`), the
bounds of `Restore` (`RestoreAssumption`), and the lags, bounds and faults of
`ServerSync`, whose orders are finitely many (`SyncAssumption`). In `Outbox`
audiences, batch limit and attempts are positive, the bounds natural
(`OutboxAssumption`). TLC evaluates them on every run. No theorem assumes more: not
that ticks do not overlap, nor that clocks agree.

* **`TableService_proofs`**: the type invariant, the four safety invariants, the
  four action properties and the refinement of `Visits`. The invariants are not
  inductive alone: what makes a checkout safe is what it may still rely on, when it
  commits, of what it read under its lock. `IInv` therefore says of each handler
  what that is at its place: an order it holds is open (`OrderHeld`), a session it
  holds is open (`SessionHeld`), a count that found no surviving order still stands
  (`CountStands`), the session a move has read still holds the move's table
  (`MoveHeld`), and no row is held twice (`LocksExclude`). A count that found
  another order open does not stand, for nothing locks that order
  (`LastBillFreesTable` is refuted); what does is `OtherStands`: the order left the visit, or
  is open or voided, because whoever would settle it needs the session first. So
  cashiers never leave a visit's closing to one another, which is
  `LastCheckoutReleases`. There is a lemma per action; `Invariance` collects them.
* **`Payments_proofs`**: all invariants of `Payments_flow` and the refinement of
  `Receipts`. `CapturedNotFailed` is strengthened to `FailedHasExpired`: a
  failure nobody reviewed follows the authority's expiry, which captures exclude
  for ever. `Knows` says what each handler knows at its place, for instance that
  a payment about to be settled was captured or is being reviewed.
* **`Wallet_proofs`**: all invariants and action properties of `Wallet_money`.
  The strengthening is that the drain's reservation is part of the messaging
  counter, so a refund never meets the floor at zero, and that what a settlement
  found left of the month's allowance is there until it commits, unless the month
  is over (`LeftIsThere`): only settlements consume it, and they hold the wallet.

* **`Restore_proofs`**: `TypeOK`, `DataSurvives` and `JournalTells`, for any number of
  restores, writes and faults. `IInv` says what a restore has at each of its
  places: its number and whether it has swapped (`Numbered`), that its recovery
  name is free until production is renamed to it and holds complete older data
  from then on (`RecoveryKept`), that a verified scratch database is still there
  and complete (`ScratchReady`), whose data has the production name
  (`TargetIs`), and that production's data is an earlier restore's until this one
  succeeds, with a proved dump beside it from the swap on (`LiveIs`). The journal
  needs that a database changed its name only after a durable `apply_started`
  (`Started`), whatever statement failed or went unanswered, and that a result is its
  restore's last line (`ResultIsLast`). A step either writes no line (`SilentStep`) or one (`LineStep`); the lemma of an
  action gives what that case asks for.
* **`Subscription_proofs`**: `TypeOK`, `OpensPaidPeriods` and `BilledOnce`, for any
  number of ticks together. The renewal charges what it read as outstanding and
  writes the invoice paid, whatever it has become: that this never leaves the invoice
  short needs `Collected`, that an invoice a tick has read is still there with the
  same total and ahead by payments only. That it never charges twice needs
  `FeesOnce`: an invoice charged under one month's counter has cost the wallet no more
  than is written paid, nor more than a tick holding that counter has read, and no two
  ticks charge under one counter.

* **`ServerSync_proofs`**: `TypeOK`, `NothingBehindCursor`, `PushedIsHeld`,
  `SettledIsFinal` and the refinement of `Delivery`. `IInv` has two layers. `Base` is the two databases: a
  transaction under way holds the row it found open (`Holds`), no two events of a
  side have one id although ids are taken before commits (`Distinct`), ids fit the
  inboxes (`Fits`: every central transaction under way may still take two), and an
  inbox row is of an event there is (`Received`). `Carried` is the transport. It
  uses of the databases only that logs grow, that an outcome once recorded stays
  and that a new event has the id and the transaction id of a transaction that was
  open. For the cursor that is the argument: a position is passed only when all
  before it is held and every open transaction is ahead of it (`Passes`, which the
  page's cut below xmin establishes), and of a page being worked off the next event
  precedes all the rest (`Ahead`). A push counts as delivered only what the centre
  has decided (`Decided`), also when an abandoned request is served late.
  The refinement sums up what any step does to the events (`StepIs`): it leaves
  them alone, commits, answers one event, moves a letter, or finishes a push or a
  pull. It needs three facts more (`Linked`): a payment from the other side in the
  books is of an event there is, and so is a letter, or an event could be posted or
  held before it is recorded; and the pull never falls behind the cursor, or saving
  it would take back what was dropped.
  `EventsMeetTheirFate` is then an induction over `Delivery` alone: in either side's
  books are exactly the other's payments that it answered as applied (`Fates`).
* **`ServerSyncStamps_proofs`**: `ApartInOneMsOnly`, for any lags. `Agreed` adds to
  `IInv` that no stamp a side holds is ahead of the next it gives, but for a stamp of
  the peer's in that very millisecond, and that a recorded change is not older than
  the copy it is written to, with the same exception (`Timed`); that an order is
  created once (`Created`), that an open copy is as it was created or as some recorded
  state says (`FromLog`), and that it is not older than any state its side recorded or
  applied, unless the two sides have stamped one millisecond (`Covers`). Two open
  copies that cover each other's states then have one stamp, a stamp names one event,
  and the event one bill.
* **`Outbox_proofs`**: `TypeOK`, `SentOnceAndPaid` and the refinement of `Prepaid`,
  with what follows from it (`PostIsKept`). `IInv` says that rows are
  filled in order, so an insert never meets one that is used (`Filled`), that a row
  is due once at most (`Due`), that what is left of a batch is still due and was
  reserved for (`Batched`), and of each row (`Tried`) that a queued one has an
  attempt left and at most one acceptance per death behind it, except the row the
  drain holds an answer for. That exception is the window between the provider's
  answer and the row's UPDATE, which only a death can cut. The money is the
  equation of `SentOnceAndPaid` itself (`Paid`). The refinement has a lemma per action
  (`SendPost`, `SettlePost`, ...). It needs that the campaigns about to be completed
  are known while the tick is at that place only (`FoundIs`), and that the
  provider's acceptance is covered by the reservation, which is `Paid` again: the
  abstract `GoOut` asks for money paid and not yet used.

Only model-checked: `EveryRequestIsAnswered`, `Delivered`, `NoFreeRide` and
`QueueDrains` (liveness under fairness is outside the prover's reach). Every safety
invariant and every action property of a passing run is proved. None of the
statements TLC refutes is a theorem; of four of them the proofs establish the part
that holds: `LastCheckoutReleases` of `LastBillFreesTable`,
`BilledOnce` of `NeverBilledTwice`, `ApartInOneMsOnly` of `OpenCopiesAgree`, and
`JournalTells` of `UntouchedIfFailedBeforeSwap`.

## 5. Not modelled, and what is left

The components of the last two rows of section 1 are not modelled: their state
changes are single transactions over locked rows (ledger, receivables, payables,
cheques, shifts, loyalty, reservations), arithmetic over one document (payroll,
assets, inventory costing, AEC), or calls to outside systems (AI providers,
website connections, desktop shell). `PROJECT.json` has the reason of each. Of
these the cheque state machine, inventory consumption against a reference
definition, pairing's staged credentials and the field merge of master data would
be the next to model, in this order, each in place of a run above.

Left to prove: liveness, for want of a prover; and abstract specifications of the
parts that have none yet: `Wallet`, `Subscription` and `Restore`.
