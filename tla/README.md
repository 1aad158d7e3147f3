# FluxCode: a TLA+ development

FluxCode is a gateway that resells access to AI model APIs: a Go server (Gin, Ent) over
PostgreSQL and Redis with a Vue front end. Several instances of the server may run beside each
other. This directory holds TLA+ modules that model the parts of it where concurrency and failure
decide what is correct, TLC configurations that check them on small instances, and TLAPS proofs
for every instance. Every definition is translated from the Go code; `PROJECT.json` maps it to
its lines. Paths below are relative to `src/backend/internal/` where nothing else is said.

    tlc  -workers 2 -config MCPaymentOrder.cfg MCPaymentOrder.tla
    tlapm PaymentOrderProofs.tla        and so for the other modules ...Proofs

## 1. Inventory

What each part keeps, does, and must get right. The parts that are modelled come first.

| Part | State | Operations | Interacts with | Hard behaviour | Correct when |
|---|---|---|---|---|---|
| Payment orders and fulfilment (`service/payment_order*.go`, `payment_fulfillment.go`, `handler/payment_webhook_handler.go`) | `payment_orders`, `payment_audit_logs` | create, webhook, poll, cancel, expire, fulfil, retry | providers, redeem codes, subscriptions, referral, commission | handlers of one order run at once, on several instances; every statement may fail; callbacks repeat | goods delivered at most once, only for money received, and in the end; a recorded payment is not forgotten |
| Refunds (`service/payment_refund.go`) | `payment_orders`, `users.balance`, `user_subscriptions`, audit log | request, prepare, execute | providers, users, subscriptions, usage | a plan made earlier is executed; four writes fail independently | paid back once, taken once, what was taken is given back or on record |
| Idempotency coordinator (`service/idempotency.go`, `repository/idempotency_repo.go`, `service/idempotency_cleanup_service.go`) | `idempotency_records` | claim, replay, reclaim, mark, delete expired | every admin write and some user writes | same key at once, crashes, late results, expiry | an operation takes effect once within the TTL; only its own result is replayed |
| System operation lock (`service/system_operation_lock_service.go`) | one idempotency record, a renewal goroutine | acquire, renew, release | update, rollback, restart | lease against clock, takeover of a record | one operation at a time |
| Payment providers, load balancer (`payment/`) | provider's payments; Redis-free round robin | create, query, close, refund | orders, refunds | lost answers, repeated callbacks | seen through its callers |
| Redeem codes (`service/redeem_service.go`) | `redeem_codes`, Redis lock | generate, redeem | orders, subscriptions | concurrent redemption | a code is used once |
| Subscriptions and grants (`service/subscription_service.go`) | `user_subscriptions`, grants, cache | assign, extend, stack, revoke, charge windows | orders, refunds, billing | read-then-write of the expiry, cached copies | days add up; a window's usage never exceeds its limit by more than a request |
| Referral and gift balance (`service/referral_service.go`) | `gift_balance_records`, referrals | reward, expire, grant | orders | check before insert | one reward per order and kind |
| Sales commission (`service/sales_commission_service.go`) | commission records | create, settle, reverse | orders, refunds | retried creation | one commission per order |
| Promotions, promo codes | usages | resolve, record | orders | limit checked long before it is used | limits hold |
| Concurrency slots, wait queues (`service/concurrency_service.go`, `repository/concurrency_cache.go`, `handler/gateway_helper.go`) | Redis sorted sets and counters | acquire, wait, release, expire, sweep at the start | gateway, other instances | expiry, disconnects, lost answers, a starting instance that clears others' slots | never more than the limit; a request keeps its slot; every slot comes back; the queue opens again |
| Scheduler snapshot (`repository/scheduler_cache.go`, `service/scheduler_snapshot_service.go`) | versioned keys in Redis, a copy in each process | load, write, activate, drop, read | rebuilds, requests that find nothing cached | commands of several writers and readers interleave; locks expire | a reader gets one load of the database; all become current in the end |
| Scheduler outbox (`repository/scheduler_outbox_stream.go`, `scheduler_outbox_repo.go`, `service/scheduler_snapshot_service.go`) | a Redis stream with a consumer group, dedup keys, bucket locks | publish, read, handle, acknowledge, rebuild | account writes, snapshot | dropped duplicates, refused locks, crashes, a lost stream | a change shows in the snapshot, or is repaired |
| Billing cache (`service/billing_cache_service.go`, `repository/billing_cache.go`) | cached balance, a queue of writes | check, load, set, deduct, invalidate | usage billing, recharges, refunds, edits of users | asynchronous writes in any order, full queue, changes of the balance it is not told of | the cached balance is that of the database when nothing is under way |
| Usage billing, usage record pool (`repository/usage_billing_repo.go`, `service/usage_record_worker_pool.go`, `service/gateway_service.go`) | `users.balance`, gifts, `usage_billing_dedup`, a task queue | submit, claim, charge, finish | handlers, billing cache | overflow, a commit whose answer is lost, several turns of a connection, saves of whole users | what was used is charged once |
| OAuth token refresh (`service/oauth_refresh_api.go`, `claude_token_provider.go`, `token_refresh_service.go`, `token_cache_invalidator.go`, a part of `ratelimit_service.go`) | account credentials, cached access token, a lock in Redis and one in each process | ask, lock, re-read, refresh, persist, recover, cache, invalidate, write back after a 401 | provider, requests, background loops | a refresh token is good once; locks expire; clients leave; old copies are written back | one refreshes at a time; an account is disabled only if it is dead; no old token stays cached |
| User message queue, session limits, request rates | Redis | acquire, count | gateway | expiry, failures open | limits hold |
| Account selection, gateways, rate limits | accounts, cool-downs, sticky sessions | select, forward, fail over | providers, slots | stale snapshots | a request ends, no slot leaks |
| WebSocket pool | connections | acquire, prewarm, evict | OpenAI gateway | races of eviction and lease | a connection has one user |
| Authentication, API key cache | token families, caches | rotate, invalidate | gateway | rotation races | a used refresh token ends its family |
| Usage cleanup, backup, monitoring, channel monitor, aggregation, e-mail, settings | tasks, reports | periodic jobs | | several instances run the same job | a job runs once at a time |
| Protocol conversion, routes, generated code, front end, deployment | | | | | not about state |

The parts interact by calls inside one process and by shared rows and keys: there are no messages
between instances other than PostgreSQL, Redis and the provider's callbacks. A *step* of a model
is therefore one SQL statement, Redis script or provider call. Between two of them anything else
may run.

## 2. Modules

| Module | Models | Lines of the code |
|---|---|---|
| `PaymentOrder` | the life of an order up to the delivery | `payment_order.go`, `payment_order_lifecycle.go`, `payment_fulfillment.go`, webhook handler, `Redeem`, `grantGiftBalance` |
| `OrderLedger` | abstract: what the payment part promises of a balance order | - |
| `PaymentOrderProofs` | theorems about `PaymentOrder` | - |
| `PaymentRefund` | the refund of completed orders | `payment_refund.go`, `ExtendSubscription`, `RevokeSubscription` |
| `RefundLedger` | abstract: what a refund promises | - |
| `IdempotencyTable` | the statements on one idempotency record | `idempotency_repo.go` |
| `Idempotency` | `IdempotencyCoordinator.Execute` and the cleanup over that table | `idempotency.go` |
| `SystemOperationLock` | the lease on that table | `system_operation_lock_service.go` |
| `ConcurrencySlots` | the slots and the wait counter of one user or account | `concurrency_cache.go`, `concurrency_service.go`, `gateway_helper.go`, the gateway handlers |
| `SchedulerSnapshot` | one bucket's snapshot, written and read command by command | `scheduler_cache.go`, `scheduler_snapshot_service.go` |
| `BucketRegister` | abstract: what the snapshots of a bucket are for those who use them | - |
| `SchedulerOutbox` | from a change of an account to the rebuild of a bucket | `scheduler_outbox_stream.go`, `scheduler_outbox_repo.go`, `scheduler_snapshot_service.go` |
| `UsageBilling` | from the check of a balance to the charge | `billing_cache_service.go`, `billing_cache.go`, `usage_record_worker_pool.go`, `usage_billing_repo.go`, `gateway_service.go`, `user_repo.go` |
| `BillingLedger` | abstract: what the billing of a user promises | - |
| `TokenRefresh` | the OAuth token of one account | `oauth_refresh_api.go`, `claude_token_provider.go`, `token_refresh_service.go`, `token_cache_invalidator.go`, `ratelimit_service.go` (401) |
| `PaymentRefundProofs`, `IdempotencyProofs`, `SystemOperationLockProofs`, `ConcurrencySlotsProofs`, `UsageBillingProofs`, `TokenRefreshProofs` | theorems about the module each is named after | - |
| `SchedulerProofs` | theorems about `SchedulerSnapshot` and `SchedulerOutbox` | - |
| `MC...` | model values and symmetry for TLC | - |

`SchedulerOutbox` composes with `SchedulerSnapshot` by what the latter shows: the snapshots are a
register of whole loads (`BucketRegister`), so that a snapshot is the number of the database's change
it was loaded at. `Idempotency` and `SystemOperationLock` share `IdempotencyTable`. `PaymentRefund`
begins where `PaymentOrder` ends.

Each definition named after a faulty variant (its comment says so) is a plausible bug of the
definition before or after it; no specification uses them. They show that the properties can fail.

### PaymentOrder

A *worker* is a goroutine that runs one handler at a time. `pc[w]` names the statement it executes
next, `ord[w]` the order it serves, `via[w]` the entry point it came through (the answer to a
callback and the way on after a query depend on it). The row of an order is `status`, `paidAt` and
`fresh` (whether it expired within `paymentGraceMinutes`, which the code reads off `updated_at`). `upstream`
is the provider's side. `code`, `credits`, `subAudit` and `gifts` are the goods: the recharge code
of the order, how often its goods reached the user, the audit entry `doSub` goes by, the reward
records. `acked` is a ghost: the provider was answered with success and does not call again.

Every conditional `UPDATE` is one action with its `WHERE` in it (`ToPaid`, `LockRecharging`,
`CancelUpdate`, `MarkCompleted`, `MarkFailed`, `RetryReset`). A check followed by an insert is two
actions where the code uses two statements (`CheckPendingLimit`/`CreateOrderInTx`,
`RewardCheck`/`RewardGrant`). `Redeem` is one action because code and balance change in one
transaction that takes the code only when it is unused. A failure is a disjunct of the statement it
hits; `Crash` ends a handler anywhere. The refund statuses are one status here, entered and left by
`Refund`; `PaymentRefund` refines them.

`Payable` and the query are as in the code, so an order that is polled, called back, cancelled and
expired at once is in every mixture of steps.

### OrderLedger

`paid`, `delivered`, `complete`: the money arrives, the balance is credited once, the order is
reported complete. `PaymentOrder` implements it under `paid` = the balance orders the provider has
the money of, `delivered` = `credits`, `complete` = COMPLETED or in a refund. It is a `PROPERTY` of
the run `orders` and the theorem `LedgerImplemented`.

### Limits of orders and rewards

`PendingBounded` and `RewardsBounded` say how far two checks that lock nothing can be passed: the
pending limit by one order for each further request in flight, a reward by one for each further
handler and each failed look. `LocksAreReleased` is about the way out of RECHARGING, which no handler
takes back from another. A path through a fulfilment ends in `markCompleted` or `markFailed`, so an
order is `Abandoned` by a crash, by a failing `markFailed`, or by a lost answer of the statement that
took RECHARGING, after which the handler returns without undoing it; `losses` counts these failures
(`LockLosses`), and each abandons one order at most.

### PaymentRefund

Starts where `PaymentOrder` ends: all orders are completed. `plan[w]` is the `RefundPlan` an
administrator prepared; between preparing and executing it anything may happen (`PrepareRefund`
and `ExecuteRefund` are two requests). `taken`, `accepted` and `paidBack` are ghosts that count what
was taken from the user and what the provider agreed to pay back and did pay. `gwRefund` does not look
at the status in the provider's answer, which Stripe, WeChat and Alipay give as pending without an
error; so `GatewayRefund` is an acceptance, and the money follows later (`ProviderPays`), or never
when the provider declines it. The user spends the balance meanwhile (`Spend`), days pass.

A statement on the goods may fail with no effect (`goods`) or take effect while its answer is lost
(`goodsLost`). After a lost answer of the deduction `ExecuteRefund` restores the status as if nothing
had been taken; that, and a failure of the audit log, leave no trace of what was taken, and `slips`
counts them per order. `LossIsKnown` says that nothing else loses goods without a record, and how much
each of them can. `RepaymentsNeedFailures` bounds what the provider accepts and pays whatever fails.

### RefundLedger

`gone`, `accepted`, `paid`, `closed`: the goods leave the user as a whole and come back as a whole or
not at all, the provider accepts one refund, neither of the former happens after that, it pays what it
accepted at any time or not at all, and an order is reported refunded only when a refund was accepted,
or when the provider was not to be asked (no trade number), and stays so. That a refunded order has
been paid it does not promise, because the code does not ensure it. `PaymentRefund` implements it under
`gone` = `taken` of the balance orders, `paid` = `paidBack`, `closed` = the orders whose row says refunded. The days of subscriptions are left out, because the
code takes them by a read and a later write.

### IdempotencyTable, Idempotency, SystemOperationLock

One row is modelled, the row of one (scope, key): rows of different keys never meet, because the
table has a unique index and every statement names the row by id or key. `started[w]` is the one
reading of the clock a request makes (`now` in `Execute` and `Acquire`), which may be old when its
statements run. `done`, `effects`, `coveredUntil`, `late` and `stale` are ghosts: `stale` says that a
record was claimed again after its claim, by a request that had read it expired. `ResultStays` is an
action property: a result that was stored is what a repeated request is answered with until it expires. In
`SystemOperationLock` the clock counts renewal intervals; `Timely` says that no statement takes
longer than one. Its ghosts `slow` and `foreign` say that a statement was not timely, and that the
record was taken over from another operation, whose fingerprint it keeps.

### ConcurrencySlots

`slots` maps each request id to the age of its member in the sorted set. A script is one step,
because Redis runs it atomically; its failure may come before or after it took effect. Request ids
carry the prefix of their process, which is what the sweep of a starting process goes by (`Sweep`).
`holds[r]` is the id that the request's release function will remove, and `wrapReleaseOnDone`
(`Release`, `Disconnect`) runs it once, whatever comes first. `revoked` are the requests whose slot
expired or was swept under them, `drift` says that the counter went out of step with the requests it
counts: by a failed script, its expiry, a sweep or a crash. Both occur in the code, and the
properties say what holds apart from them.

### SchedulerSnapshot, SchedulerOutbox

`snapshots[k]` is what the key of version k holds. A pipeline of `SetSnapshot` is not a transaction,
so every `ZADD`, the switch of the active version and the deletion of the old one are steps of their
own (`WriteIndex`, `Activate`, `DropOld`), and so are the reads of `GetSnapshot` (`Request`, `ZRange`,
`MGet`). Rebuilds take the bucket's lock; requests that find nothing write without it. Versions only
grow; `Settle` counts them from the oldest one that anybody can still name, which keeps the states
finite. `of` and `locked` are ghosts of the active version: which load it is, and whether its writer
had the lock to the end.

`BucketRegister` forgets versions, indexes and the lock. Its register holds one load (`shown`); a
writer loads, replaces what is there at once, and leaves; a reader is given what the register holds
when it begins, and finishes with that or with nothing. `SchedulerSnapshot` implements it (`Register`):
`shown` is the load of the active version, `loaded` what a writer past its load holds, `reading` what
a request will return, the members of the version it named, as long as that version exists. So the
register changes at `Activate` alone, `NewVersion`, `WriteIndex` and `ZRange` are stutters, and a
reader whose version is dropped under it has `reading` taken away, never changed.

In `SchedulerOutbox` the database and the snapshot are numbers. A change is committed and announced
in two steps. `Publish` drops an event whose dedup key is there; `Poll` reads what is pending before
what is new; `Handle` rebuilds for the first event of a batch; `Acknowledge` acknowledges failed
events too. The lock of a bucket is never given back (`TryLock`, `LockExpires`). `missed` is a ghost:
a change may have gone by. An event that is dropped for its dedup key misses nothing only when an
equal one is still *ahead* (`Ahead`) of a load of the database: in the stream, or in a batch that
was not rebuilt for and that is read again if its worker dies.

### UsageBilling

One user with one API key. `cache`, `sets`, `deducts` and `invalidations` are the cached balance and
what is on its way to it; the queue's ten workers take tasks in any order. A turn of a connection
is a usage record task, which the pool queues, runs in the handler or drops (`Submitted`). `Claim` is
the insert into `usage_billing_dedup`, inside the transaction that `Commit` ends; the key of a turn is
that of its connection, as in `resolveUsageBillingRequestID`. A command whose fingerprint is in `Small`
costs at most 0.0001: `Charge` spares the balance, `Finalize` does not spare the cache. The
balance is changed from outside in three ways: by a `Recharge`, which invalidates the cache later; by a
`Refund` (a deduction or its rollback, an offline recharge), which does not; and by whoever reads the
user (`ReadUser`, into `edit`) and saves all of its columns (`SaveUser`), the balance among them, as
every change of a profile, password or setting does. An administrator's change of the balance is such
a save too, and invalidates the cache. `raced` is a ghost: a write of the cache crossed another or
failed, or the cache was not told of a change.

### BillingLedger

`served`, `billed`, `gift`, `balance`, `edit`: a request is billed once, after it was served, its price is
taken from the gifts while there are any and from the balance after that, but for a small one. Nothing
else changes the balance but a `Transfer` (a recharge or refund) and a `Save` of a user that was read
before (`Read`), which puts the balance back, up to an administrator's change of it. `UsageBilling`
implements it under `billed` = the rows of `usage_billing_dedup` and `served` = the requests with a
task: `Commit` of a charge is `Bill`, all work on queues and cache is a stutter.

### TokenRefresh

A token is the number of refreshes that led to it. `RefreshIfNeeded` is the sequence `LockMutex`,
`Acquire`, `Reread`, `Refresh`, `Recover`, `Persist`, `Return`; requests come to it from `Ask` and go
on to the cache (`Wait`, `Version`, `SetCache`), loops from `List` and go on to `Invalidate` or
`Disable`. The provider refuses a refresh token that is not the newest. The lock's value does not say
who set it, so `Return` deletes whichever is there. A request works with the scheduler's copy of the
account, which may have any of the tokens up to `newest`: `Ask`, and `Unauthorized`, the begin of the
handling of a 401, whose end, `WriteBack`, writes that copy into the account with an expiry of now.
`unread` are the callers that could not read the account again: a failing `Persist` changes the copy
they go on with. `lost`, `astray` and `raced` are ghosts: an issued token is stored nowhere, or was
overwritten by an older one; a refresh ran without the lock or could not tell a race; the check of the
version and the write of the cache were on both sides of an invalidation or of a write after a 401, or
a call failed. `StoredInOrder` is an action property: a refresh writes all credentials of the account,
and yet never puts back an older token; the write after a 401 is the only one that may.

## 3. Runs

Passing runs:

| Run | Question | Instance and why it is enough |
|---|---|---|
| `orders` | safety of delivery and rewards, and the ledger | one balance and one subscription order, two handlers, one failure of any kind anywhere. Every conflict in this code is between two handlers of one order; the second order makes "first recharge" interesting, and the pending limit of 1: an order that is pending and two requests about to insert would pass the bound. 0.8 M states. Unlike balance, a subscription may be extended once more for each failure. The safety part is proved for every size. |
| `orders_live` | is a paid order delivered? | one order, two handlers, two failures at the provider or in the delivery |
| `refunds` | safety of refunds, and the ledger | two orders of one user (they share the balance), two handlers, amounts 1 and 2 of 2 (partial refunds), two failures: one at the gateway and one in the rollback is what it takes to reach REFUND_FAILED; one order has no trade number. 1.7 M states |
| `refunds_live` | does a refund end, what is paid back and lost at most? | a balance and a subscription order, one handler, goods of one unit or day bought once or twice, days pass, three failures: lost answers of the provider and of the statements on the goods and a failing audit log among them (two of them make a deduction that is not rolled back, the third hides it). The subscription is revoked or shortened. 0.9 M states. Two handlers on one order are the matter of `refunds`; `LossIsKnown` is proved for any number |
| `idempotency` | overlap, replay, results and effects within the TTL | three requests, two payloads (one with an oversized response), TTL 2, clock to 3, one failure or crash: a record expires, is deleted or claimed again, and requests that read it before act on it after. 2.9 M states |
| `system_lock` | lease and overlap | two workers, operations of two ids, lease 3, TTL 4, clock to 7: the lease would end twice; arbitrary delays, one failure. 1.3 M states |
| `slots` | limit, slots and queue | two requests, two processes, limit 1, queue 1, both TTLs 2, failing scripts and crashes at any time: a second request or process is what it takes to conflict; ids are reused when nobody knows them any more |
| `snapshot` | what readers get, and the register | rebuilds and requests on two processes, two busy at a time, two accounts, so that an index is written in two steps, one change, one failed rebuild. Five versions are as many as two busy workers can name; the run never needs a sixth |
| `outbox` | does a change arrive? | an account event, one without deduplication and `full_rebuild`, two changes, one consumer and one full rebuild that share the lock, two failures, crashes or losses: the loss of the stream and a crash of the worker that has a batch of it are what it takes to lose both copies of an event. 0.14 M states |
| `billing` | charges, the ledger and the cached balance | a connection with two turns, which are two tasks with one key, one that only checks its balance, two pool workers, queues of one (they overflow), policy `sample` (both outcomes of an overflow), a gift, costs of which one kind is too small for the row, one recharge, refund or edit of the user, one failure or crash. 0.5 M states |
| `tokens` | refresh, order of the tokens, and cache | a request and a loop on one process, which share a mutex, and a loop on another, two attempts, one renewal, two failures, 401s or crashes: a 401 that overwrites the new token and another failure on top. A 401 does not concern the last token, which would never be renewed. 0.34 M states |

Every refused, expired, dropped or failed case named in a model occurs in its run: the runs between
them take every disjunct of the next-state relations.

`MaxFaults`, `MaxNow`, `MaxChanges`, `MaxRecharges`, `MaxTurns`, `MaxTokens`, `MaxIds`, `MaxKeys`,
`MaxBusy` and the sets of faults are the only bounds on behaviours; each is a named constant
(`MaxRecharges` counts refunds and edits of the user too, and in `TokenRefresh` `MaxFaults` counts 401s). `CHECK_DEADLOCK FALSE`
is set everywhere because the system may stop: no requests arrive, and the clock is bounded.

One run violates a statement of the repository (details under "findings" in `PROJECT.json`):

| Run | Statement | What happens |
|---|---|---|
| `billing_turns` | usage is tracked and charged precisely (`README.md:33`, `usage_billing.go:16`) | all turns of a WebSocket connection have the request id of the connection, and only the first is charged |

Further points where the code does less than one may expect. The models behave so too; the
properties name them as their exceptions, or are checked without the failure in question:

- A process that dies between taking and leaving RECHARGING leaves an order that no handler accepts
  (`payment_fulfillment.go:109, 514`; the comment at `payment_order_lifecycle.go:155` says that it
  can be retried); so do a failing `markFailed` and a lost answer of the statement that takes
  RECHARGING (160-163, 343-346). `LocksAreReleased` says that nothing else does.
- A refund is reported REFUNDED when the provider has accepted it, though it may be pending and be
  declined later (`payment_refund.go:220-226`; `stripe.go:207-215`, `wxpay.go:310-314`,
  `alipay.go:323-336`): the status in the answer is not looked at and nothing takes it up later.
- A deduction whose answer is lost is not undone: the order is open again, the goods are gone and no
  record says so (`payment_refund.go:171-173`, `user_repo.go:458-464`).
- The pending orders are counted by one statement and the order is inserted by a later one, which
  lock nothing: requests that count at once all insert (`payment_order.go:268`), though
  `docs/PAYMENT.md:65` speaks of a maximum. `PendingBounded` is what is left.
- A reward is looked for by one statement and inserted by another, with no unique index: two retries
  of a completed order may both insert it (`referral_service.go:906`; the comment at 371-373 calls
  this harmless). `RewardsBounded` is what is left.
- A refund whose rollback failed is retried without a deduction; when the provider refuses again, the
  order returns to COMPLETED without its goods (`payment_refund.go:175-178, 235-239`).
- `TryReclaim` does not compare `expires_at`: a request that read an expired record may claim it
  again after another one claimed it and stored its result (`idempotency_repo.go:118`;
  `idempotency_test.go:392` expects one side effect).
- `TryReclaim` keeps the fingerprint of the record's first operation, and `ExtendProcessingLock`
  asks for that of the holder: a system lock taken over from another operation is not renewed
  (`idempotency_repo.go:112-117`, `system_operation_lock_service.go:152-154`).
- A starting instance sweeps the slots and counters of those that are alive
  (`concurrency_cache.go:590`), so that their requests work beyond the limit for a while.
- The event of a change is dropped when an equal one was published less than the dedup TTL ago
  (`scheduler_outbox_stream.go:112`), and the rebuild for an event is skipped without an error while
  the bucket's lock is taken (`scheduler_snapshot_service.go:692`), though the one it repeats, or the
  holder, may have read the database before the change. Only a full rebuild repairs that, and its
  interval is 0 by default (`config.go:1514`; the example configuration sets 300 s). The full rebuild
  does not remove the entries of deleted accounts.
- A charge that gifts pay is deducted from the cached balance as well (`gateway_service.go:7720`);
  that balance, not the gifts, decides whether the user is let in (`billing_cache_service.go:713`).
- A cost of at most 0.0001 is taken from the cached balance only (`usage_billing_repo.go:353`,
  `gateway_service.go:7720`).
- Refunds, their rollbacks and offline recharges change the balance and leave the cached one as it is
  (`payment_refund.go:171, 263`, `payment_fulfillment.go:472`, `referral_service.go:634`): a user whose
  money was taken back is let in until the key expires, and one who has paid may be refused.
- Whoever changes a profile, a password, a setting or the balance of a user reads the user, and
  `userRepository.Update` writes all columns of it, the balance among them (`user_repo.go:168`): what was
  charged, recharged or refunded in between is undone. `BillingLedger` has this as its step `Save`; the
  modules about orders and refunds are about the calls that move money, and leave it out.
- A request that gets a 401 writes its own copy of all credentials back (`ratelimit_service.go:211-216`),
  without a lock and without reading the account again: a token that was refreshed meanwhile is
  overwritten by an older one, whose refresh token is used up, and the account is disabled later.
- The comment at `token_cache_invalidator.go:68-70` says that an old account object is not cached
  after a refresh; the check and the write are two steps, so it may be, until its TTL ends.
- The new refresh token is written in the context of the request (`oauth_refresh_api.go:150`): when
  the client leaves at that moment it is lost and the account is disabled later.
- `Stop` of the billing cache closes its channel before it clears the field
  (`billing_cache_service.go:132`); a request in between sends on a closed channel (174).
- A callback after the grace period is acknowledged and the order stays EXPIRED
  (`payment_fulfillment.go:111-122`; `docs/PAYMENT.md:251` says it is reconciled).
- A subscription is extended again when `markCompleted` fails: the audit entry meant to prevent it
  is written after that update (`payment_fulfillment.go:263-267`, the comment at 365).
  `ExtensionsNeedFailures` is what is left.
- The retry of a first recharge adds the ongoing reward to that of the first one
  (`referral_service.go:304-338`).
- A failed last update leaves an order REFUNDING for good (`payment_refund.go:253-256, 284`), a lost
  audit entry lets the next attempt deduct again (265), and an order without a trade number is
  marked REFUNDED with nothing paid back (209).
- A record left processing by a crash refuses its key after `locked_until` (`idempotency.go:345`).

Limits of the passing runs. `Inv` of `PaymentRefund` (one refund of an order is accepted) and its
`ImplementsLedger` hold for the failures enabled in `refunds`: a provider that refuses, failing
statements, crashes. They do not survive a refund that the provider accepted while its answer was lost
(fault `lost`): the code rolls back and opens the order again; `RepaymentsNeedFailures`, which
`refunds_live` checks with that fault, is what is left of `Inv`. Lost answers of the statements on the
goods (`goodsLost`) and a failing audit log break the ledger's "taken once"; `LossIsKnown`, which
`refunds_live` checks with both, is what is left of it.

## 4. Fairness

`PaymentOrder.Running`: a goroutine that was started runs on (weak fairness of `Step(w)`: the Go
scheduler), the grace period ends, the expiry loop (`payment_order_expiry_service.go`, every 60 s)
visits every pending order again and again, and a provider repeats a callback until it was answered
with success. The last two are strong fairness because a free worker is needed for them, which
other requests may take in between; the server starts a goroutine for each request, so they do run.
`AdminRetries` is an assumption about people and kept apart in `AdminSpec`: `orders_live` has it;
under `FairSpec` alone TLC refutes `PaidIsDelivered`, since a delivery that fails after its callback
was acknowledged by the loser of the race is taken up by nobody else. `UserPays`, `Refund`, failures and crashes are never
fair. `PaymentRefund.FairSpec`: the goroutine of a request runs on; nothing else.
`Idempotency` and `SystemOperationLock` are checked for safety only.

In the other modules every fairness condition is weak unless it is said otherwise.
`ConcurrencySlots.Fairness`: a handler that runs goes on, its wait ends (the code bounds it by a
timeout), an upstream request ends (it has a timeout), time passes and Redis expires keys. The
periodic cleanup is not assumed, because its interval may be 0. `SchedulerSnapshot.Fairness`: rebuilds
run to their end and begin again, and the lock and the copies in memory expire; requests are not
assumed to go on. `SchedulerOutbox.Fairness`: the outbox worker is a loop, the full rebuild runs at
an interval (which `FullRebuildRepairs` therefore presupposes), locks expire. `UsageBilling.Fairness`:
pool and cache workers run, keys expire, and a client that was refused comes again: `MoneyIsUsable`
is a promise to a client that does. `TokenRefresh.Fairness`: goroutines run, loops come round, keys
expire; strong fairness of `LockMutex` because a Go mutex hands itself to a waiter that starves
(`sync.Mutex`, starvation mode). No failure, crash, change, recharge or request is ever fair.

## 5. Proofs

Eight modules hold theorems. Each states, for every value of the constants, the safety invariants
and action properties of the run of its component, with the exceptions named below. The assumptions
are the constants' own (`ASSUME` in the component's module, evaluated by TLC in its run): numbers are
natural, null values are outside their sets, and orders, requests and processes are finite
sets where something is counted or summed over them.

| Module | Theorem | States | Under |
|---|---|---|---|
| `PaymentOrderProofs` | `FulfillmentIsExclusive`, `DeliveryIsOnce`, `DeliveryFollowsPayment`, `StatusesOnlyAdvance` | `Inv`, `DeliveredOnce`, `NothingIsSkipped`, `StatusesAdvance` | |
| | `PendingIsBounded`, `RewardsAreBounded`, `LocksAreGivenBack` | `PendingBounded`, `RewardsBounded`, `LocksAreReleased` | |
| | `LedgerImplemented` | `ImplementsLedger`: the refinement of `OrderLedger` | |
| `PaymentRefundProofs` | `RefundedStays` | `RefundFinal`: a row that was refunded stays as it is | |
| | `RepaymentsAreBounded` | `RepaymentsNeedFailures` | |
| | `PaidOnce` | `Inv` | no answer of the provider is lost |
| | `LossIsOnRecord` | `LossIsKnown` | |
| | `RefundLedgerImplemented` | `ImplementsLedger`: the refinement of `RefundLedger` | nor of a statement on the goods, and the audit log does not fail |
| `IdempotencyProofs` | `ReplayIsOwnResult`, `TakesEffectOnce`, `StoredResultStays` | `Inv`, `OnceUnlessStale`, `ResultStays` | |
| | `AloneWhileLocked` | `AloneWithinLock` | `ProcessingTimeout =< TTL` |
| `SystemOperationLockProofs` | `OverlapLapses` | `OverlapNeedsLapse` | `Lease =< TTL` |
| | `LeaseLasts` | `Inv` | `Lease =< TTL`, `MaxFaults + 1 < Lease` |
| `ConcurrencySlotsProofs` | `WaitCounterExact`, `LimitHolds`, `SlotIsOwn` | `Inv`, `LimitUnlessRevoked`, `HolderHasSlot` | |
| `UsageBillingProofs` | `ChargedAtMostOnce`, `CacheCatchesUp` | `Inv`, `CacheIsExact` | |
| | `BillingLedgerImplemented` | `ImplementsLedger`: the refinement of `BillingLedger` | |
| `SchedulerProofs` | `RequestsAreServedWhole`, `NewerStays` | `Inv` of the snapshot, and `NoneOverwritesNewer`: of the rebuilds that keep their lock none replaces what a later one loaded | |
| | `RegisterImplemented` | `ImplementsRegister`: the refinement of `BucketRegister` | |
| | `AppliedInTheEnd` | `Inv` of the outbox | |
| `TokenRefreshProofs` | `OneRefreshes`, `DisabledAreDead`, `CacheStaysCurrent`, `TokensAreStoredInOrder` | `Inv`, `DisabledIfDead`, `CacheIsCurrent`, `StoredInOrder` | |

The conditions in the last column are needed, which TLC shows: with a TTL shorter than the
processing timeout or the lease it violates `AloneWithinLock` and `OverlapNeedsLapse`, with two
failures and a lease of three intervals `Inv` of the system lock. The configuration does not
enforce the first two (`config/config.go:1981-1989` asks of each value that it is positive); its
defaults meet them, 30 s for the processing timeout, which is the lease too, and an hour or a day
for the TTLs. The failures that the theorems about refunds exclude are the limits that section 3
states.

`RefundFinal` and `NoneOverwritesNewer` have no run of their own: `ImplementsLedger` and
`ImplementsRegister`, which are checked, say as much of a ledger that never re-opens and of a
register that never goes back.

In each module the theorem `Invariance` says that an inductive invariant `IInv` holds;
`InitIInv`, one lemma per action (or per kind of action) and `NextKeeps` show it, and the other
theorems follow from it, some with a further invariant on top. `SchedulerProofs` has two of each:
`SnapshotInvariance` for the snapshot, which it extends, and `OutboxInvariance` for the outbox, of
which it makes an instance with constants and variables of its own. What the outbox assumes of its
constants (`OutboxAssumption`) is there a hypothesis, `OutboxConstants`, because the prover does not
take over the assumptions of an instance. The properties alone are not
inductive. What the invariants add is what makes the code right:

**PaymentOrder.** That `LockRecharging` excludes others does not follow from `FulfillmentExclusive`
alone, since `CreateFailed` writes FAILED without looking at the row.

- `OrderInv`: what the fields of an order's rows say together. A payment recorded in any form is
  one the provider has; a recharge code is used exactly when the balance was credited once.
- `WorkerInv`: what the place a worker is at says of its order. While it creates the order nobody
  can pay it, which is why the unconditional FAILED overwrites no payment; from a confirmed payment
  on the money is there; between taking and giving up the lock the row says RECHARGING;
  `markCompleted` comes only after a delivery.
- `Apart`: no two workers create, or fulfil, the same order.

`ExtensionsAreBounded` needs a second invariant, `AllCounted`: a subscription order
has no more extensions than there were failures, and one more when it is *sealed*, completed or about
to be. An extension finds its order unsealed because of the lock, and leaves it sealed; only a failure
takes the seal away (`FinishingEnds`, `CompleteForGood`). `LedgerImplemented` maps `Redeem` to
`Deliver`, `MarkCompleted` to `Complete`, `UserPays` to `Pay` and every other step to a stutter.

The bounds on what is not locked count the handlers between the look and the write.
`PendingBounded` counts the requests that passed the count and have not inserted (`Inserting`) with
the pending orders, which makes it inductive. `RewardInv`: the records of a
reward and the handlers about to insert one (`Granting`) are no more than the handlers and the failures: a
handler comes to the insert either when there is no record yet, and then those `Granting` are all there
is to count, or by a look that failed, which counts as a failure. They rest on the finiteness of the
two sets (`FiniteAssumption`). `LocksAreGivenBack` is inductive by itself on top of `WorkerInv`: a
step gives up its worker's lock only with the row (`Releases`), or loses it by a failure that counts
(`Loses`) and leaves one order behind.

**PaymentRefund.** A worker that executes has its order REFUNDING (`WorkerInv`) and is the only one
(`Apart`); its plan is of the order's kind, and what it may give back was taken. `PaidInv` adds that
no refund of an order was accepted while the row or the executing worker may still lead to one; this
is what a lost answer breaks. `TakenInv` does the bookkeeping of the goods: but for what failures
without a trace took (`slack`), what the user has lost is the amount of the plan of the one worker that
executes, or is on record. `RepaidInv` is `PaidInv` with lost answers: of an order that may be refunded
once more refunds were accepted by failures only, up to `Goods` for each (`Wasted`).
`RefundLedgerImplemented` needs these invariants, that there are no failures without a trace
(`NoSlips`), which makes `slack` zero, and `AcceptedFirst`: of the order a worker is about to write
REFUNDED a refund was accepted, or it has no trade number.

**Idempotency.** Ids come from the table's sequence (`IdsKnown`), and who owns a record or is
about to claim it has the record's payload (`SamePayload`), which `TryReclaim` does not check but
the reads before it did. `LockHolds` says that the record of an owner within its lock is as that
owner wrote it and that other owners have outlived theirs. `LiveAlone` and
`Covered` say the same for the TTL and for the time after the operation took effect, but for late
and stale claims. That a record with a result is no owner's within its lock (`ResultHasNoOwner`) follows
from `LockHolds`, and `StoredResultStays` from that and from what each claim has to match.
`AloneWhileLocked` needs that an owner's record stays as long as its lock
(`RecordStays`), hence its condition.

**SystemOperationLock.** `LeaseHeld`: a holder whose lease runs has the record as it wrote it last,
and all other leases are over. `Renewed`: while statements are timely each renewal is one interval
after the one before, so the lease is short of a full one by the failures and the turn that is
due; the operation is under way while that leaves something.

**ConcurrencySlots.** `FewMembers`: the scripts keep the number of members, leaked ones
included, at the limit. `HoldersLive` and `HoldersApart`: every holder that was not revoked has a
member that has not expired, and no two hold one id. So the holders inject into the members.
`QueueInv`: the counter counts exactly the requests in the queue, unless `drift`.

**UsageBilling.** `ClaimAlone`: while one transaction has claimed a request id no other has, and
nobody was charged for it; `ChargedWithKey`: row and charge go together. `CacheFollows`: the cached
balance differs from the balance by the charges that were committed and not yet deducted, in a task
or in the queue, whose number (`Undeducted`) every step has to account for, unless `raced`.
`BillingLedgerImplemented` follows from the first two: a request is served when it has a task, and the
transaction that commits holds a claim, so it has a task and its request was not charged before;
`Recharge` and `Refund` are `Transfer`, `ReadUser` and `SaveUser` are `Read` and `Save`, and so is a crash
between them, which saves nothing.

**SchedulerSnapshot.** The versions in use are counted from 1 and all other keys are empty
(`Counted`), so a version that `INCR` gives is a key nobody has written. `WriterAlone`: a version whose
index is being written is named by its writer alone and holds a part of its load, so it is
complete when all members of the load are in it. `ActiveWhole`: the active version is such a
one, and nobody is about to drop it, since whoever drops a version took it from the active key before
another replaced it. `ReadWhole`: so is the version a request is about to read, unless it was dropped, and
then the request finds nothing, never a part. `LockInv`: of the workers whose lock has not expired there
is one, and no version written under the lock is newer than what it loaded, whence `NewerStays`. The
model renames the versions after every step by their ranks (`Settle`); the lemmas `Ranks`,
`SettleRenames` and `SettleKeeps` show that this is an injective renaming of the versions in use and keeps
all of the above.

`RegisterImplemented` goes through the steps once more. A step that is not `Activate` keeps the load of
the active version (`ActiveKept`), a step of one worker keeps what the others are reading (`ReadsKept`)
unless it ends a write, which may take it away (`ReadsLost`), both through the renaming of `Settle`.
`Activate` is `Publish`: it needs that the index is the load (`WriterAlone`) and that of two writers with
the lock the later load is the newer one (`LockInv`). `Request` is `Begin`: it needs that the active
version is whole (`ActiveWhole`), and `MGet` is `Finish`: it needs that only requests read
(`RequestsRead`).

**SchedulerOutbox.** `OnItsWay`: a change that the snapshot lacks and that was not missed is not
announced yet, is in the stream, or is with a worker that will apply it or read it again
(`WillApply`). `BatchOrder`: a batch is rebuilt for by its first event.

**TokenRefresh.** `PersistAlone`: a token that the database has not had yet (it is above `newest`) is the
provider's newest and one caller has it, with the lock or without, since the provider gives the next token for the
newest only. `LockHeld`: who will delete the key of the lock has set it. `Alive`: while no token was
lost the newest is stored or about to be, and whoever is refused used an older one, which the
re-read (`Recover`) finds out. `CacheFollows`: somebody brings the new token while the cache is behind.
`MineKnown`: every copy of the account is of a token up to `newest`, which the database has unless one
was lost, so a write after a 401 puts back an older token and is told (`lost`), or changes the expiry
alone. `TokensAreStoredInOrder` adds `OneAhead`: unless one was lost the provider is at most one token
ahead of the database, so the one that a refresh stores is the next one.

The proofs have corrected the models. `Ahead` counted events that a worker had read before the
stream was lost, although a crash loses them with it; the step that drops an event for its dedup key
could not be proved to keep `OnItsWay`, and with two failures TLC found `Inv` violated. The run had
allowed one. `Returned` of `TokenRefresh` was a `CASE` with arms that overlap. `AloneWithinLock`,
`OverlapNeedsLapse` and `Inv` of the system lock turned out to depend on the relation of two
durations that nothing checks.

Only model-checked:

- Liveness under fairness, which is out of the prover's reach: `PaidIsDelivered`, `RefundEnds`,
  `SlotReclaimed`, `QueueReopens`, `FreshInTheEnd`, `EventsEnd`, `FullRebuildRepairs`,
  `MoneyIsUsable`, `TokenIsRenewed`.
- That the snapshot is current when the outbox has nothing left is proved for a snapshot that is a
  number. That a snapshot is as good as one is `RegisterImplemented`; that the outbox's rebuilds and
  those of the snapshot are the same is an argument (section 2), no theorem.

## 6. Not modelled

The components marked `not_modelled` in `PROJECT.json`: most of the code by size is generated data
access (`ent`), translation between the APIs of the providers, configuration and reports, which keep no
state that two steps could disagree about. Within the modelled ones:

- Orders: amounts, fees and promotions (a bonus changes what is credited, not how often), sales
  commission and promotion usage (run after the delivery, failures only logged), offline recharge, the
  price of a subscription, the difference between the provider instances, e-mails, audit entries other
  than the two that are read, the redeem service's Redis lock (its failure is ignored by the code, and
  the transaction decides), caches that only reads go through.
- Slots: one key stands for a user or an account; a request that holds both takes them in this
  order and gives both back, which is two instances of the model side by side. The API key slots, which
  limit nothing. Unlimited users (limit 0), who take no slot. A slot is given back on disconnect while
  the upstream request may still run, in the model as in the code; what the provider counts is outside.
- Scheduler: the entries of single accounts (`SetAccount`, `UpdateLastUsed`, `DeleteAccount`), which
  buckets an event names, the fallback's rate limit, entries pending at a consumer whose host name
  does not come back.
- Billing: the effects on subscriptions, API keys and account quotas in the same transaction, sales
  commission unlocked by usage, the archive of the claims, the circuit breaker, auto-scaling of the
  pool, shutdown. A turn costs 1, a small cost included: what the cache loses by them adds up. Redeemed
  promotion codes move money as `Recharge` does. Of the saves of users one is under way at a time.
- Tokens: what an administrator writes into the credentials: a refresh (`account_handler.go:1081-1105`)
  and a synchronisation (`crs_sync_service.go:1238`), which take neither lock, read nothing again and
  keep the old `_token_version`, and edits. The properties of `TokenRefresh` are about an account that
  none of this happens to meanwhile. Further, temporary suspension of an account after its last attempt, privacy settings, the scheduler's
  entry of the account, the policies of the Gemini and Antigravity providers, reauthorisation by an
  administrator. The OpenAI provider has the shape of the Claude provider.

## 7. Plan

Done: `PaymentOrder` with `OrderLedger`; `PaymentRefund` with `RefundLedger`; `IdempotencyTable`,
`Idempotency`, `SystemOperationLock`; `ConcurrencySlots`; `SchedulerSnapshot` with `BucketRegister`,
`SchedulerOutbox`; `UsageBilling` with `BillingLedger`; `TokenRefresh`.
The safety of all of them is proved, under the conditions of section 5.

Next, in this order:

1. An abstract specification of the idempotency table as a lock with a timeout, which
   `Idempotency` and `SystemOperationLock` both implement.
2. `Subscriptions`: assignment, extension, stacking grants, usage windows with lazy reset, the
   cached copy; days bought equal days given; composition with refunds.
3. `Rewards`: referral, sales commission and promotion usage of an order, including limits checked
   at creation and recorded at completion.
4. `RefreshTokens` (rotation and families), `WSPool`, `UsageCleanup`.
