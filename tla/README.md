# ag402 in TLA+

ag402 lets an agent pay for HTTP calls: a request that is answered with `402 Payment Required` and an
x402 challenge is paid for in USDC on Solana and repeated with a proof of the payment. This directory
holds TLA+ models of the parts where money, retries and concurrency meet, TLC configurations that check
them on small instances, and TLAPS proofs that hold for every instance.

Paths below are relative to the repository's root; `core/` stands for `src/core/ag402_core/` and
`gateway.py` for `src/adapters/mcp/ag402_mcp/gateway.py`.

## 1. The system

### Components, their state and their operations

| component | state | operations |
|---|---|---|
| payment middleware `core/middleware/x402_middleware.py` | `_payment_lock`, the in-memory order of each call | `handle_request` (first send, prepaid path, budget check, order, deduction, payment, paid retry), `_try_prepaid`, `_transition_order`, `start_delivery_worker` |
| agent wallet `core/wallet/agent_wallet.py` | SQLite `transactions` (deposits and deductions, each pending, confirmed or rolled back) | `deposit`, `deduct`, `rollback`, balance and spend sums |
| payment orders `core/wallet/payment_order.py` | SQLite `payment_orders` | `PaymentOrder.transition_to`, `save`, `update`, `get_stale_deliveries` |
| delivery worker `core/delivery_worker.py` | the batch it works on | poll every 30 s, re-send with backoff, record, give up |
| budget guard `core/middleware/budget_guard.py` | a circuit breaker | six layers of checks over the wallet's sums; `record_success`, `record_failure` |
| Solana adapter and its retries `core/payment/*` | one RPC client, the index of its endpoint | `pay`, `check_balance`, `verify_payment`, retry with backoff, endpoint failover |
| replay guard `core/security/replay_guard.py` | in memory: nonces and times; SQLite: consumed transactions, cached responses | `check`, `check_tx_status`, `check_and_record_tx`, `mark_delivered`, `cache_response`, `get_cached_response`, `prune` |
| gateway `gateway.py` | the two replay guards, a rate limiter, `prepaid_issued`, `prepaid_usage` | the catch-all handler, `purchase_package`, the prepaid fast path, `_proxy_request` |
| payment verifier `core/gateway/auth.py` | none, or a replay guard of its own | `verify` |
| prepaid `core/prepaid/*` | the buyer's credentials file | `check_and_deduct`, `rollback_call`, `create_credential`, purge; the seller's `verify` |
| rate limiter `core/security/rate_limiter.py` | time stamps by caller | `allow`, a sweep per window |
| forward proxy `core/proxy/forward_proxy.py` | a middleware on an event loop of its own, a server with one handler thread | `start`, `stop`, a request (60 s wait), a CONNECT tunnel |
| monkey patch `core/monkey.py` | a reference count, the patched classes, a lazily built middleware | `enable`, `disable`, patched sends |
| OpenClaw skill and bridge `src/adapters/openclaw/*` | JSON files under `~/.ag402`: wallet and history under `flock`, config and credentials without | `setup`, `deposit`, `pay`, the bridge's proxied request with `atomic_deduct`, the prepaid clients |
| TypeScript SDK `src/sdk/typescript`, `src/sdk/solana` | an in-memory wallet | `fetch` with payment, deduct, rollback |
| protocol `src/protocol/open402` | none | headers and version negotiation |
| CLI, wizard, runners, client MCP server, Claude Code hook, key guard, wallet encryption, environment files | files under `~/.ag402` | user commands and glue |

### How they interact

The buyer's process: an agent's HTTP call reaches the middleware (through the monkey patch, the forward
proxy, the client MCP server, the hook or the CLI). The middleware asks the budget guard, writes the
order store, deducts from the wallet, calls the payment provider and repeats the call with the proof.
The order store and the wallet are two SQLite files, written one after the other. The delivery worker is
a task of the same event loop that reads and writes the order store on its own.

The seller's process: the gateway's handler is one coroutine per HTTP request. It passes the replay
guard (memory), the verifier (chain), the consumed-transaction table (SQLite), the upstream service, and
writes the table again. Prepaid requests skip all of that but a usage counter in the same database.

Between the two: HTTP, with all it can lose and delay, and the chain, which may take a transaction whose
submission the buyer saw fail.

### What is hard

* Two databases and no transaction over both: a crash falls between any two commits.
* Coroutines interleave at every `await`, and the worker holds copies of rows that the middleware holds
  copies of too; `PaymentOrderStore.update` writes whole rows.
* A lost answer is not a lost request: the chain or the seller may have done what the caller saw fail.
* The payment lock is held over awaits that raise or are cancelled.
* The gateway reads a transaction's status, then awaits several times before it acts on it.
* A restart empties the nonce table, keeps the transaction table and prunes it.
* Two parties count prepaid calls independently.
* Several processes share the wallet file and the JSON files, and their locks are of one process or of
  one file handle.
* A payment goes on behind a timeout: in the pool of the monkey patch, on the proxy's loop, in the
  TypeScript provider.
* An `asyncio.Lock` is waited for on the loops of several threads.
* Concurrent payments share one RPC client, which a failover of any of them replaces.

### What makes each component correct

* Orders and ledger: no persisted order claims money the ledger does not hold; nothing that reached the
  chain is handed back; the persisted states follow the documented machine; every paid order that waits
  for delivery ends.
* Replay guard: a message passes once; the table holds what is recent and no more than its limit.
* Gateway: work only for a recorded payment; a good answer only if upstream gave one; a second piece of
  work for one payment only with a reason; a used-up payment stays used up until it is pruned.
* Prepaid: no package is served more often than it was sold, one package per payment, and a call the
  seller did not serve is given back.
* Budget: limits hold whatever the interleaving of the calls that share them; every charge has a reason.
* Solana adapter: a payment lands at most once however often it is sent, and the report of it is honest.
* TypeScript client: wallet, counted spending and chain part only for a reason.
* Files: nothing written is lost to an overlap that a lock should have kept apart.
* Front ends: what was paid for is answered; no call hangs; the wallet is opened and funded once.

## 2. Modules

| module | models | kind |
|---|---|---|
| `OrderLifecycle` | what `payment_order.py` documents: the one-way state machine, read for the persisted row | abstract specification |
| `PaymentFlow` | `handle_request` for concurrent calls, ledger, order store, chain, delivery worker, crash | detailed; each order implements `OrderLifecycle` while it has one writer |
| `ReplayGuard` | the nonce table and `check` | component |
| `NonceLog` | `ReplayGuard` met by any sequence of messages, with a log of what passed | composition |
| `RateLimiter` | `allow` with its sweep, pruning and bounded table | component |
| `Redelivery` | the clocks of one paid order: stamp, grace window, the worker's pauses | composition of buyer and seller, by their times only |
| `GatewayClocks` | the three clocks at the gateway's door, over `NonceLog`, `RateLimiter` and `Redelivery` | one of three at a time |
| `Receipt` | how a payment may stand with the gateway, as the handlers see it and as it is saved: fresh, open, closed, forgotten | abstract specification |
| `PersistentReplayGuard` | the consumed-transaction and response tables, one operator per statement and per commit, on one shared connection | component |
| `Gateway` | the catch-all handler for concurrent requests over both guards, restart | composition; implements `Receipt` |
| `PrepaidCalls` | `_try_prepaid`, the credentials file, the gateway's prepaid path with its usage table, lost and late messages, crashes of both sides | composition of buyer and seller |
| `PrepaidPurchase` | `prepaid buy` and `prepaid recover` with their one recovery record, the purchase handler with `prepaid_issued`, crashes of both sides | composition of buyer and seller |
| `Budget` | one wallet file, the processes that spend from it, the guard's layers, the circuit breaker, SQLite's open transactions | composition of processes |
| `SolanaPay` | `SolanaAdapter.pay` for concurrent payments over one client, with retries and failover | component |
| `TsFetch` | the TypeScript client over its wallet and the Solana provider, with the payment's timeout | composition |
| `HomeFiles` | every load and save of the JSON files by the skill, the bridge and the prepaid clients, and the expiry of packages | composition of processes |
| `Interception` | `monkey.py`: enable, disable, the shared middleware and its first calls, on the loops of several threads | component |
| `ForwardProxy` | start, stop, the handler thread, tunnels, coroutines on the proxy's loop | component |
| `FrontEnds` | a process with the patches or one with the proxy, over the two above | one of two at a time |
| `PaymentFlow_proofs`, `Gateway_proofs`, `Budget_proofs`, `SolanaPay_proofs`, `TsFetch_proofs` | the components they are named after; the first of them also `GatewayClocks` | theorems and proofs |
| `Buyer_proofs` | `PrepaidCalls` and `HomeFiles`: the buyer's calls and the files they are kept in | theorems and proofs |
| `Clients_proofs` | `PrepaidPurchase` and `FrontEnds`, the two that an agent calls | theorems and proofs |
| `SumTheorems` | sums over finite sets | lemmas for the modules that count money |
| `MC*` | instances for TLC | |

`GatewayClocks` and `FrontEnds` put components that do not touch each other's state side by side; a
behaviour looks at one of them, which an initial choice (`watched`, `front`) names.

Definitions named `X_Y` beside a definition `X` (`RetryRejected_RollsBack` beside `RetryRejected`) are
variants of it with a plausible bug. No specification uses them. They document what each property
guards against: with the variant in the place of `X`, the property fails.

## 3. How the models correspond to the code

**PaymentFlow.** `pc[r]` is the place of one `handle_request` call between two awaits, or between two
commits. `deduction`, `order` and `chain` survive a crash: they are the wallet's SQLite rows, the order
store's rows and the cluster. `mem[r]` is the `PaymentOrder` object the coroutine mutates, `batch[r]` the
worker's copy of a row; `update` writes whole rows, so `RecordState` and `RecordResend` overwrite
`order[r]` with what their writer holds. Rows carry what the flow branches on: state, presence of a
`tx_hash`, `retry_count`, and the ticks since `updated_at`. `pay` is two things: `Broadcast` may put the
transaction on the cluster while the call runs, and `PayOk` or `PayFailed` is what the caller is told;
they may disagree, as a send whose answer is lost does. `Abort` is any exception nothing catches, and
cancellation; `async with` gives the lock back. `Crash` kills all coroutines and the worker, and the
process starts again. A request outside `Storing` has a middleware without `order_store`, which is how
the entry points of the repository build it. Requests of both kinds under one lock do not occur in the
code; the model allows more than the code does.

**ReplayGuard, NonceLog.** `seen` maps a nonce to the time it was let through. The guard is asked for
messages of any nonce with any stamp at any time: duplicates, delays and clocks that are off are covered,
and so is the stamp `NaN`, which `float()` makes of the header `nan` and which no comparison refuses.

**PersistentReplayGuard, Gateway.** One operator per statement, and one for a commit, which is an await of
its own. All handlers share one connection: `recordedAt`, `delivered` and `cachedAt` are what that
connection sees, `saved` what was last committed, by whoever committed (`PrepaidCommit` is a handler of a
prepaid request). Statements and commits of different requests interleave in `Gateway`, whose `pc[i]` is
the place of one handler between awaits. A handler that finds the transaction new records it and reads
back what it lost to another (`Record`, `CommitRecord`, `RecheckOpen`, `RecheckExpired`). `StoreFault` is a
statement or a commit that raises; nothing in the code rolls back, and SQLite may or may not (`AfterFault`).
`Restart` empties the nonce table, goes back to what was saved and prunes it. `worked` counts what upstream
really did, `excuse` remembers why it may do it again, `doubt` the payments whose uncommitted row met a
failing call. `Receipt` abstracts all of it to how one payment stands, as seen and as saved.

**PrepaidCalls.** Buyer and gateway take separate steps. The file operations are synchronous under the
payment lock, hence one action each. The gateway's handlers share one SQLite connection: `usage` is what
that connection sees, `durable` what a restart finds, and a commit of any handler (`CommitUsage`) takes
every handler's pending statements along. `SendRaises` may come at any time after the request is out:
the gateway's handler goes on and its answer goes nowhere. `RollbackCall` finds a credential as the code
does, by seller, buyer and package.

**PrepaidPurchase.** `cmd[k]` is the place of one run of `prepaid buy` or `prepaid recover` between the
steps that touch a file, the chain or the network; a buy also names its payment. `pending` is
`pending_purchase.json`, of which there is one. `gate[p]` is the place of the gateway's handler of one
post between its awaits; `issued` is what the shared connection sees, `durable` what is committed. The
lookup, the insert, its commit and the second lookup are separate steps, so a handler may answer from a
row that another has not committed yet. `PostRaises` may come at any time and the handler goes on.
A buy that is told of a failure may have paid all the same (`PaidUnreported`). `file` is the credentials file
and `copy[k]` what one command has loaded of it: `add_credential` loads, appends and saves the whole without
a lock, and so does a program that spends calls (`SpenderSaves`, whose own steps `PrepaidCalls` and
`HomeFiles` have). `Close` is the gateway's shutdown, in which handlers find no store; `Restart` loses what was not
committed and prunes. `forgot` and `mishap` are history: how a row or a payment's record was lost. A
credential stands for what is derived from the time of issue; another buyer's claim on a payment, or
another package, is data and left out.

**RateLimiter, Redelivery, GatewayClocks.** `Allow` is one call of `allow`, which has no `await`;
`requests` is the table, `admitted` the log of everything let through. A unit of `Redelivery` is half a
minute, the size that the stale age, the base backoff, the poll interval, the send timeout and the replay
window share. `Poll` is one cycle of the worker over the order: give up, wait or send. A request is
answered or raises within its timeout; the first paid retry and a re-send do not overlap here, which
`PaymentFlow` is there for. `recordedAt` and `delivered` are the gateway's row.
Two simplifications: there is one order, where the worker serves those of a batch in turn, and a send is
over after 30 s in all, where httpx counts 30 s for each of its phases. The code's grace of 300 s is two
minutes more than the schedule needs (section 7), which is room for such a delay and not for any.

**Budget.** A call is `handle_request`'s reading of the limits, one `await` each, then the deduction, or
`ag402 pay` in test or production mode, which is another process's. `conn[p]` is a connection of Python's
sqlite3: `tx` open or not, `frozen` the view its first read fixed, `dirty` what it wrote and has not
committed. `Write` takes the file's one write lock or is refused after `busy_timeout`; nothing in
`agent_wallet.py` rolls a SQLite transaction back. `Cancel` hits a call at any of its awaits.

**SolanaPay.** `pay` signs once and sends through `retry_with_backoff`, then once more after a failover;
`calling[p]` is the client an attempt in flight was made on, since a failover of another payment replaces
`client` under it. The cluster may take a transaction whose submission was seen to fail. What `pay`
returns is one of four results, as the middleware can tell them apart. `Confirm` looks, as the code does,
for an `err` on the `value` of the answer; where the RPC library answers with a list of statuses there is
none, and a transaction that failed on chain is taken for confirmed, so of such a one both outcomes are
possible. `VerifyPayment` is the seller's
side, `verify_payment`: `ShowsTransfer` is what it reads out of the transaction (known, confirmed, without an
error, the amount to the address), and `verdict[p]` what it answers.

**TsFetch.** One action for each stretch of `fetch.ts` between two awaits. Prices are in quarters of a
micro-dollar so that `Math.round` is visible. `Timeout` ends the wait and not the provider, whose `job`
goes through the stages of `index.ts`. `cause` remembers why a deduction was undone.

**HomeFiles.** A command is a table of file operations, `Program`, in the code's order; the interpreter
knows a plain and a locked load and save, a caller's own lock, an atomic replacement, and a save that is
cut in two by a kill. Locks belong to handles, as `flock` has it. Contents are sets: the balance, the
transactions by job and number, of which a save keeps the last `HistoryLimit`, and the credentials with
their number, their calls and whether they are still live. `Expire` is the passing of a credential's date;
a purge drops it with its calls, which `lapsed` counts. `free_proxy` and `lost_proxy` are requests of the
bridge that touch no file: refused before the payment, or paid for and lost in a paid retry that raised.

**Interception.** A call is a coroutine of the application's loop, a blocking call that holds this loop
while the pool's one thread handles it, or a call of another thread with a loop of its own. `locks[g]` is
the init lock of a middleware with its owner and waiters, `Woken` what a release does to a waiter on
another loop: it runs, or it sleeps on. `_middleware` is read again after every `await`, so `mine[c]`,
the one a call pays with, may be another than the one it initialised. `crossings` counts the calls a
disable met in or before an init, `raised` are the calls whose paid retry raised: `monkey.py` catches it
and returns the original 402.

**ForwardProxy.** `start` and `stop` are coroutines of one loop, which `stop` blocks while it waits for
the handler thread. `reqPc[r]` is what client and handler see, `co[r]` the coroutine on the proxy's loop;
after the handler's 60 s they go separate ways. `ComeUp` may fail to bind whether or not this proxy listens,
since another process may have the port; its loop runs on (`stranded`). `Stopped` drops what is still on the
loop.

## 4. Runs

| run | question | instance |
|---|---|---|
| `payment_safety` | do ledger, orders and chain keep their relations, whatever interleaves or crashes? | two requests with a store, one crash or failed worker cycle, retries slower than the stale age, one re-send |
| `payment_rows` | do orders follow the documented machine while they have one writer, and is work repeated only after a loss or a race of two writers? | the same with funds for one request, two re-sends |
| `payment_ends` | does every delivery and every request end? | one request with a store, one without, funds for one of them |
| `gateway_clocks` | is a message let through once and a caller turned away only for a reason, and do a paid order's tries meet the grace window? | three nonces, table of two, stamps 0..4 and NaN, window 1, clock to 6; three callers, table of two, two per window; one order with the code's own times |
| `gateway` | is work recorded, an answer earned, a repetition excused, a receipt kept? | a message, its duplicate and a late retry for one payment, two faults |
| `prepaid_calls` | do the two counts of calls agree where they must? | three requests, two credentials of two calls each, one fault |
| `prepaid_purchase` | is one credential given for one payment, only for a landed one, and is a payment never lost from sight? | two purchases and a recovery, two posts between them, two faults |
| `budget` | do the limits hold for a process and, but for one payment, for all; can the books be explained; does the breaker hold? | two calls of a middleware, `ag402 pay` beside them, one fault, three reported failures |
| `solana_pay` | does a payment land once, is its report honest, is every endpoint tried, does every payment end? | two payments, a backup, two retries, one look at the balance |
| `ts_fetch` | do wallet, counted spending and chain agree, and does the wait for a provider end? | two calls with the Solana provider, one with the mock, one wallet, one deposit, offers on both sides of each limit |
| `home_files` | is anything lost, torn or blocked that a lock should protect? | four jobs in three processes, any of sixteen commands among them, a history of one entry, packages that expire, one kill |
| `front_ends` | is what was paid for answered, do the flags tell the truth, does anything hang? | three patched calls of three kinds, nested enables, two middlewares; or a proxy with two requests and a tunnel, two starts, two stops |

### What the properties say

* `LedgerLeadsOrder`, `ReturnsConsistent`: the two databases may be caught apart by a crash in one
  direction only, and agree whenever a call returns. `ProofIsReal`: whatever the worker may re-send has a
  transaction behind it. `SuccessMeansServed`: SUCCESS is never written for work not done, although two
  writers overwrite each other. `EveryDeliveryEnds`: an order whose transaction was sent ends, unless its
  coroutine dies between two commits.
* `DuplicateOnlyAfterLoss`: the seller works twice for one payment only if an answer was lost or if the
  order was raced for: the worker took it up, stale, while its coroutine still waited for the first paid
  retry or was recording it (`raced`). `FollowsLifecycle`: until it is raced for, an order's row refines
  `OrderLifecycle`; after that it still never leaves DELIVERING, SUCCESS and FAILED. That a raced row may
  go back from SUCCESS to DELIVERING is section 9.
* `MessageOnce`, `TableIsRecent`: a message whose stamp is a number never passes twice, no nonce passes
  twice within two windows whatever its stamp, and nothing is forgotten that a duplicate could still match. `DoorIsFair`: both tables keep their limits, no caller gets more than its rate in any
  window, and who is refused is at its rate or is new to a table full of callers of the last two windows.
* `EnoughChances`: an order that is given up unserved had at least `MinChances` tries that the gateway
  would have served or that were lost on the way. The schedule allows 2 and no more: of the worker's
  pauses of 60, 120, 240 and 480 s few fit a grace of 300 s. With 3 the property fails: a payment slower
  than the replay window spoils the first try, and of the others only two fall into the grace window.
* `WorkIsRecorded`, `AnswerIsEarned`, `RepeatHasExcuse`, `KeepsReceipts`: upstream is called for a payment
  whose row is committed or about to be, unless a store call failed while it was not; it works twice only
  if requests overlapped, a recording failed or was lost before its commit, or a restart pruned it; a
  receipt that is saved closed opens again only by being forgotten, and one that is saved open is never
  forgotten.
* `NotOversold`, `CountsAgree`, `FallbackIsUnserved`: the seller's count bounds the work whatever the
  buyer's file says; a call the buyer gave up for good is in the seller's committed count and rollbacks do
  not create calls; a request that falls back to the chain was not served.
* `OneCredential`, `CredentialIsPaid`, `PaidIsInSight`: the race to insert has one winner whose credential
  all are given; a post that comes before the payment has landed is given none; and whoever crashes,
  times out or is refused leaves the payment in the record, or its credential in the file, unless one of six
  named mishaps took it out: the payment was reported as failed and landed, the record could not be written,
  another purchase overwrote it, another command removed it, its own command died after removing it and
  before storing the credential, or a program that had loaded the credentials file earlier saved it.
* `LimitsHold`: a process that pays through the middleware is within its limits whatever the others do,
  and all together exceed the file's by one payment for each process but one. `BooksAreExplained`: a
  deduction of a call that is over was paid for, could not be given back, or its call did not live to; an
  old view comes from a refused write. `BreakerHolds`: after `Threshold` failures as the breaker counts
  them, but no fewer than the literal 3, nothing passes until the cooldown since the last of them is over.
* `PaymentIsHonest`: one transaction of a payment lands at most, a success was submitted, a confirmed one is
  final on the chain (where it may have failed, section 9), a rejection did not land, whatever the buyer
  was told the seller's verification takes only a landed one for paid, and a failure without a hash stands for a landed payment only after a lost answer.
  `EndpointsAreTried`: nothing is given up before its attempts, and before the backup, but for a failover
  of another payment. `EveryPayEnds`.
* `SpendingAddsUp`: what the wallet is short of is what the instances count and what is in flight, and the
  overspend of concurrent calls is bounded by their number. `MoneyMatchesChain`: a payment told as made
  has landed; one undone has landed only after a timeout or a lost answer. `PaymentWaitEnds`.
* `FilesAreKept`, `TornFilesHaveCause`, `OnlyWedgesBlock`: no deduction, transaction, call or key is lost
  but to a kill or an overlap on a file without a lock, the oldest entries of a full history and the calls
  of an expired package to their cut and their purge excepted; half files come of kills, and an answer 500
  for a paid request of a kill or of its paid retry; and nothing blocks for ever but the two commands that
  wait for a lock they hold.
* `StateIsTrue`, `PaidIsAnswered`, `EveryWaitEnds`: the flags of both front ends tell what is so, and of a
  proxy that does not run nothing runs on but the loop of a start that could not bind; what was paid for is
  answered, unless the caller's 60 s were over or the paid retry raised; see the comments of `FrontEnds`; the exceptions are
  named there and in section 9.

Several properties are conjunctions of named parts. Each part fails with a variant of its own:

| property | part: variant |
|---|---|
| `DoorIsFair` | `LimiterIsFair`: `HasNoRoom_Ever`, `Expired_Oldest`; `TableIsBounded`: `Accept_OneTooMany`; `LogTypeOK`: `Accept_SwappedKey` |
| `EnoughChances` | `Stamp_Stored`, `Open_OneWindow` |
| `CountsAgree` | `CountCovers`: `ReceiveAnswer_AnyStatus`; `NoCallsConjured`: `CheckAndDeduct_NotSaved`; `TypeOK`: `RollbackCall_Uncapped` |
| `LimitsHold` | `ProcessWithinLimits`: `PaymentLockFree_Released`; `OverspendIsBounded`: `CalcBalance_Deposits`; `TypeOK`: `Write_Unlocked` |
| `BooksAreExplained` | `ChargeHasReason`: `PayFailed_NoRollback`; `OldViewHasCause`: `CommitRows_KeepsOpen` |
| `PaymentIsHonest` | `LandsAtMostOnce`: `Final_Blockhash`; `ReportIsHonest`: `Confirm_Assumed` |
| `EndpointsAreTried` | `GivesUpExhausted`: `GivesUp_Early`; `IndexIsBehind`: `Failover_Keeps`; `TypeOK`: `AttemptFails_OneMore` |
| `SpendingAddsUp` | `OverspendIsBounded`: `Accepted_Stale`; `WalletMatchesSpending`: `Rollback_Floors`; `TypeOK`: `CanDeduct_Unchecked` |
| `MoneyMatchesChain` | `PaidHasLanded`: `Resolve_Unchecked`; `UnaccountedHasCause`: `Retry_Refunds` |
| `FilesAreKept` | `DeductionsAreKept`: `AtomicDeduct_ReadsFirst`; `KeptUnlessOverlapped`: `Usable_MoreThanOne`; `SetupsAgree`: `Missing_Always`; `HomeTypeOK`: `Stops_Unchecked` |
| `TornFilesHaveCause` | `LockedLoadsAreWhole`: `Shares_No`; `PaidIsReported`: `Raises_Missing` |
| `StateIsTrue` | `FlagIsTrue`: `BeginInit_Flagged`; `PatchedWhileEnabled`: `LastOne_Any`; `OneTopUp`: `Free_Always`, `Poor_Always`; `RunningIsTrue`: `Stopped_None`, `RunningAtEnd_Kept`; `TypeOK`: `CanHandle_Always` |
| `PaidIsAnswered` | of the patches: `Result_IfEnabled`; of the proxy: `AnswerOf_Running`; `DroppedWasAnswered`: `HandlerIsDone_Unasked` |

## 5. Bounds

* Two requests suffice for the lock, for the shared balance and for the order of the worker's batch: an
  order is written by its own coroutine and by the one worker, so a third request adds no new pair of
  writers. Prices 2 and 3 against funds of 3 or 5 make both the second request's refusal and its
  approval happen.
* One tick is 30 s, the stale age and the base backoff. `MaxAge` 2 lets the backoff of the first two
  re-sends pass. `MaxRetries` 1 or 2 stands for 5: exhaustion is reached after at least one failed re-send.
* `MaxFaults` bounds crashes and failing calls in one behaviour: one for the payment flow and the prepaid
  calls, two for the gateway (a failed mark and a pruning restart together) and for the purchase (a commit
  that fails and a restart that loses the row).
* `MaxPosts` 2 bounds the posts of all commands of a purchase run together. Two posts are what a race for
  the row takes, and they may be a retry, two purchases, or a purchase and a recovery. `MaxAttempts` 2
  stands for 3: there is an attempt with a retry left and one without. Time 1 and ages 0 let a record
  grow stale and a row be pruned.
* The nonce table of two meets three nonces, so overload, pruning and reuse all occur; clock 6 is past
  the retention of two windows for every stamp that is accepted.
* In the gateway instance the pruning age is longer than the grace window, which is longer than the replay
  window, as in the code (7 days, 300 s, 30 s); the late retry's stamp puts it after the grace of the
  first message.
* In the prepaid instance one credential expires early, so that rollbacks find the wrong credential and
  purges remove one; three requests are more than one credential's
  calls. The clock reaches the pruning of the first usage rows.
* `gateway_clocks`: the clock of 6 is three rate windows of 2. The order's times are the code's, in half
  minutes (grace 10, five retries, pauses 2, 4, 8 and 16 counted from the base of 1); a payment takes up
  to 3 of them, past the replay window of 1.
* `budget`: two calls of one process contend for one payment's worth of every limit, the third shares the
  balance and the day with them from another process; two minutes are one day, so that both windows roll.
  The breaker's threshold is 2 in the process of the middleware, below the literal of `record_failure`, and
  3, the default, which equals it, in the other.
* `solana_pay`: two payments are enough for one to take the client from under the other; two retries are
  the code's. `MaxSigns` 2 leaves room for a second signature, which the code never makes. A third endpoint
  does not occur: there is one backup.
* `ts_fetch`: two instances and three calls make two of one instance overlap and share the wallet with
  a third; the limits are met exactly, missed by one unit, and a price below a micro-dollar rounds to 0.
* `home_files`: four jobs give two that overlap, one that comes after both, and one in another process. A
  job is any of the commands that its process can run. `HistoryLimit` 1 stands for 1000: the second
  transaction meets a full history.
* `front_ends`: one call of each kind is what it takes for a lock on three loops; two middlewares are what
  it takes for one's init to flag another; a third request of the proxy waits behind a tunnel.

## 6. Fairness

`PaymentFlow`: weak fairness on `HandleRequest(r)`: an event loop runs every coroutine that is ready, and
every await in it has a timeout (HTTP client, RPC client, SQLite). Weak fairness on `WorkerStep`: the
worker is a task of the same loop, its re-sends have the client's timeout, and its `run` catches what a
cycle raises. Weak fairness on `Tick`: time passes. Nothing is promised of new requests (`Challenged`), of
exceptions and cancellation (`Abort`), of the chain, of failing cycles or of crashes. `asyncio.Lock` is
fair by queueing; the model needs less: requests that compete for the lock are finitely many.

`SolanaPay`: weak fairness on the steps of each payment that has begun: every RPC call is under
`asyncio.wait_for`, so it is answered or raises. The cluster promises nothing: that a payment ends is due
to the bounded attempts and to the one failover.

`TsFetch`: weak fairness on `Timeout(c)`: the timer fires if it is not cleared; and on what runs in
microtasks alone, the mock's answer and a refusal without an `await`. The Solana provider promises nothing,
and may hang.

`OnlyWedgesBlock` and `EveryWaitEnds` are invariants that say who can go on when somebody waits; they need
no fairness.

## 7. What is proved

Safety, of every component, for every value of the constants. A theorem `Spec => []P` rests on an inductive
invariant: TLC was asked about it on the instance first; then that the initial states have it, that a step
keeps it, one lemma for an action or a group of actions, and that it implies `P`.

**Payment flow** (`PaymentFlow_proofs`)

* `TypeCorrect`, `LedgerLeads`, `ProofsAreReal`, `ReturnsAreConsistent`. `LedgerLeadsOrder` is not
  inductive: whether a step of the worker or of a coroutine keeps it depends on what the writer's own copy
  claims. The inductive invariant therefore says, for a request with a store, what `pc`, ledger and `mem`
  have to do with each other (`ProgressInv`), what the row may be at that point, including rows the worker
  wrote meanwhile (`OrderInv`), and that every copy in the batch was a DELIVERING row with a hash and a kept
  deduction (`BatchInv`); for a request without a store, that nothing was stored.
* `SuccessIsServed`: SUCCESS in any copy, row or answer has the seller's work behind it (`ServedInv`).
* `DuplicatesAfterLoss` and `LifecycleImplemented`, for paid retries of any duration. `WritersInv`: until an
  order is raced for it has one writer at a time, for while its coroutine may still write, the row is not in
  the worker's batch, and what the worker holds is what the row is; each write is then a transition of
  `OrderLifecycle` or leaves the row's state, which is the refinement, row by row. Once it is raced for, all
  copies of it, the coroutine's and the worker's, are of a delivery, and so is whatever they write.
* Of `NonceLog`: `MessagesOnce`, `TableRecent`, `TableBounded` (a part of `DoorIsFair`). The invariant ties
  the log to the table: whatever was let through in the last two windows is in the table with its time, and
  a stamp that is a number is within one window of the time it was let through at. Two passes of one message
  would be at most two windows apart, within the retention; for the stamp `NaN` only the retention is left.
* `DoorAlwaysFair`, with the rate limiter. The times at which a caller was let through ascend, and any
  `MaxRequests + 1` of them in a row span a window (`SpacedInv`); its entry in the table is the end of that
  list, and what the entry leaves out has expired (`TailInv`); no entry had expired at the last sweep
  (`IsYoung`), so that each stands for a caller of the last two windows, which is what a refused newcomer
  is told. A rate of 0 is not excluded.
* `ChancesAreEnough`: for a `MinChances` of at most 2, which is what the schedule can give, for any payment
  time, and for every schedule that meets `ScheduleAssumption`: an answer comes while its stamp is fresh,
  the worker re-sends three times, and the pause before the third re-send with one cycle and one timeout
  fits into the grace window. The invariant counts the tries (`CountsInv`), bounds when the next one is made
  (`InTime`), and says that of a try no more than one of its two ends is out (`OutInv`). Of the code's
  grace of 300 s the assumption asks for 90 s and 180 s.

**Gateway** (`Gateway_proofs`): all five properties, with statements and commits apart. The invariant says
what the saved columns and the visible ones have to do with each other (`StoreInv`), who is about to commit
a row that has no commit, unless a call failed (`RowInv`), and what the place of a handler implies
(`RequestInv`); `OnceInv` adds for a payment without an excuse who may still work for it. For `Receipt`, the saved columns follow the visible ones, and each step changes each
transaction's row and saved row as one of a few row steps, of which each moves both standings as `Receipt`
allows or not at all.

**Prepaid purchase, front ends** (`Clients_proofs`)

* All four properties of the purchase. `IInv` says what the place of a command and of a handler imply (a
  handler past the verification has a landed payment; a command that has not started has no posts).
  `CredentialInv` adds that the winner's stamp is the row and that what was handed out is the row's or
  forgotten. `PaidIsInSight` is not inductive, since a refusal may take the last command at work away:
  `SightInv` says that until a credential is in hand the record, and not only a command, names the payment,
  and that a stored credential is in the file or was saved away by somebody.
* `StateAlwaysTrue`, `PaidAlwaysAnswered`, `WaitsAlwaysEnd`. Of the patches: the init lock's owner is the one
  call inside the init, the waiters are in the order they came, and the first of them is awake exactly while
  the lock is free (`Orderly`); that is what makes `EveryWaitEnds` an invariant and not a matter of
  fairness. A blocking call that is at a lock has its loop for itself (`HeadInv`); the top-ups are bounded by
  the crossings of two inits, which are counted (`CrossInv`, `MoneyInv`). Of the proxy: what its thread, its
  loop and each handler may be in each state (`UpInv`, `HandlerInv`, `ReceiptInv`).

**Prepaid calls, files** (`Buyer_proofs`)

* `CountsStayTogether`, `NeverOversold`, `FallbackNeverPaysTwice`. The invariant says where a request may be
  and what it holds (`StageInv`), and for each credential that the requests that were done, or that passed
  the gate and may yet be, are covered by the committed count while the row is kept (`CountInv`). That no
  call is conjured up is a sum over the file, with the calls that requests in flight may give back.
* `TornAlwaysHasCause`, `FilesAlwaysKept`: for any jobs, processes and choices of commands. `BaseInv`: every
  lock is exclusive, its owner runs, a job in the middle of a save has the file's lock, and a deposit or a
  payment never gets past the lock it holds itself, which is why neither changes the wallet. Before the
  first kill a torn file has a running writer (`TornInv`), so that a locked load meets none. `ValuesInv`:
  what is in the files and in hand, how it is numbered, and that whoever deducts has something to deduct
  from. `SoloInv`: a file
  that no lock keeps between its load and its save has one writer, who knows what is in it, until two have
  overlapped on it. From these: the history (`HistoryInv`), the key (`ConfigInv`), the balance, as a count
  of the requests that have deducted (`WalletTold`), and the calls with those that lapsed, as a sum over the
  credentials (`CreditTold`). The programs are data: what the proofs need of them (`Placed`: which operation is at which
  place of which command) is a lemma by cases of the table.
* `OnlyWedgesEverBlock`. A lock of a save is held only in the middle of the save, which needs no other; a
  command that holds a lock of its own is a proxied request on its way to the end, or a deposit or a payment
  at its load of the wallet (`PlacesInv`). So whoever holds a lock can go on or waits for itself, and a job
  waits only for what somebody holds. `CanWork` is `ENABLED Work(j)` spelled out, which the provers need.

**Budget** (`Budget_proofs`): `LimitsAlwaysHold`, `BooksAlwaysExplained`, and, for a threshold of any size,
`BreakerAlwaysHolds`: a breaker with 3 failures or more is stamped with the time of the last. `IInv` says what a process's open
transaction sees of the file (`ConnInv`, `RowInv`), that locks exclude, that a call past the guard was
checked against what its process knew (`Checked`, `KeepsLimits`), and by how much all may be over. A step
does one of six things to the file (it is silent, or it writes, commits, cancels, restarts or passes), and
the parts are kept class by class.

**Solana** (`SolanaPay_proofs`): `PayIsHonest`, `NothingGivenUpEarly`. A payment signs once, and only
that transaction is ever known to the cluster (`SignsOnce`); what is told of a payment is what became of its
transaction, but for a lost answer (`Honest`); the history of its attempts keeps up with its loop, and its
call is at the endpoint the client is on unless another failover came between (`Attempts`).
`IndexAssumption`: there is at most one backup.

**TypeScript client** (`TsFetch_proofs`): `SpendingAlwaysAddsUp`, `MoneyAlwaysMatches`. `CallInv` and
`CauseInv` say what a call's place implies of its money; the wallet is what it began with less the sum of
what the calls hold, and the limits are met up to the calls that overlapped.

**Sums** (`SumTheorems`). The library's theorems of induction cannot be instantiated here, so what the
library's fold computes over a finite set is proved by the absence of a least counterexample among its
subsets: the sum exists, is the same in whatever order it is taken, and grows, shrinks and splits as sums do.

Assumptions: those of the modules (`ASSUME`, evaluated by TLC in the runs), `MinChances <= 2` and the
schedule where a theorem states them, and no others.

Only model-checked, and why:

* `EveryDeliveryEnds`, `EveryRequestEnds`, `EveryPayEnds`, `PaymentWaitEnds`: liveness, out of the provers'
  reach.

## 8. What is not modelled

* HTTP parsing, header formats, HMAC, address and URL checks: data, decided by a nondeterministic outcome
  where it decides a branch.
* Verification of a transaction's contents on chain: an outcome of `Verified` or `VerifyFailed` in the
  gateway; the adapter's own `verify_payment` is `VerifyPayment` of `SolanaPay`.
* A clock that steps back.
* Several processes on one order store: no entry point of the repository builds it.
* Of the monkey patch the guard against re-entrancy (a `ContextVar`), the init in production mode, and
  switches of threads between two bytecodes: a step is what runs between two awaits or two blocking calls.
* Of the skill its prepaid server and the commands that neither read nor write a file.
* `core/runners/base.py` starts a child process with the patches on and is sequential; its `use_proxy` is
  read by nobody. The configuration, the wizard and the terminal have one user at a time; `cli.py` beyond
  `pay`, `prepaid buy` and `prepaid recover` prints or calls one component. The client MCP server and the
  hook hand a call to the middleware. The protocol package is pure.

## 9. Disagreements seen

Met while modelling: where the code does something else than its documents, comments or callers say. The
properties above name these cases as exceptions, or leave them out as said here.

The payment flow:

* A terminal order is overwritten. `payment_order.py:214` writes the whole row from the caller's copy
  without comparing the stored state; the worker re-sends an order whose first paid retry is unanswered
  for longer than the stale age, and whichever of the two writes last wins, so that SUCCESS goes back to
  DELIVERING. `payment_order.py:17` calls SUCCESS terminal. httpx's 30 s are per phase, so that a paid retry may
  outlast the stale age of 30 s. `FollowsLifecycle` and `DuplicateOnlyAfterLoss` except such an order.
* A refunded order lands on chain. `provider.pay` reports a failure for a submission whose answer was lost;
  the middleware rolls the deduction back and marks the order REFUNDED, "before broadcast" by the comment
  of `x402_middleware.py:252`. `ReportIsHonest` names the lost answer as the only way.
* A paid order is never delivered if its coroutine dies between the commits of CHAIN_BROADCASTED and
  DELIVERING: the worker polls the latter only (`delivery_worker.py:101`). `x402_middleware.py:67`
  promises "asynchronous background retry". `EveryDeliveryEnds` names the case.
* A paid order is marked FAILED although its work was done: if the answer was lost, the gateway answers
  every re-send with 402, since a delivered transaction is not within grace (`replay_guard.py:262`).
* Of the worker's five retries the later ones are in vain: by then the grace window of 300 s is over.
* The paid retry repeats the first request's time stamp (`x402_middleware.py:279`): a payment that takes
  longer than the replay window spoils it.
* A transfer that failed on chain is reported as confirmed. `solana_adapter.py:353` looks for `err` on the
  `value` of the confirmation; solana-py answers with a list of statuses there, which has no such field.
  The unit tests mock an object of another shape. `ReportIsHonest` allows it; the seller's verification
  reads the transaction itself and refuses (`VerifyPayment`). The library is not part of the repository, so
  the model leaves both outcomes open.
* Nothing on the payment path reports failures or successes to the circuit breaker
  (`budget_guard.py:record_failure`). With a threshold below 3 the breaker does not hold at its threshold:
  `record_failure` stamps the opening at the literal 3, and a call that asks before that sets the count
  back. `BreakerHolds` speaks of the larger of the two.
* A write that SQLite refuses leaves its transaction open (`agent_wallet.py`); the next read freezes the
  process's view, and its later writes are refused for good. A cancelled insert leaves a row and the
  file's lock until the next commit of that process.
* `retry.py` says that the client "periodically re-tries primary to recover"; `reset()` names the primary
  again and nobody reconnects to it (`solana_adapter.py:336`).

The front ends:

* `monkey.enable()` counts itself before it makes the middleware. If that raises, the next `enable` is
  taken for nested and patches nothing, and the `enabled()` context does not undo it.
* A disable and an enable in the middle of an init flag a middleware whose wallet was never opened; all its
  payments then fail and the original 402 is returned.
* The init lock is an `asyncio.Lock` of several loops: a release does not wake a loop that is asleep, and
  a `requests` call of a thread, or the pool's only thread, hangs for ever. A blocking call on the loop's
  thread that meets the lock waits for a holder that needs this loop: always 60 s.
* A paid retry that raises (`x402_middleware.py:291`) is taken for a failure to pay: the patches return the
  original 402 (`monkey.py:291`, `:421`), the proxy answers 502 (`forward_proxy.py:229`) and the bridge 500
  with `payment_made` false (`bridge.py:415`), without a deduction from its `wallet.json`.
* A start of the proxy whose port is taken raises after its loop was started (`forward_proxy.py:96`,
  `:237`); `is_running` is false and the loop runs on.
* After these 60 s (and after the proxy's, `forward_proxy.py:209`) the task still pays.
* Two starts of the proxy that overlap leave a loop behind that no stop ends. A tunnel holds the one
  handler thread, and `stop` waits for it.

OpenClaw and TypeScript:

* `skill.py:494` and `:587` hold the wallet's lock on one handle and load through another: deposit and
  pay wait for themselves for ever once the wallet file exists. The comment at `:490` calls it a "lock for
  atomic operation".
* A process killed between truncation and write leaves an empty file (`skill.py:217`), for the wallet
  "no wallet", for the config an exception in every command.
* `fetch.ts:306` rolls a payment back that goes on and may land; the concurrency note at `:14` bounds
  overspending and does not mention it.
* The skill's `is_valid` compares a naive date with the aware one that the core's client writes, and
  raises. The skill's seller refuses the last call of a package, as the core's does.
* `BudgetState` and `atomic_add` of the bridge are used by nobody.

The gateway and prepaid:

* `float("nan")` passes both tests of a message's age (`replay_guard.py:63`, `:70`, `:77`), so that the same
  message passes again whenever its nonce has been pruned. `replay_guard.py:5` says that requests
  older than the window are rejected. `MessageOnce` says what is left: not within two windows.
* A row is seen before it is saved. `check_and_record_tx` inserts and commits in two awaits on the connection
  all handlers share (`replay_guard.py:281`, `:285`), and `mark_delivered` likewise. If the commit raises,
  the row stays visible: a retry reads WITHIN_GRACE and upstream is called for a payment that a gateway
  which dies then forgets. The class promises that hashes "survive process restarts" (`:128`).
* A retry after a good answer must pay again. A response is cached after its transaction was marked
  delivered, and the cache is consulted for transactions within grace, which a delivered one is not
  (`replay_guard.py:262`). `gateway.py:677` says "so grace-window retries get the same answer".
* The last call of a package is refused. `check_and_deduct` returns the credential with its count already
  reduced, so the last call is sent with `remaining_calls` 0, which `verifier.py:10` calls depleted; the
  buyer puts it back and pays on chain, for every later request until the credential expires.
* `rate_limiter.py:3` says that an expired key is evicted "on the next `allow()` call": on its own next
  call, or by the sweep, once per window. A new caller may be refused for callers that left a window ago.
* `gateway.py:748` prunes usage rows by age although its comment speaks of exhausted rows. The 730-day
  package outlives its row: after a restart past day 366 it may be used up once more. `NotOversold`
  therefore speaks of credentials that live no longer than `PurgeAge`. For one that lives longer TLC finds
  a third piece of work on a package of two: answers that are lost put calls back into the buyer's file,
  and after the pruning restart the gateway counts from zero.
* `gateway.py:684`: if caching the response fails after the transaction was marked delivered, the handler
  answers 502 and the payment is used up.
* `gateway.py:234` says that requests in flight at shutdown get 503; the on-chain path does, the prepaid
  path answers 402, since a missing store counts as an exhausted quota (`gateway.py:813`).
* `x402_middleware.py:480`: a server error after the gateway counted the call puts the call back on the
  buyer's side only, so the buyer's file shows more calls than the gateway will serve.
* `x402_middleware.py:285`: the paid retry carries an `Idempotency-Key`, but the gateway's list of
  forwarded headers (`gateway.py:862`) leaves it out, so an upstream service cannot use it.
* `SECURITY.md:33` says that `INSERT OR IGNORE` "eliminates TOCTOU race conditions on concurrent
  requests". Of two requests with one new transaction the one that loses the insert is treated as within
  grace (`gateway.py:663`) and handed to upstream as well; `RepeatHasExcuse` counts this as an overlap.
* `core/cli.py:2515` saves the record "so `recover` works even if this process crashes before the
  credential is delivered". The record is removed before the credential is stored (`core/cli.py:2534`), and
  a second purchase overwrites it. A payment that `provider.pay` reports as failed leaves no record at all,
  although it may have landed (`core/cli.py:2510`). And `add_credential` loads and saves the file without a
  lock (`prepaid/client.py:161`): of two programs that overlap one loses its credential. `recover` then works
  only with the transaction, package and address given by hand.
* `gateway.py:430` says that an issuance is recorded before it is returned. A second post of the same
  payment may be answered from the row before the handler that inserted it commits; if the gateway dies
  then, a later post gets a credential with a later expiry. `OneCredential` excepts it as forgotten.
* The order store and the worker are built by no entry point of the repository: a failed paid retry is
  then not re-sent by anyone.

## 10. Plan

1. `Budget`: that the processes together implement one guarded account, up to the overspend.

Left to model, should the code change: the skill's prepaid server, and the hand-over from the prepaid path
to the on-chain path in one module.
