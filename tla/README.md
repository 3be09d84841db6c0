# KOL-crawler: TLA+ models, checks and proofs

KOL-crawler watches accounts on X, Binance Square and Binance Copy, analyses what they post or trade,
shows the resulting signals on a dashboard and sends the interesting ones to ntfy. A *collector* on the
operator's machine fetches and uploads; an *API* on a server stores, analyses and notifies.

This directory models the protocols of that program in TLA+, checks them with TLC and proves some of the
results with TLAPS. Paths are relative to the repository; `collector/` stands for
`collector/collector_agent/`, `app/` for `backend/app/`.

    tlc -workers 2 -config delivery_two_platforms.cfg MCCollectorDelivery.tla
    tlapm CollectorDelivery_proofs.tla

## 1. The system

| Component | State | Operations | Talks to |
|---|---|---|---|
| **Collector cycle** `collector/scheduler.py`, `main.py`, `alerts.py` | in memory: `next_check`, `provider_failures`, `upload_failures`, `next_upload_at`, `alerter.states` | `run_once`: configuration, one fetch per due subscription, snapshot uploads, post upload, provider statuses, heartbeat | stores (calls), providers (calls), API (HTTP), ntfy (HTTP) |
| **Outbox and upload** `collector/db.py`; `POST /collector/posts` in `app/routers/collector.py` | SQLite: `subscription_state.checkpoint`, `outbox_posts`, `dead_letters`; MySQL: `raw_posts` | `record_fetch`, `pending_posts`, `apply_upload_results`, `collector_posts` | cycle; analysis (through `raw_posts`) |
| **Post providers** `collector/providers/x_opencli.py`, `binance_square.py` | health | `fetch` | OpenCLI, a browser |
| **Trade provider** `collector/providers/binance_copy.py` | health | `fetch`: a page of orders of a window, or `TradeHistoryGap` | Binance |
| **Trade reconciler** `collector/trade_reconciler.py` | none | `reconcile_records`, `_apply_record` | ledger |
| **Trade ledger** `collector/trade_store.py`, `db.py` | SQLite: `trade_events`, `position_estimates`, baseline flag, `trade_start_at` | `ensure_trade_start`, `record_trade_fetch`, `mark_trade_positions_stale/unknown` | provider, outbox, snapshots |
| **Position snapshots** `PUT /collector/subscriptions/{id}/positions` | MySQL: estimates, operations, account | replace | cycle, administration |
| **Analysis queue** `app/services/analysis_queue.py`, loop in `app/main.py` | MySQL: `raw_posts.analysis_*`, `signals` | `process_pending_posts` | structurers, notifications |
| **Notifications** `app/services/notifications.py` | MySQL: `notification_rules`, `notification_events` | `dispatch_notifications`, `retry_failed_notifications` | ntfy |
| **Structurers** `app/services/structurer.py`, `trade_structurer.py`, `assets.py` | none | text or trade payload to signal fields, model call with fallback | model API |
| **Server crawler** `app/services/ingestion.py`, `scheduler.py`, `app/collectors/` | MySQL: checkpoint, `crawl_runs`; Redis lock | `ingest_subscription`, `scheduler_loop` | analysis (shared tables) |
| **Subscription administration** `app/routers/admin.py` | MySQL: `subscriptions`, `kol_profiles`, rules | create, update, delete, enable | everything, through MySQL |
| **Collector health** `app/services/collector_health.py` | MySQL: `collector_agents` | heartbeat, judgement by age | dashboard |
| **Signal feed, public API** `app/services/signal_feed.py`, `app/routers/public.py` | none | read-only queries, visibility of private subscriptions | dashboard |
| **Authentication** `app/routers/auth.py`, `app/core/` | failed logins, in memory | login, logout, token checks | – |
| **Migrations, history reset** `app/db/migrations.py`, `app/services/history_reset.py` | the schema; all tables | DDL at start-up; an operator's script | – |
| **Dashboard**, **deployment** `frontend/`, `scripts/`, `deploy/` | – | rendering; launchd, nginx | – |

### What is hard about it, and what makes it correct

* **Delivery.** Requests time out after the server has committed them, are repeated, and arrive late; the
  collector dies between transactions; verdicts are matched to rows by external id only, while the outbox is
  unique per *(subscription, id)* and the server per *(platform, id)*. Correct: no post is lost, none is fetched
  into the outbox twice, only refused posts become dead letters, oldest first, and the outbox drains.
* **Trades.** Positions are inferred from increments seen through a page of 100 orders in a window of 30 days.
  Correct: what is claimed with high confidence is what the account holds, the ledger has no hole, every new
  trade is posted once, and a post's action and position changes are what the trade did - while fetches fail,
  the process dies and the administrator moves the start of the ledger.
* **Analysis and notification.** One thread commits post by post and publishes inside open transactions.
  Correct: one outcome per post, an owed notification is on record with the signal that completes it, a batch
  goes out whole, a sent notification is final, retries are bounded and end.
* **Cycle.** Providers, ntfy and the server fail at any point of `run_once`. Correct: the other subscriptions
  are still fetched, the heartbeat goes out, and whoever reads ntfy knows what the dashboard shows.
* **Snapshots.** A PUT replaces all positions of a subscription by what the collector's file holds. It may be
  late, lost, refused, or handled together with the next; the administrator moves the start time, deletes the
  subscription and creates it again in between. Correct: what is shown is of one snapshot and of the start time
  there is, and comes to be the current one; what the collector doubts is not shown as certain.
* **Server crawler.** Several processes crawl a subscription under a lock that lapses, is released in two commands or
  is not there without Redis; one transaction spans all posts of a crawl, and a collision with an upload rolls
  back those before it. Correct: the checkpoint passes nothing unaccounted for, no post is announced twice, and
  crawling goes on whatever became of a lock.

`PROJECT.json` lists the single hazards at their lines, with the property that would catch each going wrong.

## 2. Modules

| Module | Models | Extends / uses |
|---|---|---|
| `CollectorDelivery` | outbox, upload, server side of the upload | `ReliableHandoff` (INSTANCE) |
| `ReliableHandoff` | abstract: an item goes from unseen to queued, and once to delivered or rejected | |
| `OrderLemmas` | lemmas about finite sets and natural numbers | TLAPS |
| `CollectorDelivery_proofs` | all its safety properties; that it implements `ReliableHandoff` | `CollectorDelivery`, `OrderLemmas` |
| `TradeReconciler` | pure: positions and labels from a ledger | |
| `ReconciledLedgers` | every ledger, record by record, against references: sums, labels, the server's validation | `TradeReconciler` |
| `ReconciledLedgers_proofs` | all its properties | `ReconciledLedgers`, `OrderLemmas` |
| `TradeLedger` | one trade subscription, from account to server | `TradeReconciler` |
| `TradeLedger_proofs` | all its properties: the ledger, the replay, the positions, the posts | `TradeLedger`, `OrderLemmas` |
| `SignalAnalysis` | analysis loop, notifications, retries | |
| `SignalAnalysis_proofs` | all its safety properties | `SignalAnalysis`, `OrderLemmas` |
| `CollectorCycle` | due times, failures, alerts, heartbeat | |
| `CollectorCycle_proofs` | types; ntfy and the dashboard say the same | `CollectorCycle`, TLAPS |
| `PositionSnapshot` | snapshots of positions, from the collector's file to the server's tables, and the administrator's edits | |
| `PositionSnapshot_proofs` | types, one snapshot, nothing before the start time | `PositionSnapshot`, TLAPS |
| `ServerCrawler` | the API's crawl loop, its lock, ingestion and backfill, uploads, history reset | |
| `ServerCrawler_proofs` | types, announced once, nothing skipped | `ServerCrawler`, TLAPS |
| `MC*` | constants for TLC; those of `MCTradeReconciler` are for `ReconciledLedgers` | the module they name |

A definition whose comment says "Mutant of ..." is a plausible bug. No specification uses it: it shows that a
property notices the bug when it takes the place of the definition it names.

**CollectorDelivery.** `checkpoint`, `outbox` and `deadLetters` are the SQLite tables, changed only in the
transactions of the code (`RecordFetch`, `ApplyUploadResults`). `phase`, `todo`, `pending`, `retryDelay` and
`uploadWait` are the process: a `Crash` resets them. The server handles a request in one step
(`ServerHandles`: one transaction, judged row by row in the order of the request). A request given up on goes
to `lost` and may be handled later (`LateRequest`). `Meets` is the loop of `apply_upload_results`: the n-th
result about an id meets the n-th row with that id, of whichever subscription. `Verdict` is what
`UploadedPost` and the unique key decide; posts are ids, and `Malformed` says which the server refuses (it
decides by the post alone). `handed` is bookkeeping.

**TradeReconciler.** `ApplyRecord` is `_apply_record` branch by branch (`Increased`, `Decreased`, `Reversed`); `History`
is `reconcile_records` as a recursive function over the records in order. A quantity of `None` is `NoQuantity`. A price
is a natural number, a multiple of the last digit that is kept, or `NoPrice`; `WeightedEntry` is
`_weighted_entry_price`, and `Average` rounds the last digit up, so that like Decimal's 28 digits it is zero only if
both prices are. Entry prices decide neither action nor quantity, but whether the server takes a position, and through
`Signature` (`_position_signature`) whether a batch changed it. `ValuePosition`, `Stale` and `Forget` are what
`trade_store.py` makes of an estimate before it is sent. The provider has no leverage: it is always `None` and left out.

**ReconciledLedgers.** A ledger is any finite set of records that has a revision of a trade once, the unique key of
`trade_events`. `Observe` is the insertion of `record_trade_fetch`, `ObserveAgain` its update of `last_observed_at`, for
one subscription. Records come in any order, with any times: trades at one time, revisions that move a trade to another
time, and revisions observed before the one they correct. `family` says of what operations, keys,
quantities and prices the records are; `Provider` tells the families `binance_copy.py` can make. The references do not
go record by record: `Sum` is what the trades add up to, `Lowest` the lowest of the sums so far, `Net` the sum
lifted by it. `Acceptable` is `UploadedPosition`, `Sent` what a cycle sends of an estimate, `Free` a position that was
opened, and raised since, for nothing.

**TradeLedger.** `orders` is the true account, and `Held` what it holds: the collector sees `Listed`, the newest `Page`
orders of the window. `EnsureTradeStart` and `RecordTradeFetch` are one transaction each, with a `Crash` in between if
it happens. `SetPositionStart` is also the deletion of the subscription and its creation with another start time or
none, after which the collector goes on with its file. An order has one of the prices `OrderPrices` gives for its
moment; `Entry` is the average price of what is held, computed from the account. `MarkStale` and `ForgetPositions` are
what failures and gaps do to the estimates. `Upload` hands the outbox over at once; how that goes wrong is in
`CollectorDelivery`. Times of orders are distinct and an order is visible at once. The provider never revises an order;
records at one time and corrections are in `ReconciledLedgers`.

**SignalAnalysis.** `db` is what is committed, `tx` what the open session sees; `LoopEnds` throws `tx` away, `published`
stays. `Publish` has three outcomes: ntfy takes the message and answers; it does not take it; it takes it and the call
raises all the same - a timeout, or a proxy's 5xx -, so that the event is recorded as failed and retried (`unanswered`
counts these). The structurer is abstracted to its outcome: `Analyse`, `AnalysisFails` (an exception before the first
flush), `FlushRefused` (the database refuses the signal). `Wants` stands for `should_notify`. A retry time is `later`,
`due` or `never`; it does not become due inside a transaction because `retry_failed_notifications` fixes `now` at its
start. Rules are enabled and disabled at any time.

**CollectorCycle.** `wait[s]` is what is left until `next_check`, `raised` is `provider_failures`, `known` and `quiet`
are `alerter.states`, `told` the last message ntfy took, `beat` the heartbeat the server has of the last cycle. A
message whose call raised (`AlertRaises`) may be under way (`late`), and ntfy may take it at once, later or never
(`NtfyTakesLate`), of which the alerter learns nothing; `doubtful` are the platforms whose last message was of that
kind. The provider's health is any of the values it may have. The upload of `CollectorDelivery` lies between the last
visit and the first `Report`.

**PositionSnapshot.** `startAt`, `enabled`, `deleted` are the row of the subscription, `shown` the tables
`position_estimates` and `position_operations`: the orders (`basis`) the positions follow from, and the operations.
`tradeStart`, `ledger`, `status` are the collector's file. The account has one order at each moment, so that a ledger is
a set of moments; what positions follow from it is in `TradeReconciler`, what a page leaves out in `TradeLedger`
(`gapped` stands for `TradeHistoryGap`). `replace_subscription_positions` is two steps: `ServerReads` reads the
subscription, judges the request and opens the view of the transaction (MySQL's REPEATABLE READ), `ServerReplaces`
deletes and inserts until the commit, under row locks. The operations it deletes are those in its view; an
update of a row that is gone or an insert of one that came since fails (`Commits`), which the collector sees
as any other error. `MoveStart`, `Switch`, `Delete` and `Revive` are `admin.py`; the first and the last clear what
is shown. A PUT the collector gave up on is `late`.

**ServerCrawler.** Each process of the API runs `run_due_once`: `ListDue`, `OpenRun` (lock and crawl run; `OpenRunFails`
is the commit between the lock and the `try`), `Fetch`, one step per post, `Commit` or `CrawlFails`, `Release` and
`DeleteKey`. Posts are numbered in the order of their publication; the code compares their ids as strings, which is the
same for ids of one length. `tx` is the transaction of a crawl: what it sees (`view`), still has to do, has inserted,
and the checkpoint so far. `Insert` stores a post, its signal and its notification; while another transaction has
inserted the same post, it waits for its end (neither `Insert` nor `Collide` is enabled); if that commits, `Collide` is
the `IntegrityError` with its rollback of the whole transaction. `Backfill` is the start-up crawl, without a lock.
`lock` holds who set the key; `Expire` may happen at any time. An upload of the collector counts as announced
(`SignalAnalysis` does it). `missed` and `dropped` name the posts the code gives up: those no page shows, and those
rolled back with a later one.

## 3. Runs

| Run | Question | Properties |
|---|---|---|
| `delivery_two_platforms` | lost and late requests, a crash, ids shared by two platforms, one post refused | `TypeOK` `NothingLost` `DeadLettersDeserved` `OutboxDrains` |
| `delivery_one_platform` | two subscriptions find the same posts | `OldestFirst` `NeverRequeued` `HandoffSpec` |
| `reconcile` | every small ledger, in any order of arrival, against references | `CompleteIsClampedSum` `IncompleteIsSumOrUnknown` `LabelsTellTheChange` `ServerAcceptsPositions` |
| `trade_ledger` | account, prices, page, window, failures, moved start time | `TypeOK` `HighConfidenceIsTrue` `LedgerHasNoHole` `EveryTradePosted` `StartTimeAdopted` `PostedOnce` `PostsTellTheChange` |
| `analysis_safety` | loop with a refused flush, outage, restart, a lost answer of ntfy, batches | `TypeOK` `OneOutcome` `NotificationOwed` `NotGivenUpEarly` `TwiceOnlyUnrecorded` `SentIsFinal` `BatchTogether` |
| `analysis_liveness` | does every post get analysed, every retry end | `EveryPostAnalysed` `RetriesSettle` |
| `cycle_alerts` | do ntfy and the dashboard agree | `TypeOK` `NobodyLeftInTheDark` |
| `cycle_checks` | does a failing subscription starve the others, or the heartbeat | `EachSubscriptionChecked` `HeartbeatsUnlessNtfyFails` |
| `cycle_heartbeat` | **violated**: "one provider's failure does not block the heartbeat" | `HeartbeatsContinue` |
| `analysis_failure_count` | **violated**: "a failed analysis keeps the retry count" | `AnalysisFailureCounted` |
| `position_snapshot` | PUTs, failures and edits of the start time in any order | `TypeOK` `NothingBeforeStart` `OneSnapshot` `ServerCatchesUp` `StaleIsTold` |
| `server_crawler` | two processes, a lock that may fail, uploads, a reset | `TypeOK` `NothingSkipped` `AnnouncedOnce` `EventuallyCrawled` |

`HandoffSpec` is the refinement: mapping each *(platform, id)* to what has become of it, whichever
subscription found it, `CollectorDelivery` implements `ReliableHandoff`.

### Two disagreements with the documentation

* `docs/architecture.md:35` says that the failure of one provider blocks neither the others nor the heartbeat.
  The alert about it can: `ProviderAlerter.update` raises when ntfy cannot be reached (`scheduler.py:55`), before
  the heartbeat, and again in every cycle as its state is not updated (`cycle_heartbeat`). It
  is the only way: `HeartbeatsUnlessNtfyFails` holds.
* The same line says that a failed analysis keeps the post and its attempt count. If the failure is a flush the
  database refuses, the commit of `analysis_queue.py:95` raises as well: the attempt is rolled back, and the
  exception ends `analysis_loop` for good (`analysis_failure_count`).

Smaller ones, without a run: `docs/operations.md:78` gives 300 s as the cap of the backoff, while
`min(300, 2 ** min(failures, 8))` never exceeds 256 s; and the table `alert_cooldowns` is never used, so that the
cooldown does not survive a restart. The design of the crawler (`docs/superpowers/specs/2026-07-09-kol-signal-crawler-design.md`)
says in line 125 that the checkpoint advances only after successful processing, and in line 131 that a subscription is
not crawled concurrently. In `ServerCrawler` posts of `dropped` are passed by the checkpoint without being stored
(`ingestion.py:82`), and two crawls of a subscription are under way when the lock lapses, is deleted by its former
owner, or Redis is not reachable; `NothingSkipped` and `AnnouncedOnce` say what is true nevertheless.

### What the properties except

* `NothingBeforeStart` says nothing once an edit came between the check of a PUT and its commit (`raced`): the server
  then shows a snapshot of the old start time until the next one replaces it (`ServerCatchesUp`), and if the collector
  then finds nothing to send, no next one comes. It speaks of the basis of the positions only while all
  operations fit into the snapshot (`OpsLimit`, 2000): an older position can be told by its operations.
  `docs/deployment.md:186` is the promise.
* `OneSnapshot` says nothing once two PUTs overlapped: the transaction that commits last deletes the operations it saw, and
  those of the other may stay. `ServerCatchesUp` says that the mixture does not last.
* `NothingSkipped` and `EventuallyCrawled` say nothing once the history was reset during a crawl: its commit puts the
  checkpoint back, and what was deleted below it is not crawled again. The script stops the collector, not the API.
* `NobodyLeftInTheDark` says nothing of a platform in `doubtful`. When ntfy takes an alarm and the call raises, and the
  provider is well in the next cycle, the alerter never learned of the alarm and does not take it back; when it takes a
  recovery in this way and the same alarm comes again within the cooldown, that is not repeated. The next message ntfy takes with
  the alerter's knowledge mends it. Without an alerter (`Alerter = FALSE`), and of the recovery after a restart, it says
  nothing either.
* `TwiceOnlyUnrecorded` allows a notification to be repeated once for each publication that left no record: its call
  failed although ntfy took the message, or a restart or an outage threw the record away. It promises `MaxAttempts` sendings at
  most, and one more for each fault.
* `EachSubscriptionChecked` is about ordinary subscriptions; a trade subscription may wait for its start time for ever.
* `AnnouncedOnce` allows a notification to be repeated when the transaction that sent it was rolled back.
* `ServerAcceptsPositions` excepts a position whose every purchase was at price 0: its entry price is 0, and the server
  refuses the snapshot as long as it is open (`binance_copy.py:291` lets 0 through, `UploadedPosition` does not).

### Bounds, and why they are enough

* *Delivery.* Two subscriptions, 2-3 ids, an upload of 2 rows, first fetch of 1 and later ones of 2: a fetch
  leaves posts out, an upload leaves rows out, both subscriptions have rows with the same id in one request, a
  request is answered in part with duplicates. One lost request and one crash (`MaxLost`, `MaxCrashes`) suffice for a
  request handled after its rows were sent again. `MaxRetryDelay = 4` with `PollSeconds = 2` has
  a delay that is capped and one that spans several cycles.
* *Reconciler.* Four trades of one key at two times, with quantities 1 and 2: sums go below zero and come back, and trades
  at one time are told apart by their ids. Two trades with two revisions each, observed in either order or at once,
  and three trades of quantity 1 with revisions observed at once: a correction changes a trade or moves it to another place.
  Four trades with prices that are zero or positive: free purchases before, after and between paid ones. Three
  trades over both sides, an undirected key, all operations and unknown quantities: every branch of `_apply_record`
  is reached from every kind of position. The proofs have no such bounds.
* *Ledger.* One key, five moments with two prices in turn, a page of 3 and a window of 3: a page can be too small, a window
  can be left, and a page has room for an order and two more whose effects on the quantity cancel while the average price
  changes. The start time moves freely between none, the first moment (which leaves the window) and the third.
  Keys meet only in the page, which one key fills too; the proofs have any number of keys, quantities and prices.
* *Analysis.* Four posts: a batch around a post of the crawler, and a batch without changes; two rules; rounds of
  2 posts and 1 retry; 3 attempts; one fault, anywhere, and one lost answer for each event.
* *Cycle.* For the alerts, one platform, as the alerter keeps its state for each apart; a trade and an ordinary subscription,
  pauses shorter than the cooldown and as long, one restart, two messages under way: an alarm and a recovery that arrive
  in the wrong order. The proof has any number of platforms and messages. For the checks three subscriptions of one platform; for the
  heartbeat two platforms.

* *Snapshots.* Three moments and snapshots of at most 2 operations (one is cut off); two edits: the start time is moved and
  moved back, or the subscription deleted and created again; one fault: a PUT that comes late meets the next one,
  or a crash.
* *Crawler.* Two processes; pages of 2 posts. Three posts on X (more than a page), two on Binance Square (the other order),
  two on X with a second collector; one upload and one fault of any kind, the expiry of locks not counted. The proofs
  have no such bounds.

### Fairness

* *Delivery.* Weak fairness for what the process does next, as `main` loops for ever. Strong fairness for
  `FetchConfig`, `ServerHandles` and `ApplyUploadResults`: what is asked again and again is answered and read some time.
  Nothing is assumed of providers (a subscription may always be skipped). The number of crashes is finite.
* *Analysis.* Weak fairness for the loop while it has not ended; strong fairness for the passing of time, which
  is suspended in transactions. `EveryPostAnalysed` is checked without outages and refused flushes,
  with which the loop ends and it does not hold.
* *Cycle.* Weak fairness for the process; the configuration is read, and a heartbeat that is sent
  again and again gets through, some time (strong). Of providers only that a fetch returns or raises (`VisitNext`):
  `page.evaluate` (`binance_browser.py:97`) has no timeout of its own, and one that never returned would stop the
  collector. Nothing of ntfy.

* *Snapshots.* Weak fairness for the collector's cycle and for the server; strong fairness for a fetch, which is
  due again and again. Nothing is assumed of what it brings: that good fetches keep coming is the premise of
  `ServerCatchesUp`. Edits and faults end.
* *Crawler.* Weak fairness for each process (a crawl that waits for another's insert goes on when that ends), for
  `Expire` (a key has a time to live, `LOCK_TTL_SECONDS`) and for `BecomesDue`. Faults end; a process that crashed boots again.

Deadlock is checked in all runs but `reconcile`, whose ledgers are bounded.

## 4. Proofs

Eight modules hold the proofs. They hold for all values of the constants - all sets of subscriptions, ids, platforms, rules,
keys and processes, all limits, and any number of crashes, lost requests, edits and faults - under the assumptions
`DeliveryAssumption`, `LedgerAssumption`, `AnalysisAssumption`, `CycleAssumption`, `SnapshotAssumption`, `CrawlerAssumption`
and `FamiliesAssumption`. These are the types of the constants, and two facts of the code that TLC's instances had by their choice: the provider parses no position
side but LONG and SHORT (`binance_copy.py:280`), and the posts of the server's crawler belong to no batch (`ingestion.py`
never sets `notification_batch_id`). The safety properties of all passing runs are theorems:

* `CollectorDelivery_proofs`: `TypeCorrect` (`Spec => []TypeOK`), `NothingIsLost` (`Spec => []NothingLost`),
  `DeadLettersAreDeserved` (`Spec => []DeadLettersDeserved`), `QueuedOnce` (`Spec => NeverRequeued`),
  `PostsArriveOldestFirst` (`Spec => []OldestFirst`), `DeliveryImplementsHandoff`
  (`Spec => HandoffSpec`),
* `ReconciledLedgers_proofs`: `CompleteHistoriesAreSummed` (`Spec => []CompleteIsClampedSum`),
  `IncompleteHistoriesAreNotTrusted` (`Spec => []IncompleteIsSumOrUnknown`), `LabelsAreTrue` (`Spec => []LabelsTellTheChange`),
  `PositionsAreTaken` (`Spec => []ServerAcceptsPositions`), `EveryTradeCountsOnce`,
* `TradeLedger_proofs`: `TypeCorrect`, `HighConfidenceIsTruth` (`Spec => []HighConfidenceIsTrue`), `LedgerIsWhole`
  (`Spec => []LedgerHasNoHole`), `TradesArePosted` (`Spec => []EveryTradePosted`), `StartTimeIsAdopted`
  (`Spec => []StartTimeAdopted`), `TradesArePostedOnce` (`Spec => PostedOnce`), `PostsTellTheTruth`
  (`Spec => PostsTellTheChange`),
* `SignalAnalysis_proofs`: `TypeCorrect`, `PostsHaveOneOutcome` (`Spec => []OneOutcome`), `OwedIsOnRecord`
  (`Spec => []NotificationOwed`), `GivenUpLate` (`Spec => []NotGivenUpEarly`), `TwiceNeedsALostRecord`
  (`Spec => []TwiceOnlyUnrecorded`), `SentStaysSent` (`Spec => SentIsFinal`), `BatchesGoTogether` (`Spec => BatchTogether`),
* `CollectorCycle_proofs`: `TypeCorrect`, `SameNewsEverywhere` (`Spec => []NobodyLeftInTheDark`),
* `PositionSnapshot_proofs`: `TypeCorrect`, `OneSnapshotIsShown` (`Spec => []OneSnapshot`), `NothingOldIsShown`
  (`Spec => []NothingBeforeStart`),
* `ServerCrawler_proofs`: `TypeCorrect`, `AnnouncedOnlyOnce` (`Spec => []AnnouncedOnce`), `NothingIsSkipped`
  (`Spec => []NothingSkipped`).

`OrderLemmas` has what several of them need: a proper subset of a finite set is smaller, a set of natural numbers
has a least member, a rounded average is a natural number and zero only if both prices are. The second is how induction is done here, the library's induction theorems taking an operator
no prover can instantiate: the set of counterexamples, if it is not empty, has a least member, which is then shown not to be
one.

*Loss.* The argument is the invariant `IInv`. `NothingLost` is not inductive: a row leaves the outbox because of a
result that merely has its external id. It takes

* `RowIdsUnique`: the outbox is finite and a row id is used once (a new id is one above the greatest),
* `PendingIsPrefix`: the rows of the upload in progress are still in the outbox and no older row is missing among
  them, since nothing is inserted or deleted while the collector waits,
* `ReplyIsSound`: the answer has exactly one result per row of the request, and what it says of that row is true.

From these `ResultMeetsItsRow`: the number of earlier results about an id equals the number of earlier rows with it,
so that a result meets precisely the row it was given for. `WindowIsPrefix` establishes the prefix when the upload is
sent, `NewRowsAreNew` the uniqueness at a fetch, `OlderRowRanksLower` compares the counts; these rest on facts
about finite sets. `StepKeepsIInv` has one step per action, the larger in lemmas of their own.

*Queued once.* `HandedBelowCheckpoint`: what was ever put in the outbox is not above the checkpoint of its
subscription. A fetch takes only posts above it (`FetchIsAbove`) and no other step moves it (`OnlyFetchInserts`).

*Order.* `OInv` follows a request from the window it is cut from. A request, in progress or given up, is `Closed`: with
a row it brings every older good post of that subscription that the server does not have. A window is closed
(`WindowIsClosed`) because older posts have lower row ids (`RowsInOrder`), because nothing is lost, and because dead
letters are deserved. It stays closed as a post handed later is newer (`FetchKeepsOInv`), and what the server gains from
it is in order (`HandlingKeepsOrder`).

*Refinement.* With `HInv` (all of the above, and that the server stores nothing malformed) each step is one move: a fetch
is `Queue`, a request handled, also late, is `Deliver`, the results applied are `Reject`, every other step a stutter.
`QueuedIsKept` uses `NothingLost'`: a post does not become unseen again.

*Reconciler.* `LedgerInv` is all that is needed of the ledgers: they are finite and have a revision of a trade once. The rest
is about the functions, for every such ledger. Of each trade one revision counts (`SomeRevisionCounts`: of a finite set one
was observed last; `OneRevisionCounts`). `TradeHasRank`: the trades have the ranks 1 to `Count`, one each, as later trades have
higher ranks (`RanksGrow`) and there are as many ranks as trades; so `History` takes them in the order of the ranks
(`ReplayedInOrder`, `HistoryStep`). `SumStep`, `LowestStep` and `NetStep` are the steps of the references. What a
record does to an estimate (`CompleteRecord`, `IncompleteRecord`) is what the trade does to the reference, and by induction
over the ranks the estimate after n trades tells `Net` (`CompleteReplay`), or `Sum` until an excess and `Unknown` from then on
(`IncompleteReplay`). For the server: `Shape` says what an estimate can be, whatever the operations; a record keeps it
(`RecordKeepsShape`), and it makes or keeps an entry price of zero only when nothing was paid (`FreeOnwards`). `AllSane` is the
induction, and `ShapeIsAcceptable` that such an estimate passes, as it is or marked.

*Ledger.* `OrdersInv` and `HoldingsInv` describe the account; `HeldStep` is the recursion behind `Held`. `StoreInv` relates
the collector's tables: the checkpoint is a record of the ledger, so that a page that shows it overlaps the ledger
(`FetchFinds`), and a page is the newest part of what it is cut from (`ListedIsNewest`); from the two follows
`LedgerHasNoHole`. `NothingOverlooked` says of the orders that are not in the ledger why no fetch will show them
(`OutOfReach`): they are before the start time, outside the window, or a page of orders came after them. It is inductive because
each of the reasons lasts. With it what is new is newer than the last fetch (`FreshIsNewer`), hence new to the server,
to which only older trades were given (`GivenBefore`): also after a reset, whose first fetch is a baseline and posts nothing.

*Positions.* `At(R, c, t)` are the positions after the records of R up to t; `AtRecord` says that the record at t is the next one
`History` takes, by counting those before it. `Truth(e, k, n, p)` is the one estimate of key k when n is held,
at the average price p. `Replay` is
the induction over time: a ledger that has all orders since a time at which nothing was held tells the truth at every moment,
since a record changes the estimate as the order changed the account (`RecordKeepsTruth`); for the price this takes
`EntryIsPrice`: who holds something has paid a price for it. With a start time the
ledger is such a one (`LedgerIsComplete`, from `NothingOverlooked`). `PositionsInv`: the row of a key is the inferred position, but for
its status, or was forgotten after a gap. For the posts it takes `GapInv` as well: with a start time a gap is for good
(`GapForGood`), so no fetch starts from positions that were forgotten (`PositionsTell`).

*Analysis.* The properties speak of the committed tables; the invariant says the same of those of the open transaction, up to the
post in work, and what the phase promises. `PostsInv`: rows not yet taken are pending (`Outcome`, `InWork`). `EventsInv`: events
are warranted by a complete batch and a rule's wish (`EventsWarranted`, from which `BatchTogether`); what the round of retries
has not attempted is as it was committed (`RoundOfRetries`), so that its bookkeeping gives up only what was refused the last time or belongs to a
rule that was switched off; `PublishedIsRecorded` counts a publication as recorded, left unanswered or thrown away by a fault. `OwedInv`: who is owed a
notification has an event, or is among the rules being served.

*Cycle.* `AlarmsTold` and `RecoveriesTold` tie the alerter's memory (`known`) to the last message; `ReportedIsKnown` ties it to
the statuses the heartbeat will report, as these are announced after the last fetch and do not change before the heartbeat.

*Snapshots.* The invariant `IInv` follows a PUT from the file to the commit. A request brings the operations its positions
follow from (`RequestsAreWhole`); a transaction that is alone sees the operations it will replace, or they have been cleared
since (`ViewIsCurrent`); what has passed the check still would, unless an edit came in between (`JudgedIsCurrent`). So
a commit leaves precisely the operations of its request, and none of them is too old. Of the positions this follows
because their orders are all among the operations when these fit (`FewOperationsAreAll`).

*Crawler.* A step changes one transaction, and `OneTransactionChanges` says when the others stay apart from it.
`AnnouncedIsKept`: what was announced is stored or in an open transaction, so that a post one can insert was not
announced. For the checkpoint, `Accounted`: up to each post a crawl has still to do, and up to its last one, everything is
to do, inserted, stored, missed or dropped. The condition does not mention the order of the page, which is why the
checkpoint may be taken from the last post of either platform.

Model-checked only are the liveness properties (`OutboxDrains`, `EveryPostAnalysed`, `RetriesSettle`, `EachSubscriptionChecked`,
`HeartbeatsUnlessNtfyFails`, `ServerCatchesUp`, `StaleIsTold`, `EventuallyCrawled`): fairness and ENABLED are out of the prover's
reach. The two violated properties are about what a run shows, not theorems.

## 5. Not modelled

* Content: text, market values, leverage, message formats, model prompts. The decisions that depend
  on them are parameters (`Wants`, `Refused`, `Malformed`) or left out.
* The outcome of a fetch is one step; a provider is not modelled page by page.
* The account snapshot of a trader (replaced with the positions, read by nothing else) and the read-only
  `position_monitor.py`. Administration beyond the start time, deletion, creation and switching: profiles, prompts,
  models, texts of rules.
* Of the server's crawler: `crawl_runs`, `ensure_defaults`, the bootstrap file; the subscription is one and enabled.
* Structurers, the feed, authentication, migrations, the dashboard, deployment: conversions, queries and set-up without a
  protocol of their own.
* Of the history reset: the tables of trades, which it leaves alone, and the collector's file, which the script deletes.
* A batch with a member whose analysis failed, or which the server refused, is never notified
  (`_ready_trade_batch` waits for all signals). `NotificationOwed` does not demand it.
* A gap (`TradeHistoryGap`) lasts until the start time is moved; and after an empty baseline without
  a start time an overflowing first page is not noticed, the checkpoint being `NULL`. `TradeLedger` reaches both; the
  properties claim nothing that would contradict it.
* If the administrator moves the start time back and forth between two cycles, the collector does not notice
  and keeps a ledger whose snapshot the server has cleared; the next good fetch sends it again (`ServerCatchesUp`).

## 6. Plan

Next, in order:

1. A composition of `TradeLedger`, `CollectorDelivery` and `SignalAnalysis`: a batch split over uploads and cut by a moved start time.
2. A composition of `ServerCrawler` and `SignalAnalysis` in place of `Ingest`.
3. Pure operators: `should_notify`, `trade_structurer`, feed visibility, the limit on failed logins.

Abstract specifications worth stating: an atomically replaced register for `PositionSnapshot`; at-least-once notification
for `SignalAnalysis`.
