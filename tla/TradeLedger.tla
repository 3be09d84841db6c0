----------------------------- MODULE TradeLedger -----------------------------
(***************************************************************************)
(* One binance_copy subscription, from the trader's account to the server. *)
(*                                                                         *)
(*   account --page of orders--> ledger (trade_events) --> positions       *)
(*                                  \--> outbox --> server                 *)
(*                                                                         *)
(* The provider shows only the newest Page orders of the last Window days. *)
(* The collector keeps a ledger of all it has seen, infers the positions   *)
(* from the whole ledger, and must notice when it has missed orders.  The  *)
(* administrator may at any time set positionStartAt: the account is then  *)
(* taken to be flat at that time and the ledger starts anew.               *)
(*                                                                         *)
(* run_once is a sequence of SQLite transactions; a crash between two of   *)
(* them loses the configuration the cycle was working with.                *)
(***************************************************************************)
EXTENDS TradeReconciler

CONSTANTS
  Page,           \* orders in one response (100)
  Window,         \* how far back the provider shows orders (30 days)
  Quantities,     \* quantities of orders
  OrderPrices,    \* average prices an order of a moment may have
  StartTimes,     \* moments the administrator may choose
  EndOfTime       \* bound: the last moment

ASSUME LedgerAssumption ==
  /\ Page \in Nat \ {0} /\ Window \in Nat \ {0}
  /\ Quantities \subseteq Nat \ {0} /\ EndOfTime \in Nat
  /\ \A t \in 1..EndOfTime : OrderPrices[t] \subseteq Nat
  /\ StartTimes \subseteq 1..EndOfTime
  /\ \A k \in Keys : k[2] \in Directed  \* no other side is parsed

NoStart == -1     \* positionStartAt is not configured
NoCheckpoint == 0 \* no record: ids are the times of the orders, from 1 on
Start == {NoStart} \cup StartTimes

VARIABLES
  now,
  orders,         \* the orders of the account, at most one at a time
  startAt,        \* subscriptions.position_start_at on the server
  \* the collector's SQLite file
  tradeStart,     \* subscription_state.trade_start_at
  stateRow,       \* there is a subscription_state row
  checkpoint,     \* id of the record the checkpoint names
  baselineDone,   \* subscription_state.trade_baseline_initialized
  ledger,         \* trade_events
  positions,      \* position_estimates
  outbox,         \* posts not yet uploaded
  \* the collector's memory
  phase,          \* "idle", or "fetch" within a cycle
  config,         \* positionStartAt as the cycle read it
  \* the server
  received,       \* trade posts of this subscription the server stored
  refused,        \* trade posts that became dead letters
  \* bookkeeping
  fetchedAt,      \* the last fetch that recorded its orders
  baseline        \* ids recorded by the baseline

store == <<tradeStart, stateRow, checkpoint, baselineDone, ledger, positions,
           outbox, fetchedAt, baseline>>
server == <<received, refused>>
vars == <<now, orders, startAt, store, phase, config, server>>

-----------------------------------------------------------------------------
(* The account.  A DECREASE is never more than what is held.               *)

Delta(r) == IF r.operation = "INCREASE" THEN r.quantity ELSE -r.quantity

\* The quantity held in key k after the orders up to time t.
Held(k, t) ==
  LET done == {r \in orders : r.key = k /\ r.time <= t}
      h[n \in 0..t] == IF n = 0 THEN 0
                       ELSE h[n - 1] + (IF \E r \in done : r.time = n
                                        THEN Delta(CHOOSE r \in done : r.time = n)
                                        ELSE 0)
  IN  h[t]

\* Time passes, with an order or without.  The provider derives the id of a
\* record from its contents; here it is the time.
Trade ==
  /\ now < EndOfTime
  /\ now' = now + 1
  /\ \E k \in Keys, q \in Quantities, op \in {"INCREASE", "DECREASE"},
        price \in OrderPrices[now + 1] :
       /\ op = "DECREASE" => q <= Held(k, now)
       /\ orders' = orders \cup
            {[id |-> now + 1, revision |-> 1, time |-> now + 1, observed |-> 1,
              operation |-> op, key |-> k, quantity |-> q, price |-> price]}
  /\ UNCHANGED <<startAt, store, phase, config, server>>

Tick ==
  /\ now < EndOfTime
  /\ now' = now + 1
  /\ UNCHANGED <<orders, startAt, store, phase, config, server>>

\* The administrator edits the subscription, which can move the start time, or
\* deletes it and creates it again, with a start time or without.
SetPositionStart ==
  /\ startAt' \in Start \ {startAt}
  /\ UNCHANGED <<now, orders, store, phase, config, server>>

-----------------------------------------------------------------------------
(* The provider.                                                           *)

RequestStart == IF config # NoStart THEN config ELSE now - Window
InWindow == {r \in orders : RequestStart <= r.time}
Listed == {r \in InWindow : Cardinality({q \in InWindow : Before(r, q)}) < Page}

\* Mutants of HistoryGap: the total is not compared with the page; the
\* checkpoint is not looked for.
HistoryGapOnePage ==
  \/ config # NoStart /\ config < now - Window
  \/ checkpoint # NoCheckpoint /\ \A r \in Listed : r.id # checkpoint
HistoryGapNoOverlap ==
  config # NoStart /\ (config < now - Window \/ InWindow # Listed)

\* The orders shown do not reach back to what the ledger has.
HistoryGap ==
  \/ config # NoStart /\ (config < now - Window \/ InWindow # Listed)
  \/ checkpoint # NoCheckpoint /\ \A r \in Listed : r.id # checkpoint

\* Newest record of R, c when there is none.
Latest(R, c) == IF R = {} THEN c
                ELSE (CHOOSE r \in R : \A q \in R : ~Before(r, q)).id

-----------------------------------------------------------------------------
(* The collector.                                                          *)

Reset ==
  /\ tradeStart' = config' /\ stateRow' = TRUE
  /\ checkpoint' = NoCheckpoint /\ baselineDone' = FALSE
  /\ ledger' = {} /\ positions' = NoPositions /\ outbox' = {}
  /\ fetchedAt' = 0 /\ baseline' = {}

\* Mutants of EnsureTradeStart: the next fetch is not a baseline; the posts of
\* the old ledger stay.
EnsureWithoutBaseline ==
  IF tradeStart = config' /\ (stateRow \/ config' = NoStart)
  THEN UNCHANGED store
  ELSE /\ tradeStart' = config' /\ stateRow' = TRUE
       /\ checkpoint' = NoCheckpoint /\ UNCHANGED baselineDone
       /\ ledger' = {} /\ positions' = NoPositions /\ outbox' = {}
       /\ fetchedAt' = 0 /\ baseline' = {}
EnsureKeepsOutbox ==
  IF tradeStart = config' /\ (stateRow \/ config' = NoStart)
  THEN UNCHANGED store
  ELSE /\ tradeStart' = config' /\ stateRow' = TRUE
       /\ checkpoint' = NoCheckpoint /\ baselineDone' = FALSE
       /\ ledger' = {} /\ positions' = NoPositions /\ UNCHANGED outbox
       /\ fetchedAt' = 0 /\ baseline' = {}

\* ensure_trade_start, a transaction of its own: another start time empties
\* everything that was derived from the old one.
EnsureTradeStart ==
  IF tradeStart = config' /\ (stateRow \/ config' = NoStart)
  THEN UNCHANGED store
  ELSE Reset

\* fetch_config, and the start time it brings.
BeginCycle ==
  /\ phase = "idle"
  /\ phase' = "fetch"
  /\ config' = startAt
  /\ EnsureTradeStart
  /\ UNCHANGED <<now, orders, startAt, server>>

\* Nothing to fetch: disabled, not due, or before the start time.
SkipFetch ==
  /\ phase = "fetch"
  /\ phase' = "idle"
  /\ UNCHANGED <<now, orders, startAt, store, config, server>>

Fresh == {r \in Listed : \A q \in ledger : q.id # r.id}

\* The posts for the new records of the ledger R; they share a batch.
Posts(new, R, changes) ==
  {[record |-> r, action |-> Action(r, R, config # NoStart),
    batch |-> {q.id : q \in new}, changes |-> changes] : r \in new}

\* Mutant of Queued: the posts replace those that still wait.
QueuedOverwrites(posts) == IF baselineDone THEN posts ELSE outbox

\* The baseline makes no posts.
Queued(posts) == IF baselineDone THEN outbox \cup posts ELSE outbox

\* record_trade_fetch, one transaction: the ledger, the positions, the posts of
\* what is new and the checkpoint.
RecordTradeFetch ==
  LET all == ledger \cup Fresh
      after == IF all = {} THEN positions
               ELSE Positions(all, config # NoStart)
  IN  /\ ledger' = all
      /\ positions' = after
      /\ outbox' = Queued(Posts(Fresh, all, PositionChanges(positions, after)))
      /\ checkpoint' = Latest(Listed, checkpoint)
      /\ baselineDone' = TRUE /\ stateRow' = TRUE
      /\ fetchedAt' = now
      /\ baseline' = IF baselineDone THEN baseline ELSE {r.id : r \in all}
      /\ UNCHANGED tradeStart

Fetched ==
  /\ phase = "fetch"
  /\ config = NoStart \/ now >= config
  /\ ~HistoryGap
  /\ RecordTradeFetch
  /\ phase' = "idle"
  /\ UNCHANGED <<now, orders, startAt, config, server>>

\* mark_trade_positions_unknown
ForgetPositions ==
  positions' = [k \in Keys |-> IF positions[k] = Missing THEN Missing ELSE Unknown]

\* TradeHistoryGap: no checkpoint moves and no position is claimed any more.
GapFound ==
  /\ phase = "fetch"
  /\ config = NoStart \/ now >= config
  /\ HistoryGap
  /\ ForgetPositions
  /\ phase' = "idle"
  /\ UNCHANGED <<now, orders, startAt, tradeStart, stateRow, checkpoint,
                 baselineDone, ledger, outbox, fetchedAt, baseline, config,
                 server>>

\* Mutant of MarkStale: positions the ledger does not have become stale too.
MarkEverythingStale ==
  positions' = [k \in Keys |-> [positions[k] EXCEPT !.status = "STALE"]]

\* mark_trade_positions_stale: only the status changes.
MarkStale ==
  positions' = [k \in Keys |-> IF positions[k] = Missing THEN Missing
                               ELSE [positions[k] EXCEPT !.status = "STALE"]]

\* The request failed or the answer made no sense.
FetchFails ==
  /\ phase = "fetch"
  /\ config = NoStart \/ now >= config
  /\ MarkStale
  /\ phase' = "idle"
  /\ UNCHANGED <<now, orders, startAt, tradeStart, stateRow, checkpoint,
                 baselineDone, ledger, outbox, fetchedAt, baseline, config,
                 server>>

\* The outbox reaches the server (CollectorDelivery says how), which refuses
\* trades from before its positionStartAt.
Upload ==
  /\ phase = "idle"
  /\ outbox # {}
  /\ LET good == {p \in outbox : startAt = NoStart \/ p.record.time >= startAt}
     IN  /\ received' = received \cup {p.record.id : p \in good}
         /\ refused' = refused \cup {p.record.id : p \in outbox \ good}
  /\ outbox' = {}
  /\ UNCHANGED <<now, orders, startAt, tradeStart, stateRow, checkpoint,
                 baselineDone, ledger, positions, fetchedAt, baseline, phase,
                 config>>

Crash ==
  /\ phase = "fetch"
  /\ phase' = "idle"
  /\ UNCHANGED <<now, orders, startAt, store, config, server>>

-----------------------------------------------------------------------------
Init ==
  /\ now = 0 /\ orders = {} /\ startAt \in Start
  /\ tradeStart = NoStart /\ stateRow = FALSE
  /\ checkpoint = NoCheckpoint /\ baselineDone = FALSE
  /\ ledger = {} /\ positions = NoPositions /\ outbox = {}
  /\ phase = "idle" /\ config = NoStart
  /\ received = {} /\ refused = {} /\ fetchedAt = 0 /\ baseline = {}

Next ==
  \/ Trade \/ Tick \/ SetPositionStart
  \/ BeginCycle \/ SkipFetch \/ Fetched \/ GapFound \/ FetchFails
  \/ Upload \/ Crash

Spec == Init /\ [][Next]_vars

-----------------------------------------------------------------------------
(* Properties.                                                             *)

Estimates ==
  {Missing} \cup
  [side: Directed \cup {"FLAT", "UNKNOWN"},
   quantity: Nat \cup {NoQuantity}, entry: Prices,
   confidence: {"HIGH", "MEDIUM", "LOW", "UNKNOWN"},
   status: {"ACTIVE", "FLAT", "UNKNOWN", "STALE"}]

Ids(posts) == {p.record.id : p \in posts}

\* The collector's database is well typed: a position is an estimate the schema
\* allows or has no row, and the checkpoint names a record of the ledger.
TypeOK ==
  /\ now \in 0..EndOfTime /\ phase \in {"idle", "fetch"}
  /\ startAt \in Start /\ tradeStart \in Start /\ config \in Start
  /\ stateRow \in BOOLEAN /\ baselineDone \in BOOLEAN
  /\ ledger \subseteq orders
  /\ checkpoint \in {NoCheckpoint} \cup {r.id : r \in ledger}
  /\ positions \in [Keys -> Estimates]
  /\ {p.record : p \in outbox} \subseteq ledger

\* A position claimed with high confidence is the truth.  If the account was
\* flat at positionStartAt, such a quantity is what the account held at the last
\* fetch, and a position without a row was not held: whatever page limits, gaps,
\* failures, crashes and edits of the start time came between
\* (docs/data-sources.md:36).
HighConfidenceIsTrue ==
  \A k \in Keys :
    (tradeStart # NoStart /\ fetchedAt # 0 /\ Held(k, tradeStart - 1) = 0) =>
      /\ positions[k].confidence = "HIGH" =>
           positions[k].quantity = Held(k, fetchedAt)
      /\ positions[k] = Missing => Held(k, fetchedAt) = 0

\* The ledger has no hole: from its first record to the last fetch, every order
\* of the account is in it, because a page that does not overlap the ledger is
\* never added to it (docs/data-sources.md:38).
LedgerHasNoHole ==
  \A first \in ledger, r \in orders :
    first.time <= r.time /\ r.time <= fetchedAt => r \in ledger

\* Every trade seen after the baseline is on its way to the server, or was
\* stored or refused there; the baseline itself is never posted.
EveryTradePosted ==
  \A r \in ledger :
    \/ r.id \in Ids(outbox) \cup received \cup refused
    \/ r.id \in baseline

\* Nothing from before the start time is left once the collector has adopted it,
\* neither in the ledger nor waiting to be uploaded.
StartTimeAdopted ==
  tradeStart # NoStart =>
    \A r \in ledger \cup {p.record : p \in outbox} : r.time >= tradeStart

\* What the order r did to a position that was flat at the start.
Change(r) ==
  IF r.operation = "INCREASE"
  THEN IF Held(r.key, r.time - 1) = 0 THEN "OPEN" ELSE "ADD"
  ELSE IF Held(r.key, r.time) = 0 THEN "CLOSE" ELSE "REDUCE"

\* What a piece held in key k has cost on average, after the order of time n if it
\* was `before` until then: a reduction leaves it, and nothing has no price.
Paid(k, n, before) ==
  LET bought == {r \in orders : /\ r.key = k /\ r.time = n
                                /\ r.operation = "INCREASE"}
      r == CHOOSE r \in bought : TRUE
  IN  IF Held(k, n) = 0 THEN NoPrice
      ELSE IF bought = {} THEN before
      ELSE IF Held(k, n - 1) = 0 THEN r.price
      ELSE Average(Held(k, n - 1), before, r.quantity, r.price)

Entry(k, t) ==
  LET e[n \in 0..t] == IF n = 0 THEN NoPrice ELSE Paid(k, n, e[n - 1])
  IN  e[t]

\* What is held in key k at time t, and at what price.
Holding(k, t) == <<Held(k, t), Entry(k, t)>>

\* A post tells what happened in the account: its action is what the trade did,
\* and the position changes of its batch, without which no notification is sent,
\* are exactly the positions whose quantity or average price differ between the
\* last two fetches - the net effect of the batch, not its orders; failures in
\* between neither add nor hide one (docs/architecture.md:25).
PostsTellTheChange ==
  [][\A p \in outbox' \ outbox :
       (/\ tradeStart # NoStart
        /\ \A k \in Keys : Held(k, tradeStart - 1) = 0) =>
         /\ p.action = Change(p.record)
         /\ p.changes = {k \in Keys : Holding(k, fetchedAt) # Holding(k, now)}]_vars

\* A trade is posted once: no fetch, and no rebuild of the ledger after the start
\* time was moved, queues a trade the server has already been given.
PostedOnce ==
  [][(Ids(outbox') \ Ids(outbox)) \cap (received \cup refused) = {}]_vars

=============================================================================
