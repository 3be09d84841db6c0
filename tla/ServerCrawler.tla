--------------------------- MODULE ServerCrawler ---------------------------
(***************************************************************************)
(* The server's own crawler: several processes of the API crawl the posts  *)
(* of one subscription, each under a lock kept in Redis, while the         *)
(* collector uploads the same posts and an operator resets the history.    *)
(*                                                                         *)
(* A crawl is one transaction: it inserts a post with its signal, sends    *)
(* the notification, goes on to the next post, and commits all of them     *)
(* with the checkpoint.  It reads through the view its first read opened;  *)
(* an insert of a post another transaction has inserted waits for the end  *)
(* of that transaction, and fails if it committed.                         *)
(*                                                                         *)
(* Posts are numbered in the order of their publication, which is also the *)
(* order of their ids: the code compares these as strings, which is the    *)
(* order of publication for ids of the same length.  The notification of a *)
(* post is SignalAnalysis's.                                               *)
(***************************************************************************)
EXTENDS Integers, FiniteSets, FiniteSetsExt

CONSTANTS
  Procs,       \* processes of the API
  Sites,       \* installations: the platform of the subscription, the collectors
               \* configured for it, the posts a crawl lists at most
               \* (BACKFILL_LIMIT), and, a bound, the posts that are published
  MaxUploads,  \* bound: posts the collector uploads
  MaxFaults    \* bound: crashes, failed crawls and commits, changes of Redis

ASSUME CrawlerAssumption ==
  /\ IsFiniteSet(Procs)
  /\ Sites \subseteq [platform: {"x", "binance_square"}, collectors: Nat \ {0},
                      limit: Nat \ {0}, posts: Nat]
  /\ IsFiniteSet(Sites)
  /\ MaxUploads \in Nat /\ MaxFaults \in Nat

Posts == UNION {1..s.posts : s \in Sites}
NoPost == 0        \* no checkpoint, no post yet
Nobody == "NOBODY"

VARIABLES
  site,         \* the installation
  newest,       \* the posts 1..newest are published
  \* the database
  stored,       \* raw_posts that are committed
  checkpoint, due,  \* the row of the subscription
  \* Redis
  lock,         \* who set the key of the subscription
  redisUp,
  \* the processes
  pc,           \* "down", "idle", "listed", "fetch", "crawl", "release", "delete"
  token,        \* p's handle is of Redis
  left,         \* collectors of the platform still to be asked
  tx,           \* the transaction of a crawl, the view as far as it is still looked at
  \* bookkeeping
  missed,       \* posts no page showed: more were new than a page shows
  dropped,      \* rolled back with a later post of their crawl
  announced,    \* notified by a transaction that was not rolled back, or left to
                \* the analysis of an upload
  repeated,     \* notified again all the same
  raced,        \* the history was reset during a crawl
  uploads, faults

database == <<stored, checkpoint, due>>
redis == <<lock, redisUp>>
process == <<pc, token, left, tx>>
notes == <<missed, dropped, announced, repeated, raced>>
bounds == <<uploads, faults>>
vars == <<site, newest, database, redis, process, notes, bounds>>

NoTx == [view |-> {}, todo |-> {}, added |-> {}, latest |-> NoPost]

\* Posts some transaction has inserted and not committed.
Uncommitted == UNION {tx[p].added : p \in Procs}

Fault == faults < MaxFaults /\ faults' = faults + 1

-----------------------------------------------------------------------------
(* The world around.                                                       *)

Publish ==
  /\ newest < site.posts
  /\ newest' = newest + 1
  /\ UNCHANGED <<site, database, redis, process, notes, bounds>>

\* next_check_at has passed.
BecomesDue ==
  /\ ~due
  /\ due' = TRUE
  /\ UNCHANGED <<site, newest, stored, checkpoint, redis, process, notes, bounds>>

\* The collector uploads a post.
Upload(e) ==
  /\ uploads < MaxUploads
  /\ e <= newest /\ e \notin stored \cup Uncommitted
  /\ stored' = stored \cup {e}
  /\ uploads' = uploads + 1
  /\ announced' = announced \cup {e}
  /\ repeated' = repeated \cup (announced \cap {e})
  /\ UNCHANGED <<site, newest, checkpoint, due, redis, process, missed, dropped,
                 raced, faults>>

\* reset_signal_history; its script stops the collector, and no crawl.
Reset ==
  /\ Fault
  /\ Uncommitted = {}
  /\ stored' = {} /\ checkpoint' = NoPost /\ due' = TRUE
  /\ missed' = {} /\ dropped' = {} /\ announced' = {}
  /\ raced' = (raced \/ \E p \in Procs : pc[p] = "crawl")
  /\ UNCHANGED <<site, newest, redis, process, repeated, uploads>>

\* Mutant of Expire: the key is set without a time to live.
ExpireNever == FALSE /\ UNCHANGED vars

\* The key has lived for LOCK_TTL_SECONDS, its owner at work or not.
Expire ==
  /\ lock # Nobody
  /\ lock' = Nobody
  /\ UNCHANGED <<site, newest, database, redisUp, process, notes, bounds>>

RedisToggles ==
  /\ Fault
  /\ redisUp' = ~redisUp
  /\ UNCHANGED <<site, newest, database, lock, process, notes, uploads>>

-----------------------------------------------------------------------------
(* A process: run_due_once, from the list of what is due to the release.   *)

Go(p, to) == pc' = [pc EXCEPT ![p] = to]
Step(p, from, to) == pc[p] = from /\ Go(p, to)

\* lifespan: the scheduler starts.
Boot(p) ==
  /\ Step(p, "down", "idle")
  /\ UNCHANGED <<site, newest, database, redis, token, left, tx, notes, bounds>>

\* Before that, the backfill of the default subscription, which is one of X: like
\* a run, but without a lock.
Backfill(p) ==
  /\ site.platform = "x"
  /\ Step(p, "down", "fetch")
  /\ left' = [left EXCEPT ![p] = site.collectors]
  /\ UNCHANGED <<site, newest, database, redis, token, tx, notes, bounds>>

\* due_subscriptions
ListDue(p) ==
  /\ due
  /\ Step(p, "idle", "listed")
  /\ UNCHANGED <<site, newest, database, redis, token, left, tx, notes, bounds>>

\* RedisLockManager.acquire.  What Redis does not answer is left to a
\* MemoryLockManager of this very run, which nobody else knows.
Acquire(p) ==
  /\ lock' = IF redisUp /\ lock = Nobody THEN p ELSE lock
  /\ UNCHANGED <<site, newest, database, redisUp, tx, notes>>

Acquired == ~redisUp \/ lock = Nobody

\* The lock is taken and the crawl run committed.
OpenRun(p) ==
  /\ Acquired /\ Acquire(p)
  /\ Step(p, "listed", "fetch")
  /\ token' = [token EXCEPT ![p] = redisUp]
  /\ left' = [left EXCEPT ![p] = site.collectors]
  /\ UNCHANGED bounds

\* The commit fails before the try: nobody releases the lock.
OpenRunFails(p) ==
  /\ Fault
  /\ Acquired /\ Acquire(p)
  /\ Step(p, "listed", "idle")
  /\ UNCHANGED <<token, left, uploads>>

\* Another run has the lock.
SkipLocked(p) ==
  /\ ~Acquired
  /\ Step(p, "listed", "idle")
  /\ UNCHANGED <<site, newest, database, redis, token, left, tx, notes, bounds>>

\* The newest posts above the checkpoint.
Listed ==
  LET new == {e \in 1..newest : e > checkpoint}
  IN  {e \in new : Cardinality({f \in new : f > e}) < site.limit}

\* The rows are read again after the commit that opened the run.
Fetch(p) ==
  /\ Step(p, "fetch", "crawl")
  /\ left' = [left EXCEPT ![p] = @ - 1]
  /\ tx' = [tx EXCEPT ![p] =
              [NoTx EXCEPT !.view = stored \cap Listed, !.todo = Listed]]
  /\ missed' = missed \cup {e \in 1..newest : e > checkpoint /\ e \notin Listed}
  /\ UNCHANGED <<site, newest, database, redis, token, dropped, announced,
                 repeated, raced, bounds>>

\* X is sorted by time, a page of Square is taken as it is: newest first.
Current(p) == IF site.platform = "x" THEN Min(tx[p].todo) ELSE Max(tx[p].todo)

Crawling(p, e) == pc[p] = "crawl" /\ tx[p].todo # {} /\ e = Current(p)

\* The transaction t, seeing view and having inserted added, goes on after post e.
Processed(t, e, view, added) ==
  [view |-> view \ {e}, todo |-> t.todo \ {e}, added |-> added, latest |-> e]

\* A post the transaction sees.
Existing(p) == \E e \in tx[p].todo :
  /\ Crawling(p, e)
  /\ e \in tx[p].view
  /\ tx' = [tx EXCEPT ![p] = Processed(@, e, @.view, @.added)]
  /\ UNCHANGED <<site, newest, database, redis, pc, token, left, notes, bounds>>

\* Mutant of Insertable: the post is looked for, not inserted, before it is sent.
InsertableUnflushed(e) == e \notin stored

\* The flush of the post goes through: nobody else has inserted it.
Insertable(e) == e \notin stored \cup Uncommitted

\* A new post: its signal and its notification follow in the same transaction.
Insert(p) == \E e \in tx[p].todo :
  /\ Crawling(p, e)
  /\ e \notin tx[p].view /\ Insertable(e)
  /\ tx' = [tx EXCEPT ![p] = Processed(@, e, @.view, @.added \cup {e})]
  /\ announced' = announced \cup {e}
  /\ repeated' = repeated \cup (announced \cap {e})
  /\ UNCHANGED <<site, newest, database, redis, pc, token, left, missed,
                 dropped, raced, bounds>>

\* Somebody committed the post after the view was opened: IntegrityError.  The
\* transaction is rolled back, and the crawl goes on with the next post.
Collide(p) == \E e \in tx[p].todo :
  /\ Crawling(p, e)
  /\ e \notin tx[p].view /\ e \in stored
  /\ tx' = [tx EXCEPT ![p] = Processed(@, e, stored \cap @.todo, {})]
  /\ dropped' = dropped \cup tx[p].added
  /\ announced' = announced \ tx[p].added
  /\ UNCHANGED <<site, newest, database, redis, pc, token, left, missed,
                 repeated, raced, bounds>>

\* How a run goes on: with the release of the lock, if it has one of Redis.
Done(p) == IF token[p] THEN "release" ELSE "idle"

\* Mutant of Checkpoint: what was published in the meantime counts as crawled.
CheckpointNewest(p) == IF tx[p].latest = NoPost THEN checkpoint ELSE newest

\* The last post that was processed; unchanged if there was none.
Checkpoint(p) == IF tx[p].latest = NoPost THEN checkpoint ELSE tx[p].latest

\* A collector that found nothing is followed by the next one.
Commit(p) ==
  /\ tx[p].todo = {}
  /\ Step(p, "crawl",
          IF tx[p].latest = NoPost /\ left[p] > 0 THEN "fetch" ELSE Done(p))
  /\ stored' = stored \cup tx[p].added
  /\ checkpoint' = Checkpoint(p)
  /\ due' = FALSE
  /\ tx' = [tx EXCEPT ![p] = NoTx]
  /\ left' = [left EXCEPT ![p] = IF pc'[p] = "fetch" THEN @ ELSE 0]
  /\ UNCHANGED <<site, newest, redis, token, notes, bounds>>

\* The session is rolled back; a notification that was sent stays sent.
RollBack(p) ==
  /\ tx' = [tx EXCEPT ![p] = NoTx]
  /\ announced' = announced \ tx[p].added

\* The fetch, the model, the database or a lock that is waited for too long fails;
\* the next collector is asked.  The subscription stays due.
CrawlFails(p) ==
  /\ Fault
  /\ Step(p, "crawl", IF left[p] > 0 THEN "fetch" ELSE Done(p))
  /\ RollBack(p)
  /\ left' = [left EXCEPT ![p] = IF pc'[p] = "fetch" THEN @ ELSE 0]
  /\ UNCHANGED <<site, newest, database, redis, token, missed, dropped,
                 repeated, raced, uploads>>

\* RedisLockManager.release: GET, and DEL if the key is one's own.
Release(p) ==
  /\ Step(p, "release", IF redisUp /\ lock = p THEN "delete" ELSE "idle")
  /\ token' = [token EXCEPT ![p] = pc'[p] = "delete"]
  /\ UNCHANGED <<site, newest, database, redis, left, tx, notes, bounds>>

\* The key may be another's by now.
DeleteKey(p) ==
  /\ Step(p, "delete", "idle")
  /\ lock' = IF redisUp THEN Nobody ELSE lock
  /\ token' = [token EXCEPT ![p] = FALSE]
  /\ UNCHANGED <<site, newest, database, redisUp, left, tx, notes, bounds>>

Crash(p) ==
  /\ Fault
  /\ pc[p] # "down" /\ Go(p, "down")
  /\ RollBack(p)
  /\ token' = [token EXCEPT ![p] = FALSE]
  /\ left' = [left EXCEPT ![p] = 0]
  /\ UNCHANGED <<site, newest, database, redis, missed, dropped, repeated,
                 raced, uploads>>

-----------------------------------------------------------------------------
Init ==
  /\ site \in Sites /\ newest = 0
  /\ stored = {} /\ checkpoint = NoPost /\ due = TRUE
  /\ lock = Nobody /\ redisUp = TRUE
  /\ pc = [p \in Procs |-> "down"] /\ token = [p \in Procs |-> FALSE]
  /\ left = [p \in Procs |-> 0] /\ tx = [p \in Procs |-> NoTx]
  /\ missed = {} /\ dropped = {} /\ announced = {} /\ repeated = {}
  /\ raced = FALSE /\ uploads = 0 /\ faults = 0

Run(p) ==
  \/ Boot(p) \/ Backfill(p) \/ ListDue(p) \/ SkipLocked(p) \/ OpenRun(p)
  \/ Fetch(p)
  \/ Existing(p) \/ Insert(p) \/ Collide(p) \/ Commit(p)
  \/ Release(p) \/ DeleteKey(p)

Next ==
  \/ Publish \/ BecomesDue \/ Expire \/ RedisToggles \/ Reset
  \/ \E e \in Posts : Upload(e)
  \/ \E p \in Procs : Run(p) \/ OpenRunFails(p) \/ CrawlFails(p) \/ Crash(p)

Spec == Init /\ [][Next]_vars

\* A process goes on with its run and starts the next, a time is reached, a key
\* lives no longer than its time to live.  Faults are bounded and owed nothing.
FairSpec ==
  /\ Spec
  /\ WF_vars(BecomesDue) /\ WF_vars(Expire)
  /\ \A p \in Procs : WF_vars(Run(p))

-----------------------------------------------------------------------------
(* Properties.                                                             *)

RowsOK ==
  /\ site \in Sites /\ newest \in 0..site.posts
  /\ stored \subseteq Posts /\ checkpoint \in Posts \cup {NoPost} /\ due \in BOOLEAN
  /\ lock \in Procs \cup {Nobody} /\ redisUp \in BOOLEAN
  /\ missed \subseteq Posts /\ dropped \subseteq Posts
  /\ announced \subseteq Posts /\ repeated \subseteq Posts
  /\ raced \in BOOLEAN /\ uploads \in 0..MaxUploads /\ faults \in 0..MaxFaults

ProcessesOK ==
  /\ pc \in [Procs -> {"down", "idle", "listed", "fetch", "crawl",
                       "release", "delete"}]
  /\ token \in [Procs -> BOOLEAN] /\ left \in [Procs -> 0..site.collectors]
  /\ \A p \in Procs : pc[p] = "fetch" => left[p] > 0

TransactionsOK ==
  /\ tx \in [Procs -> [view: SUBSET Posts, todo: SUBSET Posts,
                       added: SUBSET Posts, latest: Posts \cup {NoPost}]]
  /\ \A p \in Procs : pc[p] # "crawl" => tx[p] = NoTx
  /\ \A p, q \in Procs : p # q => tx[p].added \cap tx[q].added = {}
  /\ Uncommitted \cap stored = {}

\* The shape of the state; only a crawl has a transaction, two transactions never
\* hold the same post, and a stored post is in none of them.
TypeOK == RowsOK /\ ProcessesOK /\ TransactionsOK

\* What the checkpoint has passed is stored, was on no page, or was rolled back
\* when a later post of its crawl had been stored by somebody else - whoever
\* crawled at the same time, failed, crashed or committed an older checkpoint.
NothingSkipped ==
  ~raced => 1..checkpoint \subseteq stored \cup missed \cup dropped

\* A post is notified again only when the transaction that notified it was rolled
\* back: two crawls at a time, which lapsed and two-step locks allow, do not
\* notify it twice, nor do a crawl and the analysis of an upload.
AnnouncedOnce == repeated = {}

\* Every post is crawled in the end, whatever became of the lock of a process
\* that crashed, could not open its run or could not reach Redis.
EventuallyCrawled ==
  <>[](raced \/ 1..newest \subseteq stored \cup missed \cup dropped)

=============================================================================
