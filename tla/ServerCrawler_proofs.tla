------------------------ MODULE ServerCrawler_proofs ------------------------
(***************************************************************************)
(* Proofs about the crawls of one subscription, for any number of          *)
(* processes, posts, collectors, uploads, crashes and failures.            *)
(***************************************************************************)
EXTENDS ServerCrawler, TLAPS

\* What was announced, and not rolled back, is stored or about to be.
AnnouncedIsKept == announced \subseteq stored \cup Uncommitted

\* What a transaction sees stays, unless the history is reset.
ViewIsStored == ~raced => \A p \in Procs : tx[p].view \subseteq stored

\* Up to each post of a crawl everything is stored, still to be done, or known to
\* be missing: in whatever order the crawl takes its posts, the last one may
\* become the checkpoint.
Accounted ==
  ~raced =>
    \A p \in Procs : \A e \in tx[p].todo \cup {tx[p].latest} :
      1..e \subseteq tx[p].todo \cup tx[p].added \cup stored \cup missed \cup dropped

Checked == ViewIsStored /\ Accounted /\ NothingSkipped

-----------------------------------------------------------------------------
(* Type correctness.                                                       *)

LEMMA PublishedArePosts ==
  ASSUME RowsOK
  PROVE  1..newest \subseteq Posts
<1>1. site \in Sites /\ newest \in 0..site.posts /\ site.posts \in Nat
  BY CrawlerAssumption DEF RowsOK
<1>2. 1..newest \subseteq 1..site.posts
  BY <1>1
<1> QED
  BY <1>1, <1>2 DEF Posts

LEMMA FaultIsCounted ==
  ASSUME RowsOK, Fault
  PROVE  faults' \in 0..MaxFaults
BY CrawlerAssumption DEF RowsOK, Fault

LEMMA WorldKeepsRows ==
  ASSUME RowsOK, \/ Publish \/ BecomesDue \/ Expire \/ RedisToggles \/ Reset
                 \/ \E e \in Posts : Upload(e)
  PROVE  RowsOK'
<1>1. CASE Publish
  <2>1. newest' \in 0..site.posts
    BY <1>1, CrawlerAssumption DEF Publish, RowsOK
  <2> QED
    BY <1>1, <2>1 DEF Publish, RowsOK, database, redis, notes, bounds
<1>2. CASE BecomesDue \/ Expire
  BY <1>2 DEF BecomesDue, Expire, RowsOK, database, redis, notes, bounds
<1>3. CASE RedisToggles
  BY <1>3, FaultIsCounted DEF RedisToggles, RowsOK, database, notes
<1>4. CASE Reset
  BY <1>4, FaultIsCounted DEF Reset, RowsOK, redis
<1>5. ASSUME NEW e \in Posts, Upload(e)
      PROVE  RowsOK'
  <2>1. uploads' \in 0..MaxUploads
    BY <1>5, CrawlerAssumption DEF Upload, RowsOK
  <2> QED
    BY <1>5, <2>1 DEF Upload, RowsOK, redis
<1> QED
  BY <1>1, <1>2, <1>3, <1>4, <1>5

LEMMA ProcessKeepsRows ==
  ASSUME RowsOK, TransactionsOK, NEW p \in Procs,
         Run(p) \/ OpenRunFails(p) \/ CrawlFails(p) \/ Crash(p)
  PROVE  RowsOK'
<1>1. /\ tx[p].added \subseteq Posts /\ tx[p].todo \subseteq Posts
      /\ tx[p].latest \in Posts \cup {NoPost}
  BY DEF TransactionsOK
<1>2. CASE \/ Boot(p) \/ Backfill(p) \/ ListDue(p) \/ SkipLocked(p)
           \/ Existing(p) \/ Release(p)
  BY <1>2 DEF Boot, Backfill, ListDue, SkipLocked, Existing, Release, RowsOK,
              database, redis, notes, bounds
<1>3. CASE OpenRun(p) \/ OpenRunFails(p)
  <2>1. lock' \in Procs \cup {Nobody}
    BY <1>3 DEF OpenRun, OpenRunFails, Acquire, RowsOK
  <2>2. faults' \in 0..MaxFaults
    BY <1>3, FaultIsCounted DEF OpenRun, OpenRunFails, bounds, RowsOK
  <2> QED
    BY <1>3, <2>1, <2>2
    DEF OpenRun, OpenRunFails, Acquire, RowsOK, database, notes, bounds
<1>4. CASE Fetch(p)
  BY <1>4, PublishedArePosts DEF Fetch, RowsOK, database, redis, bounds
<1>5. CASE Insert(p) \/ Collide(p)
  BY <1>1, <1>5 DEF Insert, Collide, RowsOK, database, redis, bounds
<1>6. CASE Commit(p)
  BY <1>1, <1>6 DEF Commit, Checkpoint, RowsOK, redis, notes, bounds
<1>7. CASE CrawlFails(p) \/ Crash(p)
  BY <1>7, FaultIsCounted DEF CrawlFails, Crash, RollBack, RowsOK, database, redis
<1>8. CASE DeleteKey(p)
  BY <1>8 DEF DeleteKey, RowsOK, database, notes, bounds
<1> QED
  BY <1>2, <1>3, <1>4, <1>5, <1>6, <1>7, <1>8 DEF Run

LEMMA ProcessKeepsProcesses ==
  ASSUME RowsOK, ProcessesOK, NEW p \in Procs,
         Run(p) \/ OpenRunFails(p) \/ CrawlFails(p) \/ Crash(p)
  PROVE  ProcessesOK'
<1>1. site \in Sites /\ site' = site /\ site.collectors \in Nat \ {0}
  BY CrawlerAssumption
  DEF RowsOK, Run, Boot, Backfill, ListDue, SkipLocked, OpenRun, OpenRunFails, Fetch,
      Existing, Insert, Collide, Commit, CrawlFails, Release, DeleteKey, Crash, Acquire
<1>2. CASE Existing(p) \/ Insert(p) \/ Collide(p)
  BY <1>1, <1>2 DEF Existing, Insert, Collide, ProcessesOK
<1>3. CASE Boot(p) \/ ListDue(p) \/ SkipLocked(p)
  BY <1>1, <1>3 DEF Boot, ListDue, SkipLocked, Step, Go, ProcessesOK
<1>4. CASE Backfill(p) \/ OpenRun(p)
  BY <1>1, <1>4 DEF Backfill, OpenRun, Step, Go, ProcessesOK, RowsOK
<1>5. CASE OpenRunFails(p)
  BY <1>1, <1>5 DEF OpenRunFails, Step, Go, ProcessesOK
<1>6. CASE Fetch(p)
  BY <1>1, <1>6 DEF Fetch, Step, Go, ProcessesOK
<1>7. CASE Commit(p) \/ CrawlFails(p)
  BY <1>1, <1>7 DEF Commit, CrawlFails, Step, Go, Done, ProcessesOK
<1>8. CASE Release(p) \/ DeleteKey(p)
  BY <1>1, <1>8 DEF Release, DeleteKey, Step, Go, ProcessesOK
<1>9. CASE Crash(p)
  BY <1>1, <1>9 DEF Crash, Go, ProcessesOK
<1> QED
  BY <1>2, <1>3, <1>4, <1>5, <1>6, <1>7, <1>8, <1>9 DEF Run

\* The steps that leave transactions and the posts alone.
Aside ==
  /\ UNCHANGED <<tx, stored, checkpoint, announced, repeated, missed, dropped, raced>>
  /\ \A q \in Procs : pc'[q] # "crawl" => tx[q] = NoTx

LEMMA OtherStepsAreAside ==
  ASSUME TypeOK, [Next]_vars
  PROVE  \/ Aside
         \/ Reset \/ \E e \in Posts : Upload(e)
         \/ \E p \in Procs : \/ Fetch(p) \/ Existing(p) \/ Insert(p) \/ Collide(p)
                            \/ Commit(p) \/ CrawlFails(p) \/ Crash(p)
<1>1. CASE UNCHANGED vars \/ Publish \/ BecomesDue \/ Expire \/ RedisToggles
  BY <1>1
  DEF Aside, TypeOK, TransactionsOK, vars, Publish, BecomesDue, Expire, RedisToggles,
      database, process, notes
<1>2. ASSUME NEW p \in Procs,
             \/ Boot(p) \/ Backfill(p) \/ ListDue(p) \/ SkipLocked(p) \/ OpenRun(p)
             \/ OpenRunFails(p) \/ Release(p) \/ DeleteKey(p)
      PROVE  Aside
  <2>1. UNCHANGED <<tx, stored, checkpoint, announced, repeated, missed, dropped, raced>>
    BY <1>2
    DEF Boot, Backfill, ListDue, SkipLocked, OpenRun, OpenRunFails, Release, DeleteKey,
        Acquire, database, notes
  <2>2. pc[p] # "crawl" /\ \A q \in Procs \ {p} : pc'[q] = pc[q]
    BY <1>2
    DEF Boot, Backfill, ListDue, SkipLocked, OpenRun, OpenRunFails, Release, DeleteKey,
        Step, Go, TypeOK, ProcessesOK
  <2> QED
    BY <2>1, <2>2 DEF Aside, TypeOK, TransactionsOK
<1> QED
  BY <1>1, <1>2 DEF Next, Run

\* A transaction that has nothing the others or the table have keeps apart.
LEMMA OneTransactionChanges ==
  ASSUME TypeOK, NEW p \in Procs, tx' = [tx EXCEPT ![p] = tx'[p]],
         tx'[p] \in [view: SUBSET Posts, todo: SUBSET Posts, added: SUBSET Posts,
                    latest: Posts \cup {NoPost}],
         \A q \in Procs \ {p} : pc'[q] = pc[q],
         pc'[p] # "crawl" => tx'[p] = NoTx,
         \A e \in tx'[p].added : e \in tx[p].added \/ e \notin Uncommitted,
         tx'[p].added \cap stored' = {},
         \A q \in Procs \ {p} : tx[q].added \cap stored' = {}
  PROVE  TransactionsOK'
<1>1. \A q \in Procs \ {p} : tx'[q] = tx[q]
  BY DEF TypeOK, TransactionsOK
<1>2. tx' \in [Procs -> [view: SUBSET Posts, todo: SUBSET Posts,
                        added: SUBSET Posts, latest: Posts \cup {NoPost}]]
  BY DEF TypeOK, TransactionsOK
<1>3. \A q \in Procs : pc'[q] # "crawl" => tx'[q] = NoTx
  BY <1>1 DEF TypeOK, TransactionsOK
<1>4. \A q \in Procs \ {p} : tx'[p].added \cap tx[q].added = {}
  BY DEF TypeOK, TransactionsOK, Uncommitted
<1>5. \A q, r \in Procs : q # r => tx'[q].added \cap tx'[r].added = {}
  BY <1>1, <1>4 DEF TypeOK, TransactionsOK
<1>6. Uncommitted' \cap stored' = {}
  BY <1>1 DEF Uncommitted
<1> QED
  BY <1>2, <1>3, <1>5, <1>6 DEF TransactionsOK

LEMMA ListedArePosts ==
  ASSUME RowsOK
  PROVE  Listed \subseteq 1..newest /\ Listed \subseteq Posts
BY PublishedArePosts DEF Listed

\* What becomes of a transaction with one post.
LEMMA PostIsProcessed ==
  ASSUME TypeOK, NEW p \in Procs, Existing(p) \/ Insert(p) \/ Collide(p)
  PROVE  \E e \in tx[p].todo :
           /\ Crawling(p, e) /\ UNCHANGED pc
           /\ \/ /\ Existing(p) /\ e \in tx[p].view
                 /\ tx' = [tx EXCEPT ![p] = Processed(@, e, @.view, @.added)]
              \/ /\ Insert(p) /\ Insertable(e)
                 /\ tx' = [tx EXCEPT ![p] = Processed(@, e, @.view, @.added \cup {e})]
                 /\ announced' = announced \cup {e}
                 /\ repeated' = repeated \cup (announced \cap {e})
              \/ /\ Collide(p) /\ e \in stored
                 /\ tx' = [tx EXCEPT ![p] = Processed(@, e, stored \cap @.todo, {})]
BY DEF Existing, Insert, Collide, Crawling

LEMMA CrawlKeepsTransactions ==
  ASSUME TypeOK, NEW p \in Procs,
         \/ Fetch(p) \/ Existing(p) \/ Insert(p) \/ Collide(p)
         \/ Commit(p) \/ CrawlFails(p) \/ Crash(p)
  PROVE  TransactionsOK'
<1> DEFINE Tx == [view: SUBSET Posts, todo: SUBSET Posts, added: SUBSET Posts,
                  latest: Posts \cup {NoPost}]
<1>1. /\ tx \in [Procs -> Tx] /\ tx[p] \in Tx
      /\ Uncommitted \cap stored = {} /\ stored \subseteq Posts
      /\ \A q \in Procs : tx[q].added \subseteq Uncommitted
      /\ \A q \in Procs \ {p} : tx[q].added \cap tx[p].added = {}
  BY DEF TypeOK, TransactionsOK, RowsOK, Uncommitted
<1>2. NoTx \in Tx /\ NoTx.added = {}
  BY DEF NoTx
<1>3. \A q \in Procs \ {p} : pc'[q] = pc[q]
  BY DEF Fetch, Existing, Insert, Collide, Commit, CrawlFails, Crash, Step, Go,
         TypeOK, ProcessesOK
<1>4. CASE Fetch(p)
  <2>1. tx'[p] = [view |-> stored \cap Listed, todo |-> Listed, added |-> {},
                  latest |-> NoPost]
    BY <1>1, <1>4 DEF Fetch, NoTx
  <2>2. pc'[p] = "crawl"
    BY <1>4 DEF Fetch, Step, Go, TypeOK, ProcessesOK
  <2>3. tx'[p] \in Tx
    BY <1>1, <2>1, ListedArePosts DEF TypeOK
  <2>4. tx' = [tx EXCEPT ![p] = tx'[p]] /\ stored' = stored
    BY <1>1, <1>4 DEF Fetch, database
  <2> QED
    BY <1>1, <1>3, <2>1, <2>2, <2>3, <2>4, OneTransactionChanges
<1>5. CASE Existing(p) \/ Insert(p) \/ Collide(p)
  <2>1. PICK e \in tx[p].todo, v \in SUBSET Posts, a \in SUBSET Posts :
          /\ Crawling(p, e) /\ UNCHANGED pc
          /\ tx' = [tx EXCEPT ![p] = Processed(tx[p], e, v, a)]
          /\ \A f \in a : f \in tx[p].added \/ Insertable(f)
    <3>1. PICK e \in tx[p].todo :
            /\ Crawling(p, e) /\ UNCHANGED pc
            /\ \/ tx' = [tx EXCEPT ![p] = Processed(@, e, @.view, @.added)]
               \/ /\ Insertable(e)
                  /\ tx' = [tx EXCEPT ![p] = Processed(@, e, @.view, @.added \cup {e})]
               \/ tx' = [tx EXCEPT ![p] = Processed(@, e, stored \cap @.todo, {})]
      BY <1>5, PostIsProcessed
    <3>2. e \in Posts /\ tx[p].view \in SUBSET Posts /\ tx[p].added \in SUBSET Posts
      BY <1>1, <3>1
    <3> QED
      BY <1>1, <3>1, <3>2
  <2>2. Processed(tx[p], e, v, a) \in Tx
    BY <1>1, <2>1 DEF Processed
  <2>3. tx'[p] = Processed(tx[p], e, v, a) /\ tx' = [tx EXCEPT ![p] = tx'[p]]
    BY <1>1, <2>1
  <2>4. tx'[p].added = a
    BY <2>3 DEF Processed
  <2>5. \A f \in a : f \in tx[p].added \/ f \notin stored \cup Uncommitted
    BY <2>1 DEF Insertable
  <2>6. stored' = stored /\ pc'[p] = "crawl"
    BY <1>5, <2>1 DEF Existing, Insert, Collide, database, Crawling
  <2>7. a \cap stored' = {}
    BY <1>1, <2>5, <2>6
  <2> QED
    BY <1>1, <1>3, <2>2, <2>3, <2>4, <2>5, <2>6, <2>7, OneTransactionChanges
<1>6. CASE Commit(p)
  <2>1. tx'[p] = NoTx /\ tx' = [tx EXCEPT ![p] = tx'[p]]
    BY <1>1, <1>6 DEF Commit
  <2>2. stored' = stored \cup tx[p].added
    BY <1>6 DEF Commit
  <2> QED
    BY <1>1, <1>2, <1>3, <2>1, <2>2, OneTransactionChanges
<1>7. CASE CrawlFails(p) \/ Crash(p)
  <2>1. tx'[p] = NoTx /\ tx' = [tx EXCEPT ![p] = tx'[p]] /\ stored' = stored
    BY <1>1, <1>7 DEF CrawlFails, Crash, RollBack, database
  <2> QED
    BY <1>1, <1>2, <1>3, <2>1, OneTransactionChanges
<1> QED
  BY <1>4, <1>5, <1>6, <1>7

LEMMA StepKeepsTypes ==
  ASSUME TypeOK, [Next]_vars
  PROVE  TypeOK'
<1>1. RowsOK'
  <2>1. CASE UNCHANGED vars
    BY <2>1 DEF TypeOK, RowsOK, vars, database, redis, notes, bounds
  <2> QED
    BY <2>1, WorldKeepsRows, ProcessKeepsRows DEF Next, TypeOK
<1>2. ProcessesOK'
  <2>1. CASE \/ UNCHANGED vars \/ Publish \/ BecomesDue \/ Expire \/ RedisToggles
             \/ Reset \/ \E e \in Posts : Upload(e)
    BY <2>1 DEF TypeOK, ProcessesOK, vars, process, Publish, BecomesDue, Expire,
                RedisToggles, Reset, Upload
  <2> QED
    BY <2>1, ProcessKeepsProcesses DEF Next, TypeOK
<1>3. TransactionsOK'
  <2>1. CASE Aside
    BY <2>1 DEF Aside, TypeOK, TransactionsOK, Uncommitted
  <2>2. CASE Reset
    BY <2>2 DEF Reset, process, TypeOK, TransactionsOK, Uncommitted
  <2>3. ASSUME NEW e \in Posts, Upload(e)
        PROVE  TransactionsOK'
    BY <2>3 DEF Upload, process, TypeOK, TransactionsOK, Uncommitted
  <2> QED
    BY <2>1, <2>2, <2>3, OtherStepsAreAside, CrawlKeepsTransactions
<1> QED
  BY <1>1, <1>2, <1>3 DEF TypeOK

LEMMA InitIsTyped == Init => TypeOK
<1> SUFFICES ASSUME Init PROVE TypeOK
  OBVIOUS
<1>1. site \in Sites /\ site.posts \in Nat /\ site.collectors \in Nat
  BY CrawlerAssumption DEF Init
<1>2. RowsOK
  <2>1. newest \in 0..site.posts /\ uploads \in 0..MaxUploads /\ faults \in 0..MaxFaults
    BY <1>1, CrawlerAssumption DEF Init
  <2> QED
    BY <1>1, <2>1 DEF Init, RowsOK
<1>3. ProcessesOK
  BY <1>1 DEF Init, ProcessesOK
<1>4. TransactionsOK
  BY DEF Init, TransactionsOK, Uncommitted, NoTx
<1> QED
  BY <1>2, <1>3, <1>4 DEF TypeOK

\* The state keeps its shape: no post is in two transactions, or in one and in the
\* table.
THEOREM TypeCorrect == Spec => []TypeOK
<1>1. TypeOK /\ [Next]_vars => TypeOK'
  BY StepKeepsTypes
<1> QED
  BY InitIsTyped, <1>1, PTL DEF Spec

-----------------------------------------------------------------------------
(* Announcements.                                                          *)

LEMMA StepKeepsAnnounced ==
  ASSUME TypeOK, AnnouncedIsKept, AnnouncedOnce, [Next]_vars
  PROVE  AnnouncedIsKept' /\ AnnouncedOnce'
<1>1. CASE Aside
  BY <1>1 DEF Aside, AnnouncedIsKept, AnnouncedOnce, Uncommitted
<1>2. CASE Reset
  BY <1>2 DEF Reset, AnnouncedIsKept, AnnouncedOnce
<1>3. ASSUME NEW e \in Posts, Upload(e)
      PROVE  AnnouncedIsKept' /\ AnnouncedOnce'
  BY <1>3 DEF Upload, process, AnnouncedIsKept, AnnouncedOnce, Uncommitted
<1>4. ASSUME NEW p \in Procs,
             \/ Fetch(p) \/ Existing(p) \/ Insert(p) \/ Collide(p)
             \/ Commit(p) \/ CrawlFails(p) \/ Crash(p)
      PROVE  AnnouncedIsKept' /\ AnnouncedOnce'
  <2>1. /\ \A X : tx' = [tx EXCEPT ![p] = X] => tx'[p] = X
        /\ \A q \in Procs \ {p} : tx'[q] = tx[q]
    BY <1>4 DEF TypeOK, TransactionsOK, Fetch, Existing, Insert, Collide, Commit,
                CrawlFails, Crash, RollBack
  <2>2. Uncommitted \subseteq Uncommitted' \cup tx[p].added
    BY <2>1 DEF Uncommitted
  <2>3. tx'[p].added \subseteq Uncommitted'
    BY DEF Uncommitted
  <2>4. CASE Fetch(p)
    <3>1. tx[p].added = {}
      BY <2>4 DEF Fetch, Step, TypeOK, TransactionsOK, NoTx
    <3> QED
      BY <2>2, <2>4, <3>1 DEF Fetch, database, AnnouncedIsKept, AnnouncedOnce
  <2>5. CASE Existing(p)
    <3>1. tx'[p].added = tx[p].added
      BY <2>1, <2>5 DEF Existing, Processed
    <3> QED
      BY <2>2, <2>3, <2>5, <3>1 DEF Existing, database, notes, AnnouncedIsKept, AnnouncedOnce
  <2>6. CASE Insert(p)
    <3>1. PICK e \in tx[p].todo :
            /\ Insertable(e)
            /\ tx' = [tx EXCEPT ![p] = Processed(@, e, @.view, @.added \cup {e})]
            /\ announced' = announced \cup {e}
            /\ repeated' = repeated \cup (announced \cap {e})
      BY <2>6 DEF Insert
    <3>2. tx'[p].added = tx[p].added \cup {e}
      <4>1. tx'[p] = Processed(tx[p], e, tx[p].view, tx[p].added \cup {e})
        BY <3>1 DEF TypeOK, TransactionsOK
      <4> QED
        BY <4>1 DEF Processed
    <3>3. e \notin announced
      BY <3>1 DEF Insertable, AnnouncedIsKept
    <3> QED
      BY <2>2, <2>3, <2>6, <3>1, <3>2, <3>3
      DEF Insert, database, AnnouncedIsKept, AnnouncedOnce
  <2>7. CASE Collide(p)
    BY <2>2, <2>7 DEF Collide, database, AnnouncedIsKept, AnnouncedOnce
  <2>8. CASE Commit(p)
    BY <2>2, <2>8 DEF Commit, notes, AnnouncedIsKept, AnnouncedOnce
  <2>9. CASE CrawlFails(p) \/ Crash(p)
    BY <2>2, <2>9 DEF CrawlFails, Crash, RollBack, database, AnnouncedIsKept,
                      AnnouncedOnce
  <2> QED
    BY <1>4, <2>4, <2>5, <2>6, <2>7, <2>8, <2>9
<1> QED
  BY <1>1, <1>2, <1>3, <1>4, OtherStepsAreAside

\* No post is notified again unless the transaction that notified it was rolled
\* back, however many crawls are under way at a time.
THEOREM AnnouncedOnlyOnce == Spec => []AnnouncedOnce
<1>1. Init => AnnouncedIsKept /\ AnnouncedOnce
  BY DEF Init, AnnouncedIsKept, AnnouncedOnce
<1>2. TypeOK /\ AnnouncedIsKept /\ AnnouncedOnce /\ [Next]_vars
        => AnnouncedIsKept' /\ AnnouncedOnce'
  BY StepKeepsAnnounced
<1> QED
  BY <1>1, <1>2, TypeCorrect, PTL DEF Spec

-----------------------------------------------------------------------------
(* The checkpoint.                                                         *)

\* What a transaction that goes on must leave accounted for.
LEMMA OneCrawlGoesOn ==
  ASSUME TypeOK, Checked, NEW p \in Procs, UNCHANGED <<checkpoint, raced>>,
         \A q \in Procs \ {p} : tx'[q] = tx[q],
         stored \subseteq stored', missed \subseteq missed', dropped \subseteq dropped',
         ~raced => /\ tx'[p].view \subseteq stored'
                   /\ \A e \in tx'[p].todo \cup {tx'[p].latest} :
                        1..e \subseteq tx'[p].todo \cup tx'[p].added
                                       \cup stored' \cup missed' \cup dropped'
  PROVE  Checked'
<1>1. ViewIsStored'
  BY DEF Checked, ViewIsStored
<1>2. Accounted'
  <2> SUFFICES ASSUME ~raced, NEW q \in Procs, NEW e \in tx'[q].todo \cup {tx'[q].latest}
               PROVE  1..e \subseteq tx'[q].todo \cup tx'[q].added
                                    \cup stored' \cup missed' \cup dropped'
    BY DEF Accounted
  <2>1. CASE q = p
    BY <2>1
  <2>2. CASE q # p
    BY <2>2 DEF Checked, Accounted
  <2> QED
    BY <2>1, <2>2
<1>3. NothingSkipped'
  BY DEF Checked, NothingSkipped
<1> QED
  BY <1>1, <1>2, <1>3 DEF Checked

LEMMA FetchKeepsChecked ==
  ASSUME TypeOK, Checked, NEW p \in Procs, Fetch(p)
  PROVE  Checked'
<1>1. /\ tx'[p].view = stored \cap Listed /\ tx'[p].todo = Listed
      /\ tx'[p].latest = 0 /\ \A q \in Procs \ {p} : tx'[q] = tx[q]
  BY DEF Fetch, NoTx, NoPost, TypeOK, TransactionsOK
<1>2. /\ UNCHANGED <<stored, checkpoint, dropped, raced>>
      /\ missed' = missed \cup {e \in 1..newest : e > checkpoint /\ e \notin Listed}
  BY DEF Fetch, database
<1>3. ASSUME ~raced, NEW e \in Listed \cup {0}, NEW f \in 1..e
      PROVE  f \in Listed \cup stored \cup missed' \cup dropped
  <2>1. newest \in Nat /\ checkpoint \in Nat
    <3>1. site \in Sites /\ site.posts \in Nat /\ newest \in 0..site.posts
      BY CrawlerAssumption DEF TypeOK, RowsOK
    <3>2. Posts \subseteq Nat
      BY CrawlerAssumption DEF Posts
    <3> QED
      BY <3>1, <3>2 DEF TypeOK, RowsOK, NoPost
  <2>2. e \in 0..newest
    BY <2>1, ListedArePosts DEF TypeOK
  <2>3. f \in 1..newest
    BY <2>1, <2>2
  <2>4. CASE f \in 1..checkpoint
    BY <1>2, <1>3, <2>4 DEF Checked, NothingSkipped
  <2>5. CASE f \notin 1..checkpoint
    <3>1. f > checkpoint
      BY <2>1, <2>3, <2>5
    <3> QED
      BY <1>2, <2>3, <3>1
  <2> QED
    BY <1>2, <2>4, <2>5
<1> QED
  BY <1>1, <1>2, <1>3, OneCrawlGoesOn

LEMMA PostKeepsChecked ==
  ASSUME TypeOK, Checked, NEW p \in Procs, Existing(p) \/ Insert(p) \/ Collide(p)
  PROVE  Checked'
<1>1. UNCHANGED <<stored, checkpoint, missed, raced>> /\ dropped \subseteq dropped'
  BY DEF Existing, Insert, Collide, database, notes
<1>2. PICK e \in tx[p].todo :
        \/ /\ Existing(p) /\ e \in tx[p].view
           /\ tx' = [tx EXCEPT ![p] = Processed(@, e, @.view, @.added)]
        \/ /\ Insert(p)
           /\ tx' = [tx EXCEPT ![p] = Processed(@, e, @.view, @.added \cup {e})]
        \/ /\ Collide(p) /\ e \in stored
           /\ tx' = [tx EXCEPT ![p] = Processed(@, e, stored \cap @.todo, {})]
  BY PostIsProcessed
<1>3. /\ \A X : tx' = [tx EXCEPT ![p] = X] => tx'[p] = X
      /\ \A q \in Procs \ {p} : tx'[q] = tx[q]
  BY <1>2 DEF TypeOK, TransactionsOK
<1>4. tx'[p].todo = tx[p].todo \ {e} /\ tx'[p].latest = e
  BY <1>2, <1>3 DEF Processed
<1>5. tx'[p].view \subseteq tx[p].view \cup stored
  BY <1>2, <1>3 DEF Processed
<1>6. tx[p].added \subseteq tx'[p].added \cup dropped'
  BY <1>2, <1>3 DEF Processed, Collide
<1>7. e \in tx'[p].added \cup stored \cup tx[p].view
  BY <1>2, <1>3 DEF Processed
<1>8. ASSUME ~raced
      PROVE  /\ tx'[p].view \subseteq stored'
             /\ \A f \in tx'[p].todo \cup {tx'[p].latest} :
                  1..f \subseteq tx'[p].todo \cup tx'[p].added
                                 \cup stored' \cup missed' \cup dropped'
  <2>1. tx[p].view \subseteq stored
    BY <1>8 DEF Checked, ViewIsStored
  <2>2. \A f \in tx[p].todo :
          1..f \subseteq tx[p].todo \cup tx[p].added \cup stored \cup missed \cup dropped
    BY <1>8 DEF Checked, Accounted
  <2>3. tx'[p].todo \cup {tx'[p].latest} \subseteq tx[p].todo
    BY <1>4
  <2> QED
    BY <1>1, <1>4, <1>5, <1>6, <1>7, <2>1, <2>2, <2>3
<1> QED
  BY <1>1, <1>3, <1>8, OneCrawlGoesOn

LEMMA NoTxIsAccounted ==
  NoTx.view = {} /\ NoTx.todo = {} /\ NoTx.latest = 0 /\ 1..0 = {}
BY DEF NoTx, NoPost

LEMMA CommitKeepsChecked ==
  ASSUME TypeOK, Checked, NEW p \in Procs, Commit(p)
  PROVE  Checked'
<1>1. /\ stored' = stored \cup tx[p].added /\ tx[p].todo = {}
      /\ checkpoint' \in {checkpoint, tx[p].latest}
      /\ UNCHANGED <<missed, dropped, raced>>
  BY DEF Commit, Checkpoint, notes
<1>2. tx'[p] = NoTx /\ \A q \in Procs \ {p} : tx'[q] = tx[q]
  BY DEF Commit, TypeOK, TransactionsOK
<1>3. ViewIsStored'
  BY <1>1, <1>2, NoTxIsAccounted DEF Checked, ViewIsStored
<1>4. Accounted'
  <2> SUFFICES ASSUME ~raced, NEW q \in Procs, NEW e \in tx'[q].todo \cup {tx'[q].latest}
               PROVE  1..e \subseteq tx'[q].todo \cup tx'[q].added
                                    \cup stored' \cup missed' \cup dropped'
    BY <1>1 DEF Accounted
  <2>1. CASE q = p
    BY <1>2, <2>1, NoTxIsAccounted
  <2>2. CASE q # p
    BY <1>1, <1>2, <2>2 DEF Checked, Accounted
  <2> QED
    BY <2>1, <2>2
<1>5. NothingSkipped'
  BY <1>1 DEF Checked, NothingSkipped, Accounted
<1> QED
  BY <1>3, <1>4, <1>5 DEF Checked

LEMMA StepKeepsChecked ==
  ASSUME TypeOK, Checked, [Next]_vars
  PROVE  Checked'
<1>1. CASE Aside
  BY <1>1 DEF Aside, Checked, ViewIsStored, Accounted, NothingSkipped
<1>2. CASE Reset
  <2>1. /\ checkpoint' = 0 /\ tx' = tx
        /\ ~raced' => \A p \in Procs : tx[p] = NoTx
    BY <1>2 DEF Reset, process, NoPost, TypeOK, TransactionsOK
  <2> QED
    BY <2>1, NoTxIsAccounted DEF Checked, ViewIsStored, Accounted, NothingSkipped
<1>3. ASSUME NEW e \in Posts, Upload(e)
      PROVE  Checked'
  <2>1. /\ stored \subseteq stored'
        /\ UNCHANGED <<tx, checkpoint, missed, dropped, raced>>
    BY <1>3 DEF Upload, process
  <2> QED
    BY <2>1 DEF Checked, ViewIsStored, Accounted, NothingSkipped
<1>4. ASSUME NEW p \in Procs, CrawlFails(p) \/ Crash(p)
      PROVE  Checked'
  <2>1. /\ tx'[p] = NoTx /\ \A q \in Procs \ {p} : tx'[q] = tx[q]
        /\ UNCHANGED <<stored, checkpoint, missed, dropped, raced>>
    BY <1>4 DEF CrawlFails, Crash, RollBack, database, TypeOK, TransactionsOK
  <2> QED
    BY <2>1, NoTxIsAccounted, OneCrawlGoesOn
<1> QED
  BY <1>1, <1>2, <1>3, <1>4, OtherStepsAreAside, FetchKeepsChecked, PostKeepsChecked,
     CommitKeepsChecked

\* What the checkpoint has passed is stored, was on no page, or was rolled back
\* with a post somebody else had stored, for any number of processes that crawl
\* the subscription at a time.
THEOREM NothingIsSkipped == Spec => []NothingSkipped
<1>1. Init => Checked
  <2> SUFFICES ASSUME Init PROVE Checked
    OBVIOUS
  <2>1. checkpoint = 0 /\ \A p \in Procs : tx[p] = NoTx
    BY DEF Init, NoPost
  <2> QED
    BY <2>1, NoTxIsAccounted DEF Checked, ViewIsStored, Accounted, NothingSkipped
<1>2. TypeOK /\ Checked /\ [Next]_vars => Checked'
  BY StepKeepsChecked
<1>3. Checked => NothingSkipped
  BY DEF Checked
<1> QED
  BY <1>1, <1>2, <1>3, TypeCorrect, PTL DEF Spec

=============================================================================
