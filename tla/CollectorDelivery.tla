------------------------- MODULE CollectorDelivery -------------------------
(***************************************************************************)
(* The way of an ordinary post from its source to the server:              *)
(*                                                                         *)
(*   provider --fetch--> outbox (SQLite) --upload--> raw_posts (server)    *)
(*                             \--------- "invalid" ---> dead_letters      *)
(*                                                                         *)
(* The collector is one process that runs CollectorScheduler.run_once in a *)
(* loop; its SQLite transactions survive a crash and its attributes do     *)
(* not.  An upload the collector gave up on may still reach the server,    *)
(* which commits every request in one transaction.                         *)
(*                                                                         *)
(* Time is kept as what is left of a delay.  Times when a subscription is  *)
(* not due, and what a provider says of its health, are in CollectorCycle: *)
(* here a subscription may simply be skipped.                              *)
(***************************************************************************)
EXTENDS Integers, FiniteSets

CONSTANTS
  Subs,             \* ids of the subscriptions the server configures
  ExternalIds,      \* post ids; both providers compare them as integers
  Platforms,
  Platform,         \* the platform of a subscription
  Malformed,        \* items <<platform, external id>> UploadedPost refuses
  InitialLimit,     \* posts taken by the first fetch
  CatchupLimit,     \* posts taken by a later fetch
  UploadLimit,      \* rows of one upload request
  PollSeconds,      \* time between two cycles
  MaxRetryDelay,    \* longest upload backoff: min(300, 2^8)
  MaxLost,          \* bound: requests the collector gave up on
  MaxCrashes        \* bound: crashes of the collector

NoCheckpoint == 0   \* subscription_state.checkpoint IS NULL

ASSUME DeliveryAssumption ==
  /\ Subs \subseteq Nat /\ IsFiniteSet(Subs)
  /\ ExternalIds \subseteq Nat \ {NoCheckpoint} /\ IsFiniteSet(ExternalIds)
  /\ Platform \in [Subs -> Platforms]
  /\ Malformed \subseteq Platforms \X ExternalIds
  /\ InitialLimit \in Nat \ {0} /\ CatchupLimit \in Nat \ {0}
  /\ UploadLimit \in Nat \ {0}
  /\ PollSeconds \in Nat \ {0} /\ MaxRetryDelay \in Nat \ {0, 1}
  /\ MaxLost \in Nat /\ MaxCrashes \in Nat

VARIABLES
  \* the outside world
  visible,          \* posts a provider would list, per subscription
  \* the collector's SQLite file
  checkpoint,       \* subscription_state.checkpoint
  outbox,           \* outbox_posts, every row of it pending
  deadLetters,      \* the <<subscription, external id>> of dead_letters
  \* the collector's memory
  phase,            \* where run_once is
  todo,             \* subscriptions the loop of run_once has still to visit
  pending,          \* rows of the upload in progress
  retryDelay,       \* 2^upload_failures, capped
  uploadWait,       \* what is left until next_upload_at
  \* the network and the server
  reply,            \* the answer to the upload in progress
  lost,             \* requests given up on that may still arrive
  rawPosts,         \* raw_posts
  \* bookkeeping
  handed,           \* every <<subscription, external id>> ever put in outbox
  crashes

durable == <<checkpoint, outbox, deadLetters, handed>>
backoff == <<retryDelay, uploadWait>>
vars == <<visible, durable, phase, todo, pending, backoff, reply, lost,
          rawPosts, crashes>>

NoReply == [answered |-> FALSE, items |-> {}]
Statuses == {"accepted", "duplicate", "invalid"}
Rows == [id: Nat, sub: Subs, ext: ExternalIds]
Verdicts == [pos: Nat, ext: ExternalIds, status: Statuses]
RawPosts == [platform: Platforms, ext: ExternalIds, sub: Subs]

Item(r) == <<Platform[r.sub], r.ext>>
Key(r) == <<r.sub, r.ext>>
Stored == {<<p.platform, p.ext>> : p \in rawPosts}

-----------------------------------------------------------------------------
(* Fetching: a provider lists the newest posts above the checkpoint.       *)

FetchLimit(s) == IF checkpoint[s] = NoCheckpoint THEN InitialLimit
                                                 ELSE CatchupLimit

\* The `n` greatest members of S: `ordered[-limit:]`.
Newest(S, n) == {e \in S : Cardinality({f \in S : f > e}) < n}

\* Mutant of Selected: the provider forgets the checkpoint.
RefetchEverything(s) == Newest(visible[s], FetchLimit(s))

Selected(s) == Newest({e \in visible[s] : e > checkpoint[s]}, FetchLimit(s))

\* The rows INSERT OR IGNORE adds for the posts E of s, oldest first; SQLite
\* numbers a row one above the greatest id in the table.
NewRows(s, E, top) ==
  LET fresh == {e \in E : \A r \in outbox : Key(r) # <<s, e>>}
  IN  {[id |-> top + Cardinality({f \in fresh : f <= e}), sub |-> s, ext |-> e]
         : e \in fresh}

\* The greatest row id in outbox_posts, 0 when it is empty.
IsTopId(top) == \A r \in outbox : r.id <= top

RecordFetch(s) ==
  \E top \in {r.id : r \in outbox} \cup {0} :
    /\ IsTopId(top)
    /\ outbox' = outbox \cup NewRows(s, Selected(s), top)
    /\ handed' = handed \cup {Key(r) : r \in NewRows(s, Selected(s), top)}
    /\ IF Selected(s) = {}
       THEN checkpoint' = checkpoint
       ELSE \E latest \in Selected(s) :
              /\ \A e \in Selected(s) : e <= latest
              /\ checkpoint' = [checkpoint EXCEPT ![s] = latest]
    /\ UNCHANGED deadLetters

-----------------------------------------------------------------------------
(* Uploading.                                                              *)

\* Mutant of Window: the newest rows are uploaded first.
NewestWindow ==
  {r \in outbox : Cardinality({q \in outbox : q.id > r.id}) < UploadLimit}

\* pending_posts: the rows with the UploadLimit smallest ids.
Window ==
  {r \in outbox : Cardinality({q \in outbox : q.id < r.id}) < UploadLimit}

\* collector_posts: what the server answers for one row of request R.  The
\* order of the rows in the request is the order of their ids.
Verdict(r, R) ==
  [pos |-> r.id, ext |-> r.ext,
   status |-> IF Item(r) \in Malformed THEN "invalid"
              ELSE IF \/ Item(r) \in Stored
                      \/ \E q \in R : Item(q) = Item(r) /\ q.id < r.id
                   THEN "duplicate"
                   ELSE "accepted"]

Answer(R) == [answered |-> TRUE, items |-> {Verdict(r, R) : r \in R}]

\* Mutant of Accepted: a post is inserted before it is validated.
AcceptedUnvalidated(R) ==
  {[platform |-> Platform[r.sub], ext |-> r.ext, sub |-> r.sub]
     : r \in {q \in R : Item(q) \notin Stored}}

Accepted(R) ==
  {[platform |-> Platform[r.sub], ext |-> r.ext, sub |-> r.sub]
     : r \in {q \in R : Verdict(q, R).status = "accepted"}}

\* apply_upload_results takes the results in order and gives each one to the
\* first remaining row with its external id, whatever that row's
\* subscription: the n-th result about an id meets the n-th row with that id.
EarlierRows(r) == {q \in outbox : q.ext = r.ext /\ q.id < r.id}
EarlierResults(x) == {y \in reply.items : y.ext = x.ext /\ y.pos < x.pos}
\* Mutant of Meets: a result is applied to every row with its external id.
MeetsEveryRow(x, r) == x.ext = r.ext

Meets(x, r) == /\ x.ext = r.ext
               /\ Cardinality(EarlierResults(x)) = Cardinality(EarlierRows(r))

\* Mutant of RowsWith: a duplicate stays pending.
RowsWithoutDuplicates(statuses) ==
  {r \in outbox :
     \E x \in reply.items : x.status \in statuses \ {"duplicate"} /\ Meets(x, r)}

RowsWith(statuses) ==
  {r \in outbox : \E x \in reply.items : x.status \in statuses /\ Meets(x, r)}

-----------------------------------------------------------------------------
Init ==
  /\ visible = [s \in Subs |-> {}]
  /\ checkpoint = [s \in Subs |-> NoCheckpoint]
  /\ outbox = {} /\ deadLetters = {} /\ handed = {}
  /\ phase = "idle" /\ todo = {} /\ pending = {}
  /\ retryDelay = 1 /\ uploadWait = 0
  /\ reply = NoReply /\ lost = {} /\ rawPosts = {}
  /\ crashes = 0

\* An author publishes, or a source starts to list a post.
Publish(s, e) ==
  /\ e \notin visible[s]
  /\ visible' = [visible EXCEPT ![s] = @ \cup {e}]
  /\ UNCHANGED <<durable, phase, todo, pending, backoff, reply, lost,
                 rawPosts, crashes>>

\* Mutant of Wait: the delay is counted down past zero.
WaitUnclamped == uploadWait' = uploadWait - PollSeconds

\* The time between two cycles passes.
Wait == uploadWait' = IF uploadWait > PollSeconds THEN uploadWait - PollSeconds
                                                  ELSE 0

\* run_once starts: fetch_config succeeds.
FetchConfig ==
  /\ phase = "idle"
  /\ Wait
  /\ phase' = "fetch"
  /\ todo' = Subs
  /\ UNCHANGED <<visible, durable, pending, retryDelay, reply, lost,
                 rawPosts, crashes>>

\* fetch_config fails: the exception ends the cycle before anything changed.
FetchConfigFails ==
  /\ phase = "idle"
  /\ Wait
  /\ UNCHANGED <<visible, durable, phase, todo, pending, retryDelay, reply,
                 lost, rawPosts, crashes>>

\* The loop visits the subscriptions in the order of their ids.
Visit(s) == /\ phase = "fetch"
            /\ s \in todo
            /\ \A t \in todo : s <= t
            /\ todo' = todo \ {s}

\* Fetched: the posts and the checkpoint go to SQLite in one transaction.
FetchPosts(s) ==
  /\ Visit(s)
  /\ RecordFetch(s)
  /\ UNCHANGED <<visible, phase, pending, backoff, reply, lost, rawPosts,
                 crashes>>

\* Disabled, not due, unhealthy, or the fetch failed.
SkipSubscription(s) ==
  /\ Visit(s)
  /\ UNCHANGED <<visible, durable, phase, pending, backoff, reply, lost,
                 rawPosts, crashes>>

UploadDue == outbox # {} /\ uploadWait = 0

SendUpload ==
  /\ phase = "fetch" /\ todo = {}
  /\ UploadDue
  /\ phase' = "uploading"
  /\ pending' = Window
  /\ reply' = NoReply
  /\ UNCHANGED <<visible, durable, todo, backoff, lost, rawPosts, crashes>>

SkipUpload ==
  /\ phase = "fetch" /\ todo = {}
  /\ ~UploadDue
  /\ phase' = "heartbeat"
  /\ UNCHANGED <<visible, durable, todo, pending, backoff, reply, lost,
                 rawPosts, crashes>>

\* POST /collector/posts: every row judged, the good ones inserted, one commit.
ServerHandles ==
  /\ phase = "uploading" /\ ~reply.answered
  /\ rawPosts' = rawPosts \cup Accepted(pending)
  /\ reply' = Answer(pending)
  /\ UNCHANGED <<visible, durable, phase, todo, pending, backoff, lost,
                 crashes>>

\* The collector reads the answer.
ApplyUploadResults ==
  /\ phase = "uploading" /\ reply.answered
  /\ outbox' = outbox \ RowsWith(Statuses)
  /\ deadLetters' = deadLetters \cup {Key(r) : r \in RowsWith({"invalid"})}
  /\ retryDelay' = 1 /\ uploadWait' = 0
  /\ phase' = "heartbeat"
  /\ pending' = {} /\ reply' = NoReply
  /\ UNCHANGED <<visible, checkpoint, handed, todo, lost, rawPosts, crashes>>

\* What becomes of a request whose answer nobody will read.
GiveUp ==
  \/ lost' = lost
  \/ /\ ~reply.answered
     /\ Cardinality(lost) < MaxLost
     /\ lost' = lost \cup {pending}

\* A timeout, a refused connection or an error status: the request or its
\* answer is lost and the rows stay pending.
UploadFails ==
  /\ phase = "uploading"
  /\ GiveUp
  /\ LET delay == IF 2 * retryDelay > MaxRetryDelay THEN MaxRetryDelay
                                                    ELSE 2 * retryDelay
     IN  retryDelay' = delay /\ uploadWait' = delay
  /\ phase' = "heartbeat"
  /\ pending' = {} /\ reply' = NoReply
  /\ UNCHANGED <<visible, durable, todo, rawPosts, crashes>>

\* A request the collector gave up on reaches the server after all.
LateRequest(R) ==
  /\ R \in lost
  /\ rawPosts' = rawPosts \cup Accepted(R)
  /\ lost' = lost \ {R}
  /\ UNCHANGED <<visible, durable, phase, todo, pending, backoff, reply,
                 crashes>>

\* The provider statuses and the heartbeat end the cycle.
Heartbeat ==
  /\ phase = "heartbeat"
  /\ phase' = "idle"
  /\ UNCHANGED <<visible, durable, todo, pending, backoff, reply, lost,
                 rawPosts, crashes>>

\* The process dies anywhere and is started again by launchd.
Crash ==
  /\ crashes < MaxCrashes
  /\ crashes' = crashes + 1
  /\ IF phase = "uploading" THEN GiveUp ELSE lost' = lost
  /\ phase' = "idle" /\ todo' = {} /\ pending' = {}
  /\ retryDelay' = 1 /\ uploadWait' = 0
  /\ reply' = NoReply
  /\ UNCHANGED <<visible, durable, rawPosts>>

Next ==
  \/ \E s \in Subs, e \in ExternalIds : Publish(s, e)
  \/ FetchConfig \/ FetchConfigFails
  \/ \E s \in Subs : FetchPosts(s) \/ SkipSubscription(s)
  \/ SendUpload \/ SkipUpload \/ ServerHandles \/ ApplyUploadResults
  \/ UploadFails
  \/ \E R \in lost : LateRequest(R)
  \/ Heartbeat
  \/ Crash

Spec == Init /\ [][Next]_vars

\* The main loop keeps calling run_once and run_once keeps going; what is asked
\* of the server again and again (the configuration, an upload) is answered
\* some time, and the answer read.
Fairness ==
  /\ SF_vars(FetchConfig)
  /\ \A s \in Subs : WF_vars(FetchPosts(s) \/ SkipSubscription(s))
  /\ WF_vars(SendUpload) /\ WF_vars(SkipUpload) /\ WF_vars(Heartbeat)
  /\ WF_vars(ServerHandles \/ UploadFails)
  /\ SF_vars(ServerHandles) /\ SF_vars(ApplyUploadResults)

FairSpec == Spec /\ Fairness

-----------------------------------------------------------------------------
(* Properties.                                                             *)

\* The shape of the state.
TypeOK ==
  /\ visible \in [Subs -> SUBSET ExternalIds]
  /\ checkpoint \in [Subs -> ExternalIds \cup {NoCheckpoint}]
  /\ outbox \in SUBSET Rows
  /\ deadLetters \subseteq Subs \X ExternalIds
  /\ handed \subseteq Subs \X ExternalIds
  /\ phase \in {"idle", "fetch", "uploading", "heartbeat"}
  /\ todo \subseteq Subs
  /\ pending \subseteq Rows
  /\ retryDelay \in 1..MaxRetryDelay /\ uploadWait \in 0..MaxRetryDelay
  /\ reply \in [answered: BOOLEAN, items: SUBSET Verdicts]
  /\ lost \subseteq SUBSET Rows
  /\ rawPosts \subseteq RawPosts
  /\ crashes \in 0..MaxCrashes

\* No post is lost between the outbox and the server, whatever the network and
\* the crashes do: once in the outbox, a post stays there until the server has
\* it or has refused it (apply_upload_results finds a row by external id alone).
NothingLost ==
  \A k \in handed :
    \/ \E r \in outbox : Key(r) = k
    \/ <<Platform[k[1]], k[2]>> \in Stored
    \/ k \in deadLetters

\* A dead letter is a post the server refused, never one whose external id
\* another subscription's refused post happens to share.
DeadLettersDeserved ==
  \A k \in deadLetters : <<Platform[k[1]], k[2]>> \in Malformed

\* The posts of a subscription reach the server oldest first: when the server
\* took a post from it, every older good post of the outbox is there too.
OldestFirst ==
  \A p \in rawPosts, k \in handed :
    (/\ k[1] = p.sub /\ k[2] < p.ext
     /\ <<p.platform, k[2]>> \notin Malformed) => <<p.platform, k[2]>> \in Stored

\* A post that left the outbox is never fetched into it again: the checkpoint
\* moves in the transaction that inserts the rows, and never back.
NeverRequeued ==
  [][\A r \in outbox' \ outbox : Key(r) \notin handed]_vars

\* Every post of the outbox leaves it in the end.
OutboxDrains ==
  \A s \in Subs, e \in ExternalIds :
    <<s, e>> \in handed ~> \A r \in outbox : Key(r) # <<s, e>>

\* What the pipeline promises for an item, whichever subscription found it.
handoff == [i \in Platforms \X ExternalIds |->
              IF i \in Stored THEN "delivered"
              ELSE IF \E k \in deadLetters : <<Platform[k[1]], k[2]>> = i
                   THEN "rejected"
              ELSE IF \E r \in outbox : Item(r) = i THEN "queued"
              ELSE "unseen"]

Handoff == INSTANCE ReliableHandoff
             WITH Items <- Platforms \X ExternalIds, state <- handoff
HandoffSpec == Handoff!Spec

=============================================================================
