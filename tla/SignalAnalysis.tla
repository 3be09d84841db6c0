---------------------------- MODULE SignalAnalysis ----------------------------
(***************************************************************************)
(* The analysis loop of the API: every uploaded post gets at most one      *)
(* signal, and every signal a rule wants is published to ntfy.             *)
(*                                                                         *)
(*   raw_posts --analysis--> signals --rules--> notification_events, ntfy  *)
(*                                                                         *)
(* The loop is one thread.  It commits after every post and after a round  *)
(* of retries; between two commits it works in an open transaction (tx)    *)
(* that a crash, or an error of the database, throws away, while what was  *)
(* published in the meantime has been read.  Nothing catches an exception  *)
(* of the loop: it ends then, and the API goes on without it.              *)
(*                                                                         *)
(* The trades of a batch are notified together, once all have a signal.    *)
(***************************************************************************)
EXTENDS Integers, FiniteSets

CONSTANTS
  Posts,          \* raw_posts.id, in the order of arrival
  Rules,          \* notification_rules.id
  Batches,        \* notification_batch_id
  Batch,          \* the batch of a post, or NoBatch
  NoBatch,
  Silent,         \* batches without position changes
  Wants,          \* <<post, rule>>: the rule, when enabled, wants its signal
  Ingestable,     \* posts the server's own crawler may bring, signal included
  Refused,        \* posts whose signal the database refuses
  Limit,          \* posts of one round (10)
  RetryLimit,     \* notification events of one round (10)
  MaxAttempts,    \* NOTIFICATION_MAX_ATTEMPTS
  Outages,        \* whether the database may be gone for a moment
  MaxFaults,      \* bound: restarts of the API and outages of the database
  MaxUnanswered   \* bound: lost answers of ntfy, per signal and rule

ASSUME AnalysisAssumption ==
  /\ Posts \subseteq Nat \ {0} /\ IsFiniteSet(Posts)
  /\ Rules \subseteq Nat /\ IsFiniteSet(Rules)
  /\ NoBatch \notin Batches /\ Batch \in [Posts -> Batches \cup {NoBatch}]
  /\ Silent \subseteq Batches /\ Wants \subseteq Posts \X Rules
  /\ Ingestable \subseteq {p \in Posts : Batch[p] = NoBatch}
  /\ Refused \subseteq Posts
  /\ Limit \in Nat \ {0} /\ RetryLimit \in Nat \ {0}
  /\ MaxAttempts \in Nat \ {0} /\ Outages \in BOOLEAN /\ MaxFaults \in Nat
  /\ MaxUnanswered \in Nat

VARIABLES
  uploaded,       \* the rows of raw_posts
  enabled,        \* rules that are enabled and have a server and a topic
  db,             \* what is committed of the loop's tables
  tx,             \* the same as the open session sees it
  phase,          \* where the loop is
  rows,           \* posts of the round still to be analysed
  current,        \* the post being analysed
  anchor,         \* the signal whose notifications are being sent
  serving,        \* rules still to be served for it
  due,            \* events of the round of retries still to be handled
  \* bookkeeping
  published,      \* notifications ntfy took, per signal and rule
  unanswered,     \* those of them whose call failed all the same
  failures,       \* analyses of a post that ended in an exception
  everDisabled,   \* rules that were not enabled at some time
  faults

loop == <<phase, rows, current, anchor, serving, due>>
vars == <<uploaded, enabled, db, tx, loop, published, unanswered, failures,
          everDisabled, faults>>

NoPost == 0
Events == Posts \X Rules
NoEvent == [status |-> "none", attempts |-> 0, retry |-> "never"]
InTransaction == {"publish", "retry", "republish"}

Least(S) == CHOOSE x \in S : \A y \in S : x <= y
FirstOf(S, n) == {x \in S : Cardinality({y \in S : y < x}) < n}
Pending == {p \in uploaded : db.status[p] = "pending"}

-----------------------------------------------------------------------------
(* Notifications.                                                          *)

Members(p) == IF Batch[p] = NoBatch THEN {p}
              ELSE {q \in Posts : Batch[q] = Batch[p]}

\* Mutants of Ready: a batch is ready when its posts are there; a batch is
\* looked at as the last commit left it.
ReadyWhenUploaded(p, t) == Members(p) \subseteq uploaded /\ Batch[p] \notin Silent
ReadyWhenCommitted(p, t) ==
  \/ Batch[p] = NoBatch
  \/ /\ Members(p) \subseteq uploaded /\ Members(p) \subseteq db.signals
     /\ Batch[p] \notin Silent

\* _ready_trade_batch and _trade_batch_notification: every trade of the batch
\* is here and has a signal in the session t, and there is a change to report.
Ready(p, t) ==
  \/ Batch[p] = NoBatch
  \/ /\ Members(p) \subseteq uploaded /\ Members(p) \subseteq t.signals
     /\ Batch[p] \notin Silent

Anchor(p) == Least(Members(p))

\* Mutant of Attempted: whatever was not given up is published again.
AttemptedAgain(e) == e.status = "none" \/ e.retry = "due" \/ e.status = "sent"

\* A rule is served if it has no event yet or one whose retry is due.
Attempted(e) == e.status = "none" \/ (e.status = "failed" /\ e.retry = "due")

Eligible(p) == {r \in enabled : \E m \in Members(p) : <<m, r>> \in Wants}

\* dispatch_notifications: the rules that will be served for the signal of p.
Dispatch(p, t) ==
  /\ anchor' = Anchor(p)
  /\ serving' = IF ~Ready(p, t) THEN {}
                ELSE {r \in Eligible(p) : Attempted(t.events[<<Anchor(p), r>>])}

\* Mutant of AfterFailure: attempts are not limited.
AfterFailureForever(n) == [status |-> "failed", attempts |-> n, retry |-> "later"]

\* The n-th attempt failed; the last one is not repeated.
AfterFailure(n) == [status |-> "failed", attempts |-> n,
                    retry |-> IF n >= MaxAttempts THEN "never" ELSE "later"]

Sent(n) == [status |-> "sent", attempts |-> n, retry |-> "never"]

\* The next rule is served.  ntfy takes the notification and says so; or it does
\* not take it; or it takes it, and the call fails all the same: no answer in
\* time, or an error on the way back.
Publish ==
  /\ phase \in {"publish", "republish"} /\ serving # {}
  /\ LET r == Least(serving)
         k == <<anchor, r>>
         n == tx.events[k].attempts + 1
     IN  /\ serving' = serving \ {r}
         /\ \/ /\ published' = [published EXCEPT ![k] = @ + 1]
               /\ tx' = [tx EXCEPT !.events[k] = Sent(n)]
               /\ UNCHANGED unanswered
            \/ /\ tx' = [tx EXCEPT !.events[k] = AfterFailure(n)]
               /\ UNCHANGED <<published, unanswered>>
            \/ /\ unanswered[k] < MaxUnanswered
               /\ published' = [published EXCEPT ![k] = @ + 1]
               /\ unanswered' = [unanswered EXCEPT ![k] = @ + 1]
               /\ tx' = [tx EXCEPT !.events[k] = AfterFailure(n)]
  /\ UNCHANGED <<uploaded, enabled, db, phase, rows, current, anchor, due,
                 failures, everDisabled, faults>>

-----------------------------------------------------------------------------
(* Posts.                                                                  *)

Next1 == Cardinality(uploaded) + 1

\* The collector uploads a post.
Upload ==
  /\ Next1 \in Posts
  /\ uploaded' = uploaded \cup {Next1}
  /\ UNCHANGED <<enabled, db, tx, loop, published, unanswered, failures,
                 everDisabled, faults>>

\* The server's own crawler stores a post together with its signal.
Ingest ==
  /\ Next1 \in Ingestable
  /\ uploaded' = uploaded \cup {Next1}
  /\ db' = [db EXCEPT !.signals = @ \cup {Next1}]
  /\ tx' = [tx EXCEPT !.signals = @ \cup {Next1}]
  /\ UNCHANGED <<enabled, loop, published, unanswered, failures, everDisabled,
                 faults>>

\* The administrator enables or disables a rule.
EditRule(r) ==
  /\ enabled' = IF r \in enabled THEN enabled \ {r} ELSE enabled \cup {r}
  /\ everDisabled' = everDisabled \cup {r}
  /\ UNCHANGED <<uploaded, db, tx, loop, published, unanswered, failures,
                 faults>>

\* The time of a retry comes.  The session sees time pass between transactions.
RetryDue(k) ==
  /\ phase \notin InTransaction
  /\ db.events[k].retry = "later"
  /\ db' = [db EXCEPT !.events[k].retry = "due"]
  /\ tx' = [tx EXCEPT !.events[k].retry = "due"]
  /\ UNCHANGED <<uploaded, enabled, loop, published, unanswered, failures,
                 everDisabled, faults>>

SelectPending ==
  /\ phase = "idle"
  /\ phase' = "batch"
  /\ rows' = FirstOf(Pending, Limit)
  /\ UNCHANGED <<uploaded, enabled, db, tx, current, anchor, serving, due,
                 published, unanswered, failures, everDisabled, faults>>

Visit(p) == phase = "batch" /\ rows # {} /\ p = Least(rows)

\* Mutant of Completed: the post stays pending.
CompletedUnmarked(p) == tx
Completed(p) == [tx EXCEPT !.status[p] = "completed"]

\* The post has a signal: it is only marked, and not yet committed.
AlreadyAnalysed(p) ==
  /\ Visit(p)
  /\ p \in tx.signals
  /\ tx' = Completed(p)
  /\ rows' = rows \ {p}
  /\ UNCHANGED <<uploaded, enabled, db, phase, current, anchor, serving, due,
                 published, unanswered, failures, everDisabled, faults>>

\* An exception before anything is written: the attempt and the error are kept.
AnalysisFails(p) ==
  /\ Visit(p)
  /\ p \notin tx.signals
  /\ tx' = [tx EXCEPT !.status[p] = "failed", !.attempts[p] = @ + 1]
  /\ db' = tx'
  /\ rows' = rows \ {p}
  /\ failures' = [failures EXCEPT ![p] = @ + 1]
  /\ UNCHANGED <<uploaded, enabled, phase, current, anchor, serving, due,
                 published, unanswered, everDisabled, faults>>

\* The structurer answers, the signal is flushed and the rules are read.
Analyse(p) ==
  /\ Visit(p)
  /\ p \notin tx.signals \cup Refused
  /\ tx' = [tx EXCEPT !.signals = @ \cup {p}, !.attempts[p] = @ + 1]
  /\ Dispatch(p, tx')
  /\ phase' = "publish"
  /\ current' = p
  /\ UNCHANGED <<uploaded, enabled, db, rows, due, published, unanswered,
                 failures, everDisabled, faults>>

\* The loop ends; its transaction is rolled back.
LoopEnds(to) ==
  /\ phase' = to
  /\ tx' = db
  /\ rows' = {} /\ current' = NoPost /\ anchor' = NoPost
  /\ serving' = {} /\ due' = {}

\* A flush is refused (a tag too long, an asset named twice).  The except branch
\* marks the post and goes on to commit, which the failed flush forbids: the
\* commit raises in its turn and nothing is left of the attempt.
FlushRefused(p) ==
  /\ Visit(p)
  /\ p \in Refused \ tx.signals
  /\ LoopEnds("dead")
  /\ failures' = [failures EXCEPT ![p] = @ + 1]
  /\ UNCHANGED <<uploaded, enabled, db, published, unanswered, everDisabled,
                 faults>>

CompletePost ==
  /\ phase = "publish" /\ serving = {}
  /\ tx' = Completed(current)
  /\ db' = tx'
  /\ phase' = "batch"
  /\ rows' = rows \ {current}
  /\ current' = NoPost /\ anchor' = NoPost
  /\ UNCHANGED <<uploaded, enabled, serving, due, published, unanswered,
                 failures, everDisabled, faults>>

-----------------------------------------------------------------------------
(* Retries.                                                                *)

DueEvents == {k \in Events : /\ tx.events[k].status = "failed"
                             /\ tx.events[k].retry = "due"}

\* retry_failed_notifications: the RetryLimit events that are due longest.
StartRetries ==
  /\ phase = "batch" /\ rows = {}
  /\ phase' = "retry"
  /\ \E D \in SUBSET DueEvents :
       /\ \/ D = DueEvents /\ Cardinality(D) < RetryLimit
          \/ Cardinality(D) = RetryLimit
       /\ due' = D
  /\ UNCHANGED <<uploaded, enabled, db, tx, rows, current, anchor, serving,
                 published, unanswered, failures, everDisabled, faults>>

\* The events of one signal are sent again.
RetrySignal(p) ==
  /\ phase = "retry"
  /\ \E k \in due : k[1] = p
  /\ Dispatch(p, tx)
  /\ phase' = "republish"
  /\ UNCHANGED <<uploaded, enabled, db, tx, rows, current, due, published,
                 unanswered, failures, everDisabled, faults>>

Mine == {k \in due : k[1] = anchor}

\* Mutants of Untouched: an event that failed again counts as untouched; what
\* was not attempted stays due.
UntouchedOrFailed(k) == tx.events[k].status = "failed"
UntouchedStaysDue(k) == FALSE

\* The event was not attempted in this round.
Untouched(k) == /\ tx.events[k].status = "failed"
                /\ tx.events[k].attempts = db.events[k].attempts

\* What dispatch_notifications did not attempt is never retried.
FinishSignal ==
  /\ phase = "republish" /\ serving = {}
  /\ tx' = [tx EXCEPT !.events =
              [k \in Events |-> IF k \in Mine /\ Untouched(k)
                                THEN [@[k] EXCEPT !.retry = "never"] ELSE @[k]]]
  /\ due' = due \ Mine
  /\ phase' = "retry"
  /\ anchor' = NoPost
  /\ UNCHANGED <<uploaded, enabled, db, rows, current, serving, published,
                 unanswered, failures, everDisabled, faults>>

CommitRetries ==
  /\ phase = "retry" /\ due = {}
  /\ db' = tx
  /\ phase' = "idle"
  /\ UNCHANGED <<uploaded, enabled, tx, rows, current, anchor, serving, due,
                 published, unanswered, failures, everDisabled, faults>>

-----------------------------------------------------------------------------
(* Faults.                                                                 *)

\* The database is gone for a moment: the loop ends and stays ended.
DatabaseFails ==
  /\ Outages /\ faults < MaxFaults /\ phase # "dead"
  /\ faults' = faults + 1
  /\ LoopEnds("dead")
  /\ UNCHANGED <<uploaded, enabled, db, published, unanswered, failures,
                 everDisabled>>

\* The API is restarted, after a crash or for a new version.
Restart ==
  /\ faults < MaxFaults
  /\ faults' = faults + 1
  /\ LoopEnds("idle")
  /\ UNCHANGED <<uploaded, enabled, db, published, unanswered, failures,
                 everDisabled>>

Tables == [status |-> [p \in Posts |-> "pending"],
           attempts |-> [p \in Posts |-> 0],
           signals |-> {},
           events |-> [k \in Events |-> NoEvent]]

Init ==
  /\ uploaded = {} /\ enabled = Rules
  /\ db = Tables /\ tx = Tables
  /\ phase = "idle" /\ rows = {} /\ current = NoPost
  /\ anchor = NoPost /\ serving = {} /\ due = {}
  /\ published = [k \in Events |-> 0] /\ unanswered = [k \in Events |-> 0]
  /\ failures = [p \in Posts |-> 0]
  /\ everDisabled = {} /\ faults = 0

LoopStep ==
  \/ SelectPending \/ Publish \/ CompletePost
  \/ \E p \in Posts : \/ AlreadyAnalysed(p) \/ AnalysisFails(p) \/ Analyse(p)
                      \/ FlushRefused(p) \/ RetrySignal(p)
  \/ StartRetries \/ FinishSignal \/ CommitRetries

Next ==
  \/ Upload \/ Ingest
  \/ \E r \in Rules : EditRule(r)
  \/ \E k \in Events : RetryDue(k)
  \/ LoopStep
  \/ DatabaseFails \/ Restart

Spec == Init /\ [][Next]_vars

\* The loop runs as long as it has not ended, and time passes (also while a
\* transaction is open, when RetryDue waits for its end).
FairSpec == /\ Spec
            /\ WF_vars(LoopStep)
            /\ \A k \in Events : SF_vars(RetryDue(k))

-----------------------------------------------------------------------------
(* Properties.                                                             *)

EventRows == [status: {"none", "sent", "failed"}, attempts: 0..MaxAttempts,
              retry: {"never", "later", "due"}]
TableTypes == [status: [Posts -> {"pending", "completed", "failed"}],
               attempts: [Posts -> Nat], signals: SUBSET Posts,
               events: [Events -> EventRows]]

\* The shape of the state.  No event is attempted more than MaxAttempts times,
\* and none is ever committed as "pending".
TypeOK ==
  /\ uploaded \subseteq Posts /\ enabled \subseteq Rules
  /\ db \in TableTypes /\ tx \in TableTypes
  /\ phase \in {"idle", "batch", "dead"} \cup InTransaction
  /\ rows \subseteq uploaded /\ current \in Posts \cup {NoPost}
  /\ anchor \in Posts \cup {NoPost} /\ serving \subseteq Rules
  /\ due \subseteq Events
  /\ published \in [Events -> Nat] /\ unanswered \in [Events -> Nat]
  /\ failures \in [Posts -> Nat]
  /\ everDisabled \subseteq Rules /\ faults \in 0..MaxFaults

\* A post has one outcome: what was analysed is completed and has its signal, or
\* failed and has none; only the crawler's posts have a signal while pending
\* (docs/architecture.md:19).
OneOutcome ==
  \A p \in Posts :
    /\ db.status[p] = "completed" => p \in db.signals
    /\ db.status[p] = "failed" => p \notin db.signals
    /\ p \in db.signals /\ db.attempts[p] > 0 => db.status[p] = "completed"

\* Every notification that is owed is on record: when all of a batch (or a single
\* post) is analysed and a rule wanted it, there is an event, sent or failed.
\* The signals and the event are committed together, so that no crash and no
\* order of the batch's posts can lose it (docs/architecture.md:25).
NotificationOwed ==
  \A p \in Posts, r \in Rules \ everDisabled :
    (/\ db.status[p] = "completed" /\ db.attempts[p] > 0
     /\ Members(p) \subseteq db.signals
     /\ Batch[p] \notin Silent
     /\ \E m \in Members(p) : <<m, r>> \in Wants)
    => db.events[<<Anchor(p), r>>].status # "none"

\* A notification is given up only after MaxAttempts attempts, or because the
\* rule was switched off in the meantime (docs/operations.md:134).
NotGivenUpEarly ==
  \A k \in Events :
    db.events[k].status = "failed" /\ db.events[k].retry = "never" =>
      db.events[k].attempts = MaxAttempts \/ k[2] \in everDisabled

\* ntfy takes a notification again only when the record of an earlier time is
\* missing - a fault threw it away, or the call failed though ntfy took it -, and
\* lost answers alone do not make it more than MaxAttempts times: every attempt
\* that is not thrown away counts, and no transaction makes two.
TwiceOnlyUnrecorded ==
  \A k \in Events : /\ published[k] <= 1 + unanswered[k] + faults
                    /\ published[k] <= MaxAttempts + faults

\* What is on record as sent is never published again (docs/operations.md:134),
\* neither by a retry of another rule's event of the same signal.
SentIsFinal ==
  [][\A k \in Events : db.events[k].status = "sent" =>
       db'.events[k] = db.events[k] /\ published'[k] = published[k]]_vars

\* The trades of a batch are notified together: when something is published, all
\* of its posts have a signal and there is a change to report
\* (docs/operations.md:148).
BatchTogether ==
  [][published' # published =>
       /\ Members(anchor) \subseteq tx.signals
       /\ Batch[anchor] \notin Silent]_vars

\* Every uploaded post is analysed in the end, whatever the crawler stored before
\* it and however often the API is restarted.
EveryPostAnalysed ==
  \A p \in Posts : p \in uploaded ~> db.status[p] # "pending"

\* No notification is retried for ever.
RetriesSettle ==
  \A k \in Events : []<>(db.events[k].retry = "never")

\* "A failed analysis keeps the post and the retry count"
\* (docs/architecture.md:35): between two posts, every failure was counted.
AnalysisFailureCounted ==
  phase \in {"idle", "batch", "dead"} =>
    \A p \in Posts : db.attempts[p] >= failures[p]

=============================================================================
