------------------------ MODULE SignalAnalysis_proofs ------------------------
(***************************************************************************)
(* Proofs about the analysis loop and its notifications, for any posts,    *)
(* batches and rules, all limits, and any number of restarts and outages.  *)
(***************************************************************************)
EXTENDS SignalAnalysis, OrderLemmas

\* Rows are numbered in the order of their arrival.
NumberedByArrival == uploaded = 1..Cardinality(uploaded)

\* Nothing is known of a post that has not arrived.
NothingBeforeArrival(t) ==
  \A p \in Posts \ uploaded :
    t.status[p] = "pending" /\ t.attempts[p] = 0 /\ p \notin t.signals

\* The outcome of every post but those of D, in the tables t.
Outcome(t, D) ==
  \A p \in Posts \ D :
    /\ t.status[p] = "completed" => p \in t.signals
    /\ t.status[p] = "failed" => p \notin t.signals
    /\ p \in t.signals /\ t.attempts[p] > 0 => t.status[p] = "completed"

\* The post between its signal and its completion.
InWork == IF phase = "publish" THEN {current} ELSE {}

PostsInv ==
  /\ NumberedByArrival
  /\ NothingBeforeArrival(db) /\ NothingBeforeArrival(tx)
  /\ \A p \in rows : tx.status[p] = "pending"
  /\ phase = "publish" => current \in rows \cap tx.signals
  /\ Outcome(db, {}) /\ Outcome(tx, InWork)

\* Outside of a transaction nothing is uncommitted, but for marks of posts that
\* had their signal.
CommittedBetween ==
  /\ phase \notin InTransaction => tx.events = db.events
  /\ phase \in {"idle", "dead"} => tx = db

\* An event that will be retried has attempts left.
EventRecords(t) ==
  \A k \in Events :
    /\ t.events[k].status = "none" => t.events[k].attempts = 0
    /\ t.events[k].retry # "never" =>
         t.events[k].status = "failed" /\ t.events[k].attempts < MaxAttempts

\* The rule of k wants the notification of the batch of k, which is complete.
Warranted(k, t) ==
  /\ Anchor(k[1]) = k[1]
  /\ Members(k[1]) \subseteq t.signals /\ Batch[k[1]] \notin Silent
  /\ \E m \in Members(k[1]) : <<m, k[2]>> \in Wants

EventsWarranted(t) ==
  \A k \in Events : t.events[k].status # "none" => Warranted(k, t)

\* The rules being served have a right to it, and have not been served.
ServingWarranted ==
  phase \in {"publish", "republish"} =>
    /\ anchor \in Posts /\ Anchor(anchor) = anchor
    /\ phase = "publish" => anchor = Anchor(current)
    /\ \A r \in serving : /\ Warranted(<<anchor, r>>, tx)
                          /\ Attempted(tx.events[<<anchor, r>>])

NotGivenUp(t) ==
  \A k \in Events :
    t.events[k].status = "failed" /\ t.events[k].retry = "never" =>
      t.events[k].attempts = MaxAttempts \/ k[2] \in everDisabled

\* The round of retries has what is committed before it, up to the events of
\* the signal being sent, and leaves out of these only what a rule that was
\* switched off would want.
RoundOfRetries ==
  phase \in {"retry", "republish"} =>
    \A k \in due :
      /\ db.events[k].status = "failed" /\ db.events[k].retry = "due"
      /\ \/ tx.events[k] = db.events[k]
         \/ phase = "republish" /\ k[1] = anchor /\ k[2] \notin serving
      /\ phase = "republish" /\ k[1] = anchor =>
           \/ k[2] \in serving \cup everDisabled
           \/ tx.events[k].attempts # db.events[k].attempts

SentIsKept ==
  \A k \in Events : db.events[k].status = "sent" => tx.events[k] = db.events[k]

\* No transaction makes two attempts at one notification.
AttemptedOnce ==
  \A k \in Events :
    \/ tx.events[k] = db.events[k]
    \/ /\ ~Attempted(tx.events[k])
       /\ tx.events[k].attempts <= db.events[k].attempts + 1

\* A notification was published once if its record says so, once more for every
\* answer that was lost and for every fault that may have thrown a record away;
\* and never more often than it was attempted, but for these faults.
PublishedIsRecorded ==
  \A k \in Events :
    /\ published[k] <= faults + unanswered[k]
                        + IF tx.events[k].status = "sent" THEN 1 ELSE 0
    /\ published[k] <= faults + tx.events[k].attempts

EventsInv ==
  /\ CommittedBetween
  /\ EventRecords(db) /\ EventRecords(tx)
  /\ EventsWarranted(db) /\ EventsWarranted(tx)
  /\ ServingWarranted
  /\ NotGivenUp(db) /\ NotGivenUp(tx)
  /\ RoundOfRetries
  /\ SentIsKept
  /\ AttemptedOnce
  /\ PublishedIsRecorded

\* Somebody who was never switched off is owed a notification of p.
Owes(p, r, t) ==
  /\ t.attempts[p] > 0 /\ Members(p) \subseteq t.signals /\ Batch[p] \notin Silent
  /\ \E m \in Members(p) : <<m, r>> \in Wants

\* It is on record, or about to be.
OwedInv ==
  /\ Rules \ everDisabled \subseteq enabled
  /\ \A p \in Posts, r \in Rules \ everDisabled :
       /\ Owes(p, r, db) => db.events[<<Anchor(p), r>>].status # "none"
       /\ Owes(p, r, tx) => \/ tx.events[<<Anchor(p), r>>].status # "none"
                            \/ phase = "publish" /\ anchor = Anchor(p) /\ r \in serving

IInv == TypeOK /\ PostsInv /\ EventsInv /\ OwedInv

-----------------------------------------------------------------------------
(* Batches and anchors.                                                    *)

LEMMA LeastIsMember ==
  ASSUME NEW S \in SUBSET Nat, S # {}
  PROVE  Least(S) \in S
BY LeastNatural DEF Least

LEMMA BatchIsOneSet ==
  ASSUME NEW p \in Posts, NEW q \in Members(p)
  PROVE  q \in Posts /\ Members(q) = Members(p) /\ Batch[q] = Batch[p]
BY DEF Members

LEMMA AnchorIsMember ==
  ASSUME NEW p \in Posts
  PROVE  /\ p \in Members(p) /\ Members(p) \subseteq Posts
         /\ Anchor(p) \in Members(p)
<1>1. p \in Members(p) /\ Members(p) \subseteq Posts
  BY DEF Members
<1>2. Members(p) \in SUBSET Nat
  BY <1>1, AnalysisAssumption
<1> QED
  BY <1>1, <1>2, LeastIsMember DEF Anchor

LEMMA BatchHasOneAnchor ==
  ASSUME NEW p \in Posts, NEW q \in Members(p)
  PROVE  Anchor(q) = Anchor(p)
BY BatchIsOneSet DEF Anchor

LEMMA AnchorOfAnchor ==
  ASSUME NEW p \in Posts
  PROVE  /\ Anchor(p) \in Posts /\ Anchor(Anchor(p)) = Anchor(p)
         /\ Members(Anchor(p)) = Members(p) /\ Batch[Anchor(p)] = Batch[p]
BY AnchorIsMember, BatchIsOneSet, BatchHasOneAnchor

-----------------------------------------------------------------------------
(* Type correctness.                                                       *)

LEMMA ServedRule ==
  ASSUME TypeOK, EventsInv, phase \in {"publish", "republish"}, serving # {}
  PROVE  LET r == Least(serving)
             e == tx.events[<<anchor, r>>]
         IN  /\ r \in serving /\ r \in Rules /\ anchor \in Posts
             /\ <<anchor, r>> \in Events
             /\ Warranted(<<anchor, r>>, tx)
             /\ e \in EventRows /\ Attempted(e)
             /\ e.attempts + 1 \in 1..MaxAttempts
<1> DEFINE r == Least(serving)
           e == tx.events[<<anchor, r>>]
<1>1. r \in serving /\ r \in Rules
  <2>1. serving \in SUBSET Nat
    BY AnalysisAssumption DEF TypeOK
  <2> QED
    BY <2>1, LeastIsMember DEF TypeOK
<1>2. anchor \in Posts /\ Warranted(<<anchor, r>>, tx) /\ Attempted(e)
  BY <1>1 DEF EventsInv, ServingWarranted
<1>3. <<anchor, r>> \in Events
  BY <1>1, <1>2 DEF Events
<1>4. e \in EventRows
  BY <1>3 DEF TypeOK, TableTypes
<1>5. e.attempts < MaxAttempts
  BY <1>2, <1>3, <1>4, AnalysisAssumption DEF Attempted, EventsInv, EventRecords, EventRows
<1>6. e.attempts \in 0..MaxAttempts
  BY <1>4 DEF EventRows
<1> QED
  BY <1>1, <1>2, <1>3, <1>4, <1>5, <1>6, AnalysisAssumption

LEMMA NextIsNew ==
  ASSUME TypeOK, NumberedByArrival
  PROVE  Next1 \notin uploaded
<1>1. IsFiniteSet(uploaded)
  BY AnalysisAssumption, FS_Subset DEF TypeOK
<1>2. Cardinality(uploaded) \in Nat
  BY <1>1, FS_CardinalityType
<1> QED
  BY <1>2 DEF NumberedByArrival, Next1

\* Publishing writes one event, of a rule that was to be served.
LEMMA PublishWritesOne ==
  ASSUME TypeOK, EventsInv, Publish
  PROVE  \E r \in serving, e \in EventRows :
           /\ serving' = serving \ {r}
           /\ <<anchor, r>> \in Events
           /\ Warranted(<<anchor, r>>, tx)
           /\ Attempted(tx.events[<<anchor, r>>])
           /\ tx' = [tx EXCEPT !.events[<<anchor, r>>] = e]
           /\ e.attempts = tx.events[<<anchor, r>>].attempts + 1
           /\ \/ /\ e.status = "sent" /\ e.retry = "never"
                 /\ published' = [published EXCEPT ![<<anchor, r>>] = @ + 1]
                 /\ unanswered' = unanswered
              \/ /\ e = AfterFailure(e.attempts)
                 /\ published' = published /\ unanswered' = unanswered
              \/ /\ e = AfterFailure(e.attempts)
                 /\ published' = [published EXCEPT ![<<anchor, r>>] = @ + 1]
                 /\ unanswered' = [unanswered EXCEPT ![<<anchor, r>>] = @ + 1]
<1> DEFINE r == Least(serving)
           k == <<anchor, r>>
           n == tx.events[k].attempts + 1
<1>1. /\ r \in serving /\ k \in Events /\ Warranted(k, tx) /\ n \in 0..MaxAttempts
      /\ Attempted(tx.events[k])
  BY ServedRule, AnalysisAssumption DEF Publish
<1>2. serving' = serving \ {r}
  BY DEF Publish
<1>3. CASE /\ published' = [published EXCEPT ![k] = @ + 1]
           /\ tx' = [tx EXCEPT !.events[k] = Sent(n)]
           /\ UNCHANGED unanswered
  <2>1. /\ Sent(n) \in EventRows
        /\ Sent(n).status = "sent" /\ Sent(n).retry = "never" /\ Sent(n).attempts = n
    BY <1>1 DEF EventRows, Sent
  <2> HIDE DEF r, n
  <2> QED
    BY <1>1, <1>2, <1>3, <2>1 DEF n
<1>4. CASE /\ tx' = [tx EXCEPT !.events[k] = AfterFailure(n)]
           /\ \/ UNCHANGED <<published, unanswered>>
              \/ /\ published' = [published EXCEPT ![k] = @ + 1]
                 /\ unanswered' = [unanswered EXCEPT ![k] = @ + 1]
  <2>1. AfterFailure(n) \in EventRows /\ AfterFailure(n).attempts = n
    BY <1>1, AnalysisAssumption DEF EventRows, AfterFailure
  <2> HIDE DEF r, n
  <2> QED
    BY <1>1, <1>2, <1>4, <2>1 DEF n
<1> QED
  BY <1>3, <1>4 DEF Publish

\* What the ways of writing the tables make of them.
LEMMA EventIsWritten ==
  ASSUME NEW t \in TableTypes, NEW k \in Events, NEW e \in EventRows, NEW u,
         u = [t EXCEPT !.events[k] = e]
  PROVE  /\ u \in TableTypes
         /\ u.status = t.status /\ u.attempts = t.attempts
         /\ u.signals = t.signals
         /\ \A j \in Events : u.events[j] = IF j = k THEN e ELSE t.events[j]
BY DEF TableTypes

LEMMA MarkIsWritten ==
  ASSUME NEW t \in TableTypes, NEW p \in Posts, NEW u,
         u = [t EXCEPT !.status[p] = "completed"]
  PROVE  /\ u \in TableTypes
         /\ u.attempts = t.attempts /\ u.signals = t.signals
         /\ u.events = t.events
         /\ \A q \in Posts :
              u.status[q] = IF q = p THEN "completed" ELSE t.status[q]
BY DEF TableTypes

LEMMA FailureIsWritten ==
  ASSUME NEW t \in TableTypes, NEW p \in Posts, NEW u,
         u = [t EXCEPT !.status[p] = "failed", !.attempts[p] = @ + 1]
  PROVE  /\ u \in TableTypes
         /\ u.signals = t.signals /\ u.events = t.events
         /\ \A q \in Posts :
              /\ u.status[q] = IF q = p THEN "failed" ELSE t.status[q]
              /\ u.attempts[q] = IF q = p THEN t.attempts[q] + 1 ELSE t.attempts[q]
<1>1. u.attempts = [t.attempts EXCEPT ![p] = @ + 1]
  BY DEF TableTypes
<1>2. u.attempts \in [Posts -> Nat]
  BY <1>1 DEF TableTypes
<1> QED
  BY <1>1, <1>2 DEF TableTypes

LEMMA SignalIsWritten ==
  ASSUME NEW t \in TableTypes, NEW p \in Posts, NEW u,
         u = [t EXCEPT !.signals = @ \cup {p}, !.attempts[p] = @ + 1]
  PROVE  /\ u \in TableTypes
         /\ u.status = t.status /\ u.events = t.events
         /\ u.signals = t.signals \cup {p}
         /\ \A q \in Posts :
              u.attempts[q] = IF q = p THEN t.attempts[q] + 1 ELSE t.attempts[q]
<1>1. u.attempts = [t.attempts EXCEPT ![p] = @ + 1]
  BY DEF TableTypes
<1>2. u.attempts \in [Posts -> Nat]
  BY <1>1 DEF TableTypes
<1> QED
  BY <1>1, <1>2 DEF TableTypes

LEMMA RetryIsWritten ==
  ASSUME NEW t \in TableTypes, NEW k \in Events
  PROVE  [t.events[k] EXCEPT !.retry = "due"] \in EventRows
<1>1. t.events[k] \in EventRows
  BY DEF TableTypes
<1> QED
  BY <1>1 DEF EventRows

\* The session after a retry became due, and the tables likewise.
LEMMA RetryDueWrites ==
  ASSUME TypeOK, NEW k \in Events, RetryDue(k)
  PROVE  \E d, x \in EventRows :
           /\ d = [db.events[k] EXCEPT !.retry = "due"]
           /\ x = [tx.events[k] EXCEPT !.retry = "due"]
           /\ db' = [db EXCEPT !.events[k] = d]
           /\ tx' = [tx EXCEPT !.events[k] = x]
BY RetryIsWritten DEF RetryDue, TypeOK

\* The events of the signal that was sent again, after it.
LEMMA FinishSignalWrites ==
  ASSUME TypeOK, FinishSignal
  PROVE  /\ tx' \in TableTypes
         /\ tx'.status = tx.status /\ tx'.attempts = tx.attempts
         /\ tx'.signals = tx.signals
         /\ \A k \in Events :
              tx'.events[k] = IF k \in Mine /\ Untouched(k)
                              THEN [tx.events[k] EXCEPT !.retry = "never"]
                              ELSE tx.events[k]
<1> DEFINE E == [k \in Events |-> IF k \in Mine /\ Untouched(k)
                                 THEN [tx.events[k] EXCEPT !.retry = "never"]
                                 ELSE tx.events[k]]
<1>1. tx \in TableTypes
  BY DEF TypeOK
<1>2. ASSUME NEW k \in Events PROVE E[k] \in EventRows
  <2>1. tx.events[k] \in EventRows
    BY <1>1 DEF TableTypes
  <2> QED
    BY <2>1 DEF EventRows
<1>3. E \in [Events -> EventRows]
  BY <1>2
<1>4. tx' = [tx EXCEPT !.events = E]
  BY DEF FinishSignal
<1> HIDE DEF E
<1>5. /\ tx' \in TableTypes /\ tx'.events = E
      /\ tx'.status = tx.status /\ tx'.attempts = tx.attempts
      /\ tx'.signals = tx.signals
  BY <1>1, <1>3, <1>4 DEF TableTypes
<1> QED
  BY <1>5 DEF E

LEMMA WorldKeepsTypes ==
  ASSUME TypeOK, \/ Upload \/ Ingest \/ \E r \in Rules : EditRule(r)
                 \/ \E k \in Events : RetryDue(k)
  PROVE  TypeOK'
<1>1. CASE Upload
  BY <1>1 DEF Upload, TypeOK, loop
<1>2. CASE Ingest
  <2>1. Next1 \in Posts
    BY <1>2, AnalysisAssumption DEF Ingest
  <2>2. db' \in TableTypes /\ tx' \in TableTypes
    BY <1>2, <2>1 DEF Ingest, TypeOK, TableTypes
  <2> QED
    BY <1>2, <2>1, <2>2 DEF Ingest, TypeOK, loop
<1>3. ASSUME NEW r \in Rules, EditRule(r)
      PROVE  TypeOK'
  BY <1>3 DEF EditRule, TypeOK, loop
<1>4. ASSUME NEW k \in Events, RetryDue(k)
      PROVE  TypeOK'
  <2>1. db' \in TableTypes /\ tx' \in TableTypes
    BY <1>4, RetryDueWrites, EventIsWritten DEF TypeOK
  <2> QED
    BY <1>4, <2>1 DEF RetryDue, TypeOK, loop
<1> QED
  BY <1>1, <1>2, <1>3, <1>4

LEMMA RoundKeepsTypes ==
  ASSUME TypeOK, EventsInv, \/ SelectPending \/ Publish \/ CompletePost
                           \/ StartRetries \/ FinishSignal \/ CommitRetries
  PROVE  TypeOK'
<1>1. CASE SelectPending
  <2>1. FirstOf(Pending, Limit) \subseteq uploaded
    BY DEF FirstOf, Pending
  <2> QED
    BY <1>1, <2>1 DEF SelectPending, TypeOK
<1>2. CASE Publish
  <2>1. PICK r \in serving, e \in EventRows :
          /\ serving' = serving \ {r} /\ <<anchor, r>> \in Events
          /\ tx' = [tx EXCEPT !.events[<<anchor, r>>] = e]
          /\ \/ published' = [published EXCEPT ![<<anchor, r>>] = @ + 1]
             \/ published' = published
          /\ \/ unanswered' = [unanswered EXCEPT ![<<anchor, r>>] = @ + 1]
             \/ unanswered' = unanswered
    BY <1>2, PublishWritesOne
  <2>2. tx' \in TableTypes /\ serving' \subseteq Rules
    BY <2>1, EventIsWritten DEF TypeOK
  <2>3. published' \in [Events -> Nat] /\ unanswered' \in [Events -> Nat]
    BY <2>1 DEF TypeOK
  <2> QED
    BY <1>2, <2>2, <2>3 DEF Publish, TypeOK
<1>3. CASE CompletePost
  <2>1. Completed(current) \in TableTypes
    BY DEF Completed, TypeOK, TableTypes
  <2> QED
    BY <1>3, <2>1 DEF CompletePost, TypeOK
<1>4. CASE StartRetries
  <2>1. DueEvents \subseteq Events
    BY DEF DueEvents
  <2> QED
    BY <1>4, <2>1 DEF StartRetries, TypeOK, InTransaction
<1>5. CASE FinishSignal
  <2>1. tx' \in TableTypes
    BY <1>5, FinishSignalWrites
  <2> QED
    BY <1>5, <2>1 DEF FinishSignal, TypeOK, InTransaction
<1>6. CASE CommitRetries
  BY <1>6 DEF CommitRetries, TypeOK
<1> QED
  BY <1>1, <1>2, <1>3, <1>4, <1>5, <1>6

LEMMA RulesToServe ==
  ASSUME TypeOK, NEW p \in Posts, NEW t, Dispatch(p, t)
  PROVE  anchor' \in Posts /\ serving' \subseteq Rules
BY AnchorOfAnchor DEF Dispatch, Eligible, TypeOK

LEMMA PostKeepsTypes ==
  ASSUME TypeOK, NEW p \in Posts,
         \/ AlreadyAnalysed(p) \/ AnalysisFails(p) \/ Analyse(p)
         \/ FlushRefused(p) \/ RetrySignal(p)
  PROVE  TypeOK'
<1>1. CASE AlreadyAnalysed(p)
  <2>1. Completed(p) \in TableTypes
    BY MarkIsWritten DEF Completed, TypeOK
  <2> QED
    BY <1>1, <2>1 DEF AlreadyAnalysed, TypeOK
<1>2. CASE AnalysisFails(p)
  <2>1. tx' \in TableTypes
    BY <1>2, FailureIsWritten DEF AnalysisFails, TypeOK
  <2> QED
    BY <1>2, <2>1 DEF AnalysisFails, TypeOK
<1>3. CASE Analyse(p)
  <2>1. tx' \in TableTypes
    BY <1>3, SignalIsWritten DEF Analyse, TypeOK
  <2>2. anchor' \in Posts /\ serving' \subseteq Rules
    BY <1>3, RulesToServe DEF Analyse
  <2> QED
    BY <1>3, <2>1, <2>2 DEF Analyse, TypeOK, InTransaction
<1>4. CASE FlushRefused(p)
  BY <1>4 DEF FlushRefused, LoopEnds, TypeOK
<1>5. CASE RetrySignal(p)
  <2>1. anchor' \in Posts /\ serving' \subseteq Rules
    BY <1>5, RulesToServe DEF RetrySignal
  <2> QED
    BY <1>5, <2>1 DEF RetrySignal, TypeOK, InTransaction
<1> QED
  BY <1>1, <1>2, <1>3, <1>4, <1>5

LEMMA FaultKeepsTypes ==
  ASSUME TypeOK, DatabaseFails \/ Restart
  PROVE  TypeOK'
<1>1. faults' \in 0..MaxFaults
  BY AnalysisAssumption DEF DatabaseFails, Restart, TypeOK
<1> QED
  BY <1>1 DEF DatabaseFails, Restart, LoopEnds, TypeOK

-----------------------------------------------------------------------------
(* The outcome of posts.                                                   *)

\* Whatever leaves the posts alone in the tables, and the post in work.
LEMMA EventsLeavePosts ==
  ASSUME PostsInv, uploaded' = uploaded, rows' = rows, current' = current,
         (phase = "publish") <=> (phase' = "publish"),
         db'.status = db.status, db'.attempts = db.attempts, db'.signals = db.signals,
         tx'.status = tx.status, tx'.attempts = tx.attempts, tx'.signals = tx.signals
  PROVE  PostsInv'
<1>1. NumberedByArrival'
  BY DEF PostsInv, NumberedByArrival
<1>2. NothingBeforeArrival(db)' /\ NothingBeforeArrival(tx)'
  BY DEF PostsInv, NothingBeforeArrival
<1>3. (\A p \in rows : tx.status[p] = "pending")'
  BY DEF PostsInv
<1>4. (phase = "publish" => current \in rows \cap tx.signals)'
  BY DEF PostsInv
<1>5. Outcome(db, {})' /\ Outcome(tx, InWork)'
  BY DEF PostsInv, Outcome, InWork
<1> QED
  BY <1>1, <1>2, <1>3, <1>4, <1>5 DEF PostsInv

LEMMA ArrivalKeepsPosts ==
  ASSUME TypeOK, PostsInv, Upload \/ Ingest
  PROVE  PostsInv'
<1>1. Next1 \in Posts /\ Next1 \notin uploaded /\ uploaded' = uploaded \cup {Next1}
  BY NextIsNew, AnalysisAssumption DEF PostsInv, Upload, Ingest
<1>2. NumberedByArrival'
  <2>1. IsFiniteSet(uploaded) /\ Cardinality(uploaded) \in Nat
    BY AnalysisAssumption, FS_Subset, FS_CardinalityType DEF TypeOK
  <2>2. Cardinality(uploaded') = Cardinality(uploaded) + 1
    BY <1>1, <2>1, FS_AddElement
  <2>3. uploaded = 1..Cardinality(uploaded)
    BY DEF PostsInv, NumberedByArrival
  <2>4. uploaded' = 1..(Cardinality(uploaded) + 1)
    <3> DEFINE n == Cardinality(uploaded)
    <3>1. n \in Nat /\ uploaded' = (1..n) \cup {n + 1}
      BY <1>1, <2>1, <2>3 DEF Next1
    <3> HIDE DEF n
    <3>2. (1..n) \cup {n + 1} = 1..(n + 1)
      BY <3>1
    <3> QED
      BY <3>1, <3>2 DEF n
  <2> QED
    BY <2>2, <2>4 DEF NumberedByArrival
<1>3. Next1 \notin rows
  BY <1>1 DEF TypeOK
<1>4. ASSUME NEW t \in {db, tx}, NEW u \in TableTypes,
             u.status = t.status, u.attempts = t.attempts,
             u.signals \in {t.signals, t.signals \cup {Next1}}
      PROVE  /\ \A p \in Posts \ uploaded' :
                  u.status[p] = "pending" /\ u.attempts[p] = 0 /\ p \notin u.signals
             /\ \A D \in SUBSET Posts : Outcome(t, D) => Outcome(u, D)
  <2>1. t.status[Next1] = "pending" /\ t.attempts[Next1] = 0
    BY <1>1 DEF PostsInv, NothingBeforeArrival
  <2>2. NothingBeforeArrival(t)
    BY DEF PostsInv
  <2> QED
    BY <1>1, <1>4, <2>1, <2>2 DEF NothingBeforeArrival, Outcome
<1>5. /\ db'.status = db.status /\ db'.attempts = db.attempts
      /\ db'.signals \in {db.signals, db.signals \cup {Next1}}
      /\ tx'.status = tx.status /\ tx'.attempts = tx.attempts
      /\ tx'.signals \in {tx.signals, tx.signals \cup {Next1}}
      /\ phase' = phase /\ rows' = rows /\ current' = current
  BY DEF Upload, Ingest, loop, TypeOK, TableTypes
<1>6. db' \in TableTypes /\ tx' \in TableTypes
  BY WorldKeepsTypes DEF TypeOK
<1>7. InWork \in SUBSET Posts /\ InWork' = InWork
  BY <1>5 DEF InWork, PostsInv, TypeOK
<1>8. NothingBeforeArrival(db)' /\ NothingBeforeArrival(tx)'
  BY <1>4, <1>5, <1>6 DEF NothingBeforeArrival
<1>9. Outcome(db, {})' /\ Outcome(tx, InWork)'
  BY <1>4, <1>5, <1>6, <1>7 DEF PostsInv, Outcome
<1> QED
  BY <1>2, <1>5, <1>8, <1>9 DEF PostsInv

LEMMA RoundKeepsPosts ==
  ASSUME TypeOK, PostsInv, EventsInv, SelectPending \/ CompletePost \/ CommitRetries
  PROVE  PostsInv'
<1>1. CASE SelectPending
  <2>1. tx = db
    BY <1>1 DEF SelectPending, EventsInv, CommittedBetween
  <2>2. FirstOf(Pending, Limit) \subseteq {p \in Posts : tx.status[p] = "pending"}
    BY <2>1 DEF FirstOf, Pending, TypeOK
  <2>3. (\A p \in rows : tx.status[p] = "pending")'
    BY <1>1, <2>2 DEF SelectPending
  <2>4. Outcome(db, {})' /\ Outcome(tx, InWork)'
    BY <1>1 DEF SelectPending, PostsInv, Outcome, InWork
  <2> QED
    BY <1>1, <2>3, <2>4
    DEF SelectPending, PostsInv, NumberedByArrival, NothingBeforeArrival
<1>2. CASE CompletePost
  <2>1. /\ current \in Posts /\ current \in uploaded /\ current \in tx.signals
        /\ current \in rows
    BY <1>2 DEF CompletePost, PostsInv, TypeOK
  <2>2. /\ tx'.attempts = tx.attempts /\ tx'.signals = tx.signals
        /\ \A q \in Posts :
             tx'.status[q] = IF q = current THEN "completed" ELSE tx.status[q]
    <3>1. tx \in TableTypes /\ tx' = [tx EXCEPT !.status[current] = "completed"]
      BY <1>2 DEF CompletePost, Completed, TypeOK
    <3> QED
      BY <2>1, <3>1 DEF TableTypes
  <2>3. db' = tx' /\ rows' = rows \ {current} /\ phase' = "batch" /\ uploaded' = uploaded
    BY <1>2 DEF CompletePost
  <2>4. NothingBeforeArrival(tx)'
    BY <2>1, <2>2, <2>3 DEF PostsInv, NothingBeforeArrival
  <2>5. Outcome(tx, {})'
    BY <1>2, <2>1, <2>2, <2>3 DEF CompletePost, PostsInv, Outcome, InWork
  <2>6. (\A p \in rows : tx.status[p] = "pending")'
    BY <2>2, <2>3 DEF PostsInv, TypeOK
  <2> QED
    BY <2>1, <2>3, <2>4, <2>5, <2>6
    DEF PostsInv, NumberedByArrival, NothingBeforeArrival, Outcome, InWork
<1>3. CASE CommitRetries
  BY <1>3 DEF CommitRetries, PostsInv, NumberedByArrival, NothingBeforeArrival,
              Outcome, InWork
<1> QED
  BY <1>1, <1>2, <1>3

LEMMA LoopEndKeepsPosts ==
  ASSUME PostsInv, UNCHANGED <<uploaded, db>>, NEW to, to # "publish", LoopEnds(to)
  PROVE  PostsInv'
BY DEF LoopEnds, PostsInv, NumberedByArrival, NothingBeforeArrival, Outcome, InWork

LEMMA PostKeepsPosts ==
  ASSUME TypeOK, PostsInv, NEW p \in Posts,
         AlreadyAnalysed(p) \/ AnalysisFails(p) \/ Analyse(p)
  PROVE  PostsInv'
<1>1. phase = "batch" /\ p \in rows /\ p \in uploaded /\ tx.status[p] = "pending"
  <2>1. rows # {} /\ rows \in SUBSET Nat /\ p = Least(rows) /\ phase = "batch"
    BY AnalysisAssumption DEF AlreadyAnalysed, AnalysisFails, Analyse, Visit, TypeOK
  <2> QED
    BY <2>1, LeastIsMember DEF TypeOK, PostsInv
<1>2. CASE AlreadyAnalysed(p)
  <2>1. /\ tx'.attempts = tx.attempts /\ tx'.signals = tx.signals
        /\ \A q \in Posts :
             tx'.status[q] = IF q = p THEN "completed" ELSE tx.status[q]
    <3>1. tx \in TableTypes /\ tx' = [tx EXCEPT !.status[p] = "completed"]
      BY <1>2 DEF AlreadyAnalysed, Completed, TypeOK
    <3> QED
      BY <3>1 DEF TableTypes
  <2>2. /\ db' = db /\ rows' = rows \ {p} /\ phase' = "batch" /\ uploaded' = uploaded
        /\ p \in tx.signals
    BY <1>1, <1>2 DEF AlreadyAnalysed
  <2>3. NothingBeforeArrival(tx)' /\ NothingBeforeArrival(db)'
    BY <1>1, <2>1, <2>2 DEF PostsInv, NothingBeforeArrival
  <2>4. Outcome(tx, {})' /\ Outcome(db, {})'
    BY <1>1, <2>1, <2>2 DEF PostsInv, Outcome, InWork
  <2>5. (\A q \in rows : tx.status[q] = "pending")'
    BY <2>1, <2>2 DEF PostsInv, TypeOK
  <2> QED
    BY <2>2, <2>3, <2>4, <2>5 DEF PostsInv, NumberedByArrival, Outcome, InWork
<1>3. CASE AnalysisFails(p)
  <2>1. /\ tx'.signals = tx.signals
        /\ \A q \in Posts :
             /\ tx'.status[q] = IF q = p THEN "failed" ELSE tx.status[q]
             /\ tx'.attempts[q] = IF q = p THEN tx.attempts[q] + 1 ELSE tx.attempts[q]
    <3>1. /\ tx \in TableTypes
          /\ tx' = [tx EXCEPT !.status[p] = "failed", !.attempts[p] = @ + 1]
      BY <1>3 DEF AnalysisFails, TypeOK
    <3> QED
      BY <3>1 DEF TableTypes
  <2>2. /\ db' = tx' /\ rows' = rows \ {p} /\ phase' = "batch" /\ uploaded' = uploaded
        /\ p \notin tx.signals
    BY <1>1, <1>3 DEF AnalysisFails
  <2>3. NothingBeforeArrival(tx)'
    BY <1>1, <2>1, <2>2 DEF PostsInv, NothingBeforeArrival
  <2>4. Outcome(tx, {})'
    BY <1>1, <2>1, <2>2 DEF PostsInv, Outcome, InWork
  <2>5. (\A q \in rows : tx.status[q] = "pending")'
    BY <2>1, <2>2 DEF PostsInv, TypeOK
  <2> QED
    BY <2>2, <2>3, <2>4, <2>5
    DEF PostsInv, NumberedByArrival, NothingBeforeArrival, Outcome, InWork
<1>4. CASE Analyse(p)
  <2>1. /\ tx'.status = tx.status /\ tx'.signals = tx.signals \cup {p}
        /\ \A q \in Posts :
             tx'.attempts[q] = IF q = p THEN tx.attempts[q] + 1 ELSE tx.attempts[q]
    <3>1. /\ tx \in TableTypes
          /\ tx' = [tx EXCEPT !.signals = @ \cup {p}, !.attempts[p] = @ + 1]
      BY <1>4 DEF Analyse, TypeOK
    <3> QED
      BY <3>1 DEF TableTypes
  <2>2. /\ db' = db /\ rows' = rows /\ phase' = "publish" /\ uploaded' = uploaded
        /\ current' = p
    BY <1>4 DEF Analyse
  <2>3. NothingBeforeArrival(tx)' /\ NothingBeforeArrival(db)'
    BY <1>1, <2>1, <2>2 DEF PostsInv, NothingBeforeArrival
  <2>4. Outcome(tx, {p})' /\ Outcome(db, {})'
    BY <1>1, <2>1, <2>2 DEF PostsInv, Outcome, InWork
  <2>5. (\A q \in rows : tx.status[q] = "pending")'
    BY <2>1, <2>2 DEF PostsInv, TypeOK
  <2> QED
    BY <1>1, <2>1, <2>2, <2>3, <2>4, <2>5 DEF PostsInv, NumberedByArrival, Outcome, InWork
<1> QED
  BY <1>2, <1>3, <1>4

LEMMA StepKeepsPosts ==
  ASSUME TypeOK, PostsInv, EventsInv, [Next]_vars
  PROVE  PostsInv'
<1>1. CASE Upload \/ Ingest
  BY <1>1, ArrivalKeepsPosts
<1>2. ASSUME NEW r \in Rules, EditRule(r)
      PROVE  PostsInv'
  BY <1>2, EventsLeavePosts DEF EditRule, loop
<1>3. ASSUME NEW k \in Events, RetryDue(k)
      PROVE  PostsInv'
  <2>1. PICK d, x \in EventRows : db' = [db EXCEPT !.events[k] = d]
                               /\ tx' = [tx EXCEPT !.events[k] = x]
    BY <1>3, RetryDueWrites
  <2>2. /\ db'.status = db.status /\ db'.attempts = db.attempts /\ db'.signals = db.signals
        /\ tx'.status = tx.status /\ tx'.attempts = tx.attempts /\ tx'.signals = tx.signals
    BY <2>1, EventIsWritten DEF TypeOK
  <2> QED
    BY <1>3, <2>2, EventsLeavePosts DEF RetryDue, loop
<1>4. CASE Publish
  <2>1. PICK k \in Events, e \in EventRows : tx' = [tx EXCEPT !.events[k] = e]
    BY <1>4, PublishWritesOne
  <2>2. tx'.status = tx.status /\ tx'.attempts = tx.attempts /\ tx'.signals = tx.signals
    BY <2>1, EventIsWritten DEF TypeOK
  <2> QED
    BY <1>4, <2>2, EventsLeavePosts DEF Publish
<1>5. CASE SelectPending \/ CompletePost \/ CommitRetries
  BY <1>5, RoundKeepsPosts
<1>6. CASE StartRetries
  BY <1>6, EventsLeavePosts DEF StartRetries
<1>7. CASE FinishSignal
  BY <1>7, FinishSignalWrites, EventsLeavePosts DEF FinishSignal
<1>8. ASSUME NEW p \in Posts, AlreadyAnalysed(p) \/ AnalysisFails(p) \/ Analyse(p)
      PROVE  PostsInv'
  BY <1>8, PostKeepsPosts
<1>9. ASSUME NEW p \in Posts, RetrySignal(p)
      PROVE  PostsInv'
  BY <1>9, EventsLeavePosts DEF RetrySignal
<1>10. ASSUME NEW p \in Posts, FlushRefused(p)
       PROVE  PostsInv'
  BY <1>10, LoopEndKeepsPosts DEF FlushRefused
<1>11. CASE DatabaseFails \/ Restart
  BY <1>11, LoopEndKeepsPosts DEF DatabaseFails, Restart
<1>12. CASE UNCHANGED vars
  BY <1>12, EventsLeavePosts DEF vars, loop
<1> QED
  BY <1>1, <1>2, <1>3, <1>4, <1>5, <1>6, <1>7, <1>8, <1>9, <1>10, <1>11, <1>12
  DEF Next, LoopStep

-----------------------------------------------------------------------------
(* The records of notifications.                                           *)

LEMMA WarrantedStays ==
  ASSUME NEW k, NEW t, NEW u, t.signals \subseteq u.signals, Warranted(k, t)
  PROVE  Warranted(k, u)
BY DEF Warranted

\* Whatever leaves the events alone, and the rules being served.
LEMMA PostsLeaveEvents ==
  ASSUME EventsInv,
         phase' = phase, current' = current, anchor' = anchor,
         serving' = serving, due' = due,
         published' = published, unanswered' = unanswered, faults' = faults,
         everDisabled \subseteq everDisabled',
         db'.events = db.events, tx'.events = tx.events,
         db.signals \subseteq db'.signals, tx.signals \subseteq tx'.signals,
         phase \in {"idle", "dead"} => tx' = db'
  PROVE  EventsInv'
<1>1. CommittedBetween'
  BY DEF EventsInv, CommittedBetween
<1>2. EventRecords(db)' /\ EventRecords(tx)'
  BY DEF EventsInv, EventRecords
<1>3. EventsWarranted(db)' /\ EventsWarranted(tx)'
  BY DEF EventsInv, EventsWarranted, Warranted
<1>4. ServingWarranted'
  BY DEF EventsInv, ServingWarranted, Warranted
<1>5. NotGivenUp(db)' /\ NotGivenUp(tx)'
  BY DEF EventsInv, NotGivenUp
<1>6. RoundOfRetries'
  BY DEF EventsInv, RoundOfRetries
<1>7. SentIsKept' /\ AttemptedOnce' /\ PublishedIsRecorded'
  BY DEF EventsInv, SentIsKept, AttemptedOnce, PublishedIsRecorded
<1> QED
  BY <1>1, <1>2, <1>3, <1>4, <1>5, <1>6, <1>7 DEF EventsInv

\* Whatever commits, or starts a round, between two signals.
LEMMA BetweenSignalsEventsStay ==
  ASSUME EventsInv, phase' \notin {"publish", "republish"},
         phase' = "retry" => phase = "batch" /\ due' \subseteq DueEvents,
         published' = published, unanswered' = unanswered, faults' = faults,
         everDisabled' = everDisabled,
         tx'.events = tx.events, tx.signals \subseteq tx'.signals,
         \/ db'.events = db.events /\ db.signals \subseteq db'.signals
         \/ db'.events = tx.events /\ tx.signals \subseteq db'.signals,
         phase' \notin InTransaction => tx'.events = db'.events,
         phase' \in {"idle", "dead"} => tx' = db',
         phase' = "retry" => db' = db
  PROVE  EventsInv'
<1>1. CommittedBetween'
  BY DEF CommittedBetween
<1>2. EventRecords(db)' /\ EventRecords(tx)'
  BY DEF EventsInv, EventRecords
<1>3. EventsWarranted(db)' /\ EventsWarranted(tx)'
  BY DEF EventsInv, EventsWarranted, Warranted
<1>4. ServingWarranted'
  BY DEF ServingWarranted
<1>5. NotGivenUp(db)' /\ NotGivenUp(tx)'
  BY DEF EventsInv, NotGivenUp
<1>6. RoundOfRetries'
  <2>1. ASSUME phase' = "retry" PROVE RoundOfRetries'
    BY <2>1 DEF EventsInv, RoundOfRetries, CommittedBetween, InTransaction, DueEvents
  <2> QED
    BY <2>1 DEF RoundOfRetries
<1>7. SentIsKept' /\ AttemptedOnce' /\ PublishedIsRecorded'
  BY DEF EventsInv, SentIsKept, AttemptedOnce, PublishedIsRecorded
<1> QED
  BY <1>1, <1>2, <1>3, <1>4, <1>5, <1>6, <1>7 DEF EventsInv

LEMMA RoundKeepsEvents ==
  ASSUME TypeOK, PostsInv, EventsInv,
         SelectPending \/ CompletePost \/ StartRetries \/ CommitRetries
  PROVE  EventsInv'
<1>1. CASE SelectPending
  BY <1>1, BetweenSignalsEventsStay
  DEF SelectPending, EventsInv, CommittedBetween, InTransaction
<1>2. CASE CompletePost
  <2>1. tx'.events = tx.events /\ tx'.signals = tx.signals
    BY <1>2 DEF CompletePost, Completed, TypeOK, TableTypes
  <2>2. db' = tx' /\ phase' = "batch" /\ phase = "publish"
    BY <1>2 DEF CompletePost
  <2>3. db'.events = tx.events /\ db'.signals = tx.signals
    BY <2>1, <2>2
  <2> QED
    BY <1>2, <2>1, <2>2, <2>3, BetweenSignalsEventsStay DEF CompletePost, InTransaction
<1>3. CASE StartRetries
  <2>1. due' \subseteq DueEvents
    BY <1>3 DEF StartRetries
  <2> QED
    BY <1>3, <2>1, BetweenSignalsEventsStay DEF StartRetries, InTransaction
<1>4. CASE CommitRetries
  BY <1>4, BetweenSignalsEventsStay DEF CommitRetries, InTransaction
<1> QED
  BY <1>1, <1>2, <1>3, <1>4

\* A rollback takes the session back to what is committed.
LEMMA LoopEndKeepsEvents ==
  ASSUME TypeOK, EventsInv, NEW to \in {"idle", "dead"}, LoopEnds(to),
         UNCHANGED <<db, published, unanswered, everDisabled>>,
         \/ faults' = faults /\ phase = "batch"
         \/ faults' = faults + 1
  PROVE  EventsInv'
<1>1. CommittedBetween'
  BY DEF CommittedBetween, LoopEnds
<1>2. EventRecords(db)' /\ EventRecords(tx)'
  BY DEF EventsInv, EventRecords, LoopEnds
<1>3. EventsWarranted(db)' /\ EventsWarranted(tx)'
  BY DEF EventsInv, EventsWarranted, Warranted, LoopEnds
<1>4. ServingWarranted' /\ RoundOfRetries'
  BY DEF ServingWarranted, RoundOfRetries, LoopEnds
<1>5. NotGivenUp(db)' /\ NotGivenUp(tx)'
  BY DEF EventsInv, NotGivenUp, LoopEnds
<1>6. SentIsKept' /\ AttemptedOnce'
  BY DEF SentIsKept, AttemptedOnce, LoopEnds
<1>7. PublishedIsRecorded'
  <2>1. CASE faults' = faults /\ phase = "batch"
    BY <2>1 DEF EventsInv, PublishedIsRecorded, CommittedBetween, InTransaction, LoopEnds
  <2>2. CASE faults' = faults + 1
    <3>1. ASSUME NEW k \in Events
          PROVE  /\ published[k] <= faults + unanswered[k] + 1
                 /\ published[k] <= faults + db.events[k].attempts + 1
      <4>1. /\ tx.events[k] \in EventRows /\ db.events[k] \in EventRows
            /\ faults \in Nat /\ published[k] \in Nat /\ unanswered[k] \in Nat
        BY DEF TypeOK, TableTypes
      <4>2. tx.events[k].attempts <= db.events[k].attempts + 1
        BY <4>1 DEF EventsInv, AttemptedOnce, EventRows
      <4> QED
        BY <4>1, <4>2 DEF EventsInv, PublishedIsRecorded, EventRows
    <3>2. ASSUME NEW k \in Events
          PROVE  /\ db.events[k].attempts \in Nat
                 /\ faults \in Nat /\ published[k] \in Nat /\ unanswered[k] \in Nat
      BY DEF TypeOK, TableTypes, EventRows
    <3>3. tx' = db /\ UNCHANGED <<published, unanswered>>
      BY DEF LoopEnds
    <3> QED
      BY <2>2, <3>1, <3>2, <3>3 DEF PublishedIsRecorded
  <2> QED
    BY <2>1, <2>2
<1> QED
  BY <1>1, <1>2, <1>3, <1>4, <1>5, <1>6, <1>7 DEF EventsInv

\* Two more retries that are due, one for the session and one for the tables.
LEMMA RetryDueKeepsEvents ==
  ASSUME TypeOK, EventsInv, NEW k \in Events, RetryDue(k)
  PROVE  EventsInv'
<1>1. PICK d, x \in EventRows :
        /\ d = [db.events[k] EXCEPT !.retry = "due"]
        /\ x = [tx.events[k] EXCEPT !.retry = "due"]
        /\ db' = [db EXCEPT !.events[k] = d] /\ tx' = [tx EXCEPT !.events[k] = x]
  BY RetryDueWrites
<1>2. /\ db.events[k] \in EventRows /\ tx.events[k] \in EventRows
      /\ db.events[k].retry = "later" /\ phase \notin InTransaction
      /\ tx.events = db.events
  BY DEF RetryDue, TypeOK, TableTypes, EventsInv, CommittedBetween
<1>3. /\ d.status = "failed" /\ d.retry = "due" /\ d.attempts = db.events[k].attempts
      /\ db.events[k].status = "failed" /\ d.attempts < MaxAttempts
      /\ x = d
  BY <1>1, <1>2 DEF EventRows, EventsInv, EventRecords
<1>4. /\ db'.signals = db.signals /\ tx'.signals = tx.signals
      /\ \A j \in Events : db'.events[j] = IF j = k THEN d ELSE db.events[j]
      /\ \A j \in Events : tx'.events[j] = IF j = k THEN x ELSE tx.events[j]
      /\ tx'.events = db'.events
  BY <1>1, <1>2, <1>3 DEF TypeOK, TableTypes
<1>5. phase' \notin {"publish", "republish", "retry"} /\ phase' = phase
  BY DEF RetryDue, loop, InTransaction
<1>6. CommittedBetween'
  <2>1. phase' \in {"idle", "dead"} => tx' = db'
    BY <1>1, <1>3, <1>5 DEF EventsInv, CommittedBetween
  <2> QED
    BY <1>4, <2>1 DEF CommittedBetween
<1>7. EventRecords(db)' /\ EventRecords(tx)'
  BY <1>3, <1>4 DEF EventsInv, EventRecords
<1>8. EventsWarranted(db)' /\ EventsWarranted(tx)'
  BY <1>2, <1>3, <1>4 DEF EventsInv, EventsWarranted, Warranted
<1>9. ServingWarranted' /\ RoundOfRetries'
  BY <1>5 DEF ServingWarranted, RoundOfRetries
<1>10. NotGivenUp(db)' /\ NotGivenUp(tx)'
  BY <1>3, <1>4 DEF EventsInv, NotGivenUp, RetryDue
<1>11. SentIsKept' /\ AttemptedOnce' /\ PublishedIsRecorded'
  BY <1>2, <1>3, <1>4 DEF EventsInv, SentIsKept, AttemptedOnce, PublishedIsRecorded, RetryDue
<1> QED
  BY <1>6, <1>7, <1>8, <1>9, <1>10, <1>11 DEF EventsInv

\* The rules that dispatch_notifications serves are those that have a right to
\* it and were not served.
LEMMA DispatchIsWarranted ==
  ASSUME TypeOK, NEW p \in Posts, NEW t, p \in t.signals, Dispatch(p, t)
  PROVE  /\ anchor' \in Posts /\ anchor' = Anchor(p) /\ Anchor(anchor') = anchor'
         /\ \A r \in serving' : /\ Warranted(<<anchor', r>>, t)
                                /\ Attempted(t.events[<<anchor', r>>])
<1>1. /\ anchor' = Anchor(p) /\ Anchor(p) \in Posts /\ Anchor(Anchor(p)) = Anchor(p)
      /\ Members(Anchor(p)) = Members(p) /\ Batch[Anchor(p)] = Batch[p]
  BY AnchorOfAnchor DEF Dispatch
<1>2. ASSUME NEW r \in serving'
      PROVE  /\ Warranted(<<Anchor(p), r>>, t)
             /\ Attempted(t.events[<<Anchor(p), r>>])
  <2>1. Ready(p, t) /\ r \in Eligible(p) /\ Attempted(t.events[<<Anchor(p), r>>])
    BY <1>2 DEF Dispatch
  <2>2. Members(p) \subseteq t.signals /\ Batch[p] \notin Silent
    BY <2>1, AnalysisAssumption DEF Ready, Members
  <2>3. \E m \in Members(p) : <<m, r>> \in Wants
    BY <2>1 DEF Eligible
  <2> QED
    BY <1>1, <2>1, <2>2, <2>3 DEF Warranted
<1> QED
  BY <1>1, <1>2

LEMMA AnalyseKeepsEvents ==
  ASSUME TypeOK, EventsInv, NEW p \in Posts, Analyse(p)
  PROVE  EventsInv'
<1>1. /\ phase = "batch" /\ phase' = "publish" /\ current' = p
      /\ db' = db /\ published' = published /\ unanswered' = unanswered
      /\ faults' = faults
      /\ everDisabled' = everDisabled /\ Dispatch(p, tx')
  BY DEF Analyse, Visit
<1>2. tx'.events = tx.events /\ tx'.signals = tx.signals \cup {p}
  BY DEF Analyse, TypeOK, TableTypes
<1>3. CommittedBetween'
  BY <1>1 DEF CommittedBetween, InTransaction
<1>4. EventRecords(db)' /\ EventRecords(tx)'
  BY <1>1, <1>2 DEF EventsInv, EventRecords
<1>5. EventsWarranted(db)' /\ EventsWarranted(tx)'
  BY <1>1, <1>2 DEF EventsInv, EventsWarranted, Warranted
<1>6. ServingWarranted'
  <2>1. p \in tx'.signals
    BY <1>2
  <2> QED
    BY <1>1, <2>1, DispatchIsWarranted DEF ServingWarranted
<1>7. RoundOfRetries'
  BY <1>1 DEF RoundOfRetries
<1>8. NotGivenUp(db)' /\ NotGivenUp(tx)'
  BY <1>1, <1>2 DEF EventsInv, NotGivenUp
<1>9. SentIsKept' /\ AttemptedOnce' /\ PublishedIsRecorded'
  BY <1>1, <1>2 DEF EventsInv, SentIsKept, AttemptedOnce, PublishedIsRecorded
<1> QED
  BY <1>3, <1>4, <1>5, <1>6, <1>7, <1>8, <1>9 DEF EventsInv

\* Of the events that are due for a signal all are sent again, but those of
\* rules that were switched off.
LEMMA RetrySignalKeepsEvents ==
  ASSUME TypeOK, PostsInv, EventsInv, OwedInv, NEW p \in Posts, RetrySignal(p)
  PROVE  EventsInv'
<1>1. /\ phase = "retry" /\ phase' = "republish" /\ Dispatch(p, tx)
      /\ UNCHANGED <<db, tx, due, published, unanswered, faults, everDisabled, enabled>>
  BY DEF RetrySignal
<1>2. ASSUME NEW k \in due, k[1] = p
      PROVE  Warranted(k, tx) /\ Attempted(tx.events[k]) /\ tx.events[k] = db.events[k]
  <2>1. k \in Events /\ tx.events[k] = db.events[k] /\ db.events[k].status = "failed"
        /\ db.events[k].retry = "due"
    BY <1>1 DEF EventsInv, RoundOfRetries, TypeOK
  <2> QED
    BY <2>1 DEF EventsInv, EventsWarranted, Attempted
<1>3. p \in tx.signals /\ Anchor(p) = p
  BY <1>2, AnchorIsMember DEF RetrySignal, Warranted
<1>4. /\ anchor' \in Posts /\ anchor' = p /\ Anchor(p) = p
      /\ \A r \in serving' : Warranted(<<p, r>>, tx) /\ Attempted(tx.events[<<p, r>>])
  BY <1>1, <1>3, DispatchIsWarranted
<1>5. ServingWarranted'
  BY <1>1, <1>4 DEF ServingWarranted, Warranted
<1>6. ASSUME NEW k \in due, k[1] = p
      PROVE  k[2] \in serving' \cup everDisabled
  <2>1. k = <<p, k[2]>> /\ k[2] \in Rules
    BY <1>6 DEF TypeOK, Events
  <2>2. Members(p) \subseteq tx.signals /\ Batch[p] \notin Silent
    BY <1>2, <1>6 DEF Warranted
  <2>3. Members(p) \subseteq uploaded
    BY <2>2, AnchorIsMember DEF PostsInv, NothingBeforeArrival
  <2>4. Ready(p, tx)
    BY <2>2, <2>3 DEF Ready
  <2> QED
    BY <1>1, <1>2, <1>3, <1>6, <2>1, <2>4
    DEF Dispatch, Eligible, Warranted, OwedInv
<1>7. RoundOfRetries'
  BY <1>1, <1>4, <1>6 DEF EventsInv, RoundOfRetries
<1>8. CommittedBetween' /\ EventRecords(db)' /\ EventRecords(tx)'
  BY <1>1 DEF EventsInv, CommittedBetween, EventRecords, InTransaction
<1>9. EventsWarranted(db)' /\ EventsWarranted(tx)'
  BY <1>1 DEF EventsInv, EventsWarranted, Warranted
<1>10. NotGivenUp(db)' /\ NotGivenUp(tx)'
  BY <1>1 DEF EventsInv, NotGivenUp
<1>11. SentIsKept' /\ AttemptedOnce' /\ PublishedIsRecorded'
  BY <1>1 DEF EventsInv, SentIsKept, AttemptedOnce, PublishedIsRecorded
<1> QED
  BY <1>5, <1>7, <1>8, <1>9, <1>10, <1>11 DEF EventsInv

LEMMA FinishSignalKeepsEvents ==
  ASSUME TypeOK, EventsInv, FinishSignal
  PROVE  EventsInv'
<1>1. /\ phase = "republish" /\ phase' = "retry" /\ serving = {} /\ due' = due \ Mine
      /\ UNCHANGED <<db, published, unanswered, faults, everDisabled>>
  BY DEF FinishSignal
<1>2. /\ tx'.signals = tx.signals
      /\ \A k \in Events :
           tx'.events[k] = IF k \in Mine /\ Untouched(k)
                           THEN [tx.events[k] EXCEPT !.retry = "never"]
                           ELSE tx.events[k]
  BY FinishSignalWrites
<1>3. ASSUME NEW k \in Events, k \in Mine, Untouched(k)
      PROVE  /\ tx.events[k].status = "failed" /\ db.events[k].status = "failed"
             /\ k[2] \in everDisabled
  BY <1>1, <1>3 DEF Mine, Untouched, EventsInv, RoundOfRetries
<1>4. ASSUME NEW k \in Events
      PROVE  /\ tx'.events[k].status = tx.events[k].status
             /\ tx'.events[k].attempts = tx.events[k].attempts
             /\ tx'.events[k].retry # "never" => tx'.events[k] = tx.events[k]
  <2>1. tx.events[k] \in EventRows
    BY DEF TypeOK, TableTypes
  <2> QED
    BY <1>2, <2>1 DEF EventRows
<1>5. CommittedBetween'
  BY <1>1 DEF CommittedBetween, InTransaction
<1>6. EventRecords(db)' /\ EventRecords(tx)'
  BY <1>1, <1>4 DEF EventsInv, EventRecords
<1>7. EventsWarranted(db)' /\ EventsWarranted(tx)'
  BY <1>1, <1>2, <1>4 DEF EventsInv, EventsWarranted, Warranted
<1>8. ServingWarranted'
  BY <1>1 DEF ServingWarranted
<1>9. NotGivenUp(db)' /\ NotGivenUp(tx)'
  BY <1>1, <1>2, <1>3 DEF EventsInv, NotGivenUp
<1>10. RoundOfRetries'
  BY <1>1, <1>2 DEF EventsInv, RoundOfRetries, Mine, TypeOK
<1>11. SentIsKept' /\ PublishedIsRecorded'
  BY <1>1, <1>2, <1>3, <1>4 DEF EventsInv, SentIsKept, PublishedIsRecorded
<1>12. AttemptedOnce'
  <2>1. ASSUME NEW k \in Events
        PROVE  \/ tx'.events[k] = db.events[k]
               \/ /\ ~Attempted(tx'.events[k])
                  /\ tx'.events[k].attempts <= db.events[k].attempts + 1
    <3>1. CASE k \in Mine /\ Untouched(k)
      <4>1. tx'.events[k].retry = "never" /\ tx'.events[k].status = "failed"
        <5>1. tx.events[k] \in EventRows
          BY DEF TypeOK, TableTypes
        <5>2. [tx.events[k] EXCEPT !.retry = "never"].retry = "never"
          BY <5>1 DEF EventRows
        <5>3. tx'.events[k] = [tx.events[k] EXCEPT !.retry = "never"]
          BY <1>2, <3>1
        <5> QED
          BY <1>3, <1>4, <3>1, <5>2, <5>3
      <4>2. tx'.events[k].attempts = db.events[k].attempts
        BY <1>4, <3>1 DEF Untouched
      <4>3. db.events[k].attempts \in Nat
        BY DEF TypeOK, TableTypes, EventRows
      <4> QED
        BY <4>1, <4>2, <4>3 DEF Attempted
    <3>2. CASE ~(k \in Mine /\ Untouched(k))
      <4>1. tx'.events[k] = tx.events[k]
        BY <1>2, <3>2
      <4> QED
        BY <4>1 DEF EventsInv, AttemptedOnce
    <3> QED
      BY <3>1, <3>2
  <2> QED
    BY <1>1, <2>1 DEF AttemptedOnce
<1> QED
  BY <1>5, <1>6, <1>7, <1>8, <1>9, <1>10, <1>11, <1>12 DEF EventsInv

LEMMA PublishKeepsEvents ==
  ASSUME TypeOK, EventsInv, Publish
  PROVE  EventsInv'
<1>1. PICK r \in serving, e \in EventRows :
        /\ serving' = serving \ {r}
        /\ <<anchor, r>> \in Events
        /\ Warranted(<<anchor, r>>, tx)
        /\ Attempted(tx.events[<<anchor, r>>])
        /\ tx' = [tx EXCEPT !.events[<<anchor, r>>] = e]
        /\ e.attempts = tx.events[<<anchor, r>>].attempts + 1
        /\ \/ /\ e.status = "sent" /\ e.retry = "never"
              /\ published' = [published EXCEPT ![<<anchor, r>>] = @ + 1]
              /\ unanswered' = unanswered
           \/ /\ e = AfterFailure(e.attempts)
              /\ published' = published /\ unanswered' = unanswered
           \/ /\ e = AfterFailure(e.attempts)
              /\ published' = [published EXCEPT ![<<anchor, r>>] = @ + 1]
              /\ unanswered' = [unanswered EXCEPT ![<<anchor, r>>] = @ + 1]
  BY PublishWritesOne
<1> DEFINE k == <<anchor, r>>
<1>2. /\ phase \in {"publish", "republish"} /\ phase' = phase
      /\ UNCHANGED <<db, current, anchor, due, everDisabled, faults>>
  BY DEF Publish
<1>3. /\ tx'.signals = tx.signals
      /\ \A j \in Events : tx'.events[j] = IF j = k THEN e ELSE tx.events[j]
  BY <1>1 DEF TypeOK, TableTypes
<1>4. /\ tx.events[k].attempts \in Nat /\ tx.events[k].status # "sent"
      /\ e.attempts \in 1..MaxAttempts /\ e.status \in {"sent", "failed"}
  <2>1. tx.events[k] \in EventRows
    BY <1>1 DEF TypeOK, TableTypes
  <2>2. e.status \in {"sent", "failed"}
    BY <1>1 DEF AfterFailure
  <2> QED
    BY <1>1, <2>1, <2>2, AnalysisAssumption DEF EventRows, Attempted
<1>5. /\ e.retry # "never" => e.status = "failed" /\ e.attempts < MaxAttempts
      /\ e.status = "failed" /\ e.retry = "never" => e.attempts = MaxAttempts
  BY <1>1, <1>4, AnalysisAssumption DEF AfterFailure
<1>6. CommittedBetween'
  BY <1>2 DEF CommittedBetween, InTransaction
<1>7. EventRecords(db)' /\ EventRecords(tx)'
  BY <1>2, <1>3, <1>4, <1>5 DEF EventsInv, EventRecords
<1>8. EventsWarranted(db)' /\ EventsWarranted(tx)'
  BY <1>1, <1>2, <1>3 DEF EventsInv, EventsWarranted, Warranted
<1>9. ServingWarranted'
  <2>1. ASSUME NEW q \in serving'
        PROVE  Warranted(<<anchor, q>>, tx') /\ Attempted(tx'.events[<<anchor, q>>])
    <3>1. q \in serving /\ q # r /\ q \in Rules /\ anchor \in Posts
      BY <1>1, <1>2 DEF EventsInv, ServingWarranted, TypeOK
    <3>2. <<anchor, q>> \in Events /\ <<anchor, q>> # k
      BY <3>1 DEF Events
    <3> QED
      BY <1>2, <1>3, <3>1, <3>2 DEF EventsInv, ServingWarranted, Warranted
  <2> QED
    BY <1>2, <2>1 DEF EventsInv, ServingWarranted
<1>10. NotGivenUp(db)' /\ NotGivenUp(tx)'
  BY <1>2, <1>3, <1>5 DEF EventsInv, NotGivenUp
<1>11. RoundOfRetries'
  <2>1. ASSUME NEW j \in due, phase = "republish"
        PROVE  /\ db.events[j].status = "failed" /\ db.events[j].retry = "due"
               /\ \/ tx'.events[j] = db.events[j]
                  \/ j[1] = anchor /\ j[2] \notin serving'
               /\ j[1] = anchor =>
                    \/ j[2] \in serving' \cup everDisabled
                    \/ tx'.events[j].attempts # db.events[j].attempts
    <3>1. /\ j \in Events /\ j[1] \in Posts /\ j[2] \in Rules /\ j = <<j[1], j[2]>>
          /\ db.events[j].status = "failed" /\ db.events[j].retry = "due"
          /\ \/ tx.events[j] = db.events[j]
             \/ j[1] = anchor /\ j[2] \notin serving
          /\ j[1] = anchor =>
               \/ j[2] \in serving \cup everDisabled
               \/ tx.events[j].attempts # db.events[j].attempts
      BY <2>1 DEF EventsInv, RoundOfRetries, TypeOK, Events
    <3>2. CASE j = k
      <4>1. tx.events[k] = db.events[k]
        BY <3>1, <3>2
      <4> QED
        BY <1>1, <1>3, <1>4, <3>1, <3>2, <4>1
    <3>3. CASE j # k
      BY <1>1, <1>3, <3>1, <3>3
    <3> QED
      BY <3>2, <3>3
  <2> QED
    BY <1>2, <2>1 DEF RoundOfRetries
<1>12. SentIsKept'
  BY <1>2, <1>3, <1>4 DEF EventsInv, SentIsKept
<1>13. PublishedIsRecorded'
  <2>1. ASSUME NEW j \in Events
        PROVE  /\ published'[j] <= faults + unanswered'[j]
                                   + IF tx'.events[j].status = "sent" THEN 1 ELSE 0
               /\ published'[j] <= faults + tx'.events[j].attempts
    <3>1. /\ published[j] <= faults + unanswered[j]
                              + IF tx.events[j].status = "sent" THEN 1 ELSE 0
          /\ published[j] <= faults + tx.events[j].attempts
          /\ published[j] \in Nat /\ unanswered[j] \in Nat /\ faults \in Nat
      BY DEF EventsInv, PublishedIsRecorded, TypeOK
    <3>2. CASE j = k
      <4>1. \/ e.status = "sent" /\ published'[k] = published[k] + 1
               /\ unanswered'[k] = unanswered[k]
            \/ e.status # "sent" /\ published'[k] = published[k]
               /\ unanswered'[k] = unanswered[k]
            \/ e.status # "sent" /\ published'[k] = published[k] + 1
               /\ unanswered'[k] = unanswered[k] + 1
        BY <1>1 DEF TypeOK, AfterFailure
      <4>2. tx'.events[k] = e /\ e.attempts = tx.events[k].attempts + 1
        BY <1>1, <1>3
      <4> QED
        BY <1>4, <3>1, <3>2, <4>1, <4>2
    <3>3. CASE j # k
      <4>1. /\ published'[j] = published[j] /\ unanswered'[j] = unanswered[j]
            /\ tx'.events[j] = tx.events[j]
        BY <1>1, <1>3, <3>3 DEF TypeOK
      <4> QED
        BY <3>1, <4>1
    <3> QED
      BY <3>2, <3>3
  <2> QED
    BY <1>2, <2>1 DEF PublishedIsRecorded
<1>14. AttemptedOnce'
  <2>1. tx.events[k] = db.events[k]
    BY <1>1 DEF EventsInv, AttemptedOnce
  <2>2. ~Attempted(e)
    BY <1>1, <1>4 DEF Attempted, AfterFailure
  <2>3. e.attempts <= db.events[k].attempts + 1
    BY <1>1, <1>4, <2>1
  <2> QED
    BY <1>2, <1>3, <2>2, <2>3 DEF EventsInv, AttemptedOnce
<1> QED
  BY <1>6, <1>7, <1>8, <1>9, <1>10, <1>11, <1>12, <1>13, <1>14 DEF EventsInv

LEMMA StepKeepsEvents ==
  ASSUME TypeOK, PostsInv, EventsInv, OwedInv, [Next]_vars
  PROVE  EventsInv'
<1>1. CASE Upload
  BY <1>1, PostsLeaveEvents DEF Upload, loop, EventsInv, CommittedBetween
<1>2. CASE Ingest
  <2>1. /\ db'.events = db.events /\ db.signals \subseteq db'.signals
        /\ tx'.events = tx.events /\ tx.signals \subseteq tx'.signals
        /\ phase \in {"idle", "dead"} => tx' = db'
    BY <1>2 DEF Ingest, TypeOK, TableTypes, EventsInv, CommittedBetween
  <2> QED
    BY <1>2, <2>1, PostsLeaveEvents DEF Ingest, loop
<1>3. ASSUME NEW r \in Rules, EditRule(r)
      PROVE  EventsInv'
  BY <1>3, PostsLeaveEvents DEF EditRule, loop, EventsInv, CommittedBetween
<1>4. ASSUME NEW k \in Events, RetryDue(k)
      PROVE  EventsInv'
  BY <1>4, RetryDueKeepsEvents
<1>5. CASE SelectPending \/ CompletePost \/ StartRetries \/ CommitRetries
  BY <1>5, RoundKeepsEvents
<1>6. CASE Publish
  BY <1>6, PublishKeepsEvents
<1>7. CASE FinishSignal
  BY <1>7, FinishSignalKeepsEvents
<1>8. ASSUME NEW p \in Posts, AlreadyAnalysed(p)
      PROVE  EventsInv'
  <2>1. tx'.events = tx.events /\ tx'.signals = tx.signals
    BY <1>8 DEF AlreadyAnalysed, Completed, TypeOK, TableTypes
  <2>2. phase = "batch" /\ phase' = "batch" /\ db' = db
    BY <1>8 DEF AlreadyAnalysed, Visit
  <2>3. tx'.events = db'.events
    BY <2>1, <2>2 DEF EventsInv, CommittedBetween, InTransaction
  <2> QED
    BY <1>8, <2>1, <2>2, <2>3, BetweenSignalsEventsStay DEF AlreadyAnalysed, InTransaction
<1>9. ASSUME NEW p \in Posts, AnalysisFails(p)
      PROVE  EventsInv'
  <2>1. tx'.events = tx.events /\ tx'.signals = tx.signals
    BY <1>9 DEF AnalysisFails, TypeOK, TableTypes
  <2>2. phase = "batch" /\ phase' = "batch" /\ db' = tx'
    BY <1>9 DEF AnalysisFails, Visit
  <2> QED
    BY <1>9, <2>1, <2>2, BetweenSignalsEventsStay DEF AnalysisFails, InTransaction
<1>10. ASSUME NEW p \in Posts, Analyse(p)
       PROVE  EventsInv'
  BY <1>10, AnalyseKeepsEvents
<1>11. ASSUME NEW p \in Posts, RetrySignal(p)
       PROVE  EventsInv'
  BY <1>11, RetrySignalKeepsEvents
<1>12. ASSUME NEW p \in Posts, FlushRefused(p)
       PROVE  EventsInv'
  BY <1>12, LoopEndKeepsEvents DEF FlushRefused, Visit
<1>13. CASE DatabaseFails \/ Restart
  BY <1>13, LoopEndKeepsEvents DEF DatabaseFails, Restart
<1>14. CASE UNCHANGED vars
  BY <1>14, PostsLeaveEvents DEF vars, loop, EventsInv, CommittedBetween
<1> QED
  BY <1>1, <1>2, <1>3, <1>4, <1>5, <1>6, <1>7, <1>8, <1>9, <1>10, <1>11, <1>12,
     <1>13, <1>14
  DEF Next, LoopStep

-----------------------------------------------------------------------------
(* Owed notifications.                                                     *)

\* Whatever takes no right away and leaves the events on record.
LEMMA NothingMoreIsOwed ==
  ASSUME TypeOK, OwedInv,
         Rules \ everDisabled' \subseteq enabled', everDisabled \subseteq everDisabled',
         phase = "publish" => phase' = phase /\ anchor' = anchor /\ serving' = serving,
         \A p \in Posts, r \in Rules \ everDisabled' :
           /\ Owes(p, r, db') => Owes(p, r, db)
           /\ Owes(p, r, tx') => Owes(p, r, tx),
         \A k \in Events :
           /\ db.events[k].status # "none" => db'.events[k].status # "none"
           /\ tx.events[k].status # "none" => tx'.events[k].status # "none"
  PROVE  OwedInv'
<1>1. ASSUME NEW p \in Posts, NEW r \in Rules \ everDisabled'
      PROVE  /\ Owes(p, r, db') => db'.events[<<Anchor(p), r>>].status # "none"
             /\ Owes(p, r, tx') =>
                  \/ tx'.events[<<Anchor(p), r>>].status # "none"
                  \/ phase' = "publish" /\ anchor' = Anchor(p) /\ r \in serving'
  <2>1. <<Anchor(p), r>> \in Events
    BY AnchorOfAnchor DEF Events
  <2> QED
    BY <2>1 DEF OwedInv
<1> QED
  BY <1>1 DEF OwedInv

\* What the session owes when no signal is in work is on record, and stays so
\* when it is committed.
LEMMA CommitKeepsOwed ==
  ASSUME TypeOK, OwedInv, phase # "publish" \/ serving = {},
         UNCHANGED <<enabled, everDisabled>>,
         db' = tx',
         tx'.events = tx.events, tx'.signals = tx.signals,
         \A p \in Posts, r \in Rules : Owes(p, r, tx') => Owes(p, r, tx)
  PROVE  OwedInv'
BY DEF OwedInv

\* The attempt on a post owes what its batch lacked until then.
LEMMA AnalyseKeepsOwed ==
  ASSUME TypeOK, PostsInv, OwedInv, NEW p \in Posts, Analyse(p)
  PROVE  OwedInv'
<1>1. /\ phase = "batch" /\ phase' = "publish" /\ db' = db /\ uploaded' = uploaded
      /\ UNCHANGED <<enabled, everDisabled>> /\ Dispatch(p, tx')
      /\ p \in uploaded
  <2>1. rows \in SUBSET Nat
    BY AnalysisAssumption DEF TypeOK
  <2> QED
    BY <2>1, LeastIsMember DEF Analyse, Visit, TypeOK
<1>2. /\ tx'.events = tx.events /\ tx'.signals = tx.signals \cup {p}
      /\ \A q \in Posts :
           tx'.attempts[q] = IF q = p THEN tx.attempts[q] + 1 ELSE tx.attempts[q]
  <2>1. /\ tx \in TableTypes
        /\ tx' = [tx EXCEPT !.signals = @ \cup {p}, !.attempts[p] = @ + 1]
    BY DEF Analyse, TypeOK
  <2> QED
    BY <2>1 DEF TableTypes
<1>3. tx'.signals \subseteq uploaded
  BY <1>1, <1>2 DEF PostsInv, NothingBeforeArrival, TypeOK, TableTypes
<1>4. ASSUME NEW q \in Posts, NEW r \in Rules \ everDisabled, Owes(q, r, tx')
      PROVE  \/ tx'.events[<<Anchor(q), r>>].status # "none"
             \/ anchor' = Anchor(q) /\ r \in serving'
  <2>1. CASE p \in Members(q)
    <3>1. Members(p) = Members(q) /\ Anchor(p) = Anchor(q) /\ Batch[p] = Batch[q]
      BY <2>1, BatchIsOneSet, BatchHasOneAnchor
    <3>2. Ready(p, tx')
      BY <1>3, <1>4, <3>1 DEF Owes, Ready
    <3>3. r \in Eligible(p)
      BY <1>4, <3>1 DEF Owes, Eligible, OwedInv
    <3> QED
      BY <1>1, <3>1, <3>2, <3>3 DEF Dispatch, Attempted
  <2>2. CASE p \notin Members(q)
    <3>1. q # p
      BY <2>2, AnchorIsMember
    <3>2. Owes(q, r, tx)
      BY <1>2, <1>4, <2>2, <3>1 DEF Owes
    <3> QED
      BY <1>1, <1>2, <3>2 DEF OwedInv
  <2> QED
    BY <2>1, <2>2
<1> QED
  BY <1>1, <1>4 DEF OwedInv

LEMMA PublishKeepsOwed ==
  ASSUME TypeOK, EventsInv, OwedInv, Publish
  PROVE  OwedInv'
<1>1. PICK r \in serving, e \in EventRows :
        /\ serving' = serving \ {r} /\ <<anchor, r>> \in Events
        /\ tx' = [tx EXCEPT !.events[<<anchor, r>>] = e]
        /\ e.status = "sent" \/ e = AfterFailure(e.attempts)
  BY PublishWritesOne
<1>2. e.status # "none"
  BY <1>1 DEF AfterFailure
<1>3. /\ tx'.signals = tx.signals /\ tx'.attempts = tx.attempts
      /\ \A j \in Events :
           tx'.events[j] = IF j = <<anchor, r>> THEN e ELSE tx.events[j]
  BY <1>1 DEF TypeOK, TableTypes
<1>4. UNCHANGED <<db, phase, anchor, enabled, everDisabled>>
  BY DEF Publish
<1>5. ASSUME NEW q \in Posts, NEW x \in Rules \ everDisabled, Owes(q, x, tx')
      PROVE  \/ tx'.events[<<Anchor(q), x>>].status # "none"
             \/ phase' = "publish" /\ anchor' = Anchor(q) /\ x \in serving'
  <2>1. <<Anchor(q), x>> \in Events
    BY AnchorOfAnchor DEF Events
  <2>2. Owes(q, x, tx)
    BY <1>3, <1>5 DEF Owes
  <2> QED
    BY <1>1, <1>2, <1>3, <1>4, <2>1, <2>2 DEF OwedInv
<1> QED
  BY <1>4, <1>5 DEF OwedInv

LEMMA WorldKeepsOwed ==
  ASSUME TypeOK, PostsInv, OwedInv,
         \/ Upload \/ Ingest \/ \E r \in Rules : EditRule(r)
         \/ \E k \in Events : RetryDue(k)
  PROVE  OwedInv'
<1>1. CASE Upload
  BY <1>1, NothingMoreIsOwed DEF Upload, loop, OwedInv
<1>2. CASE Ingest
  <2>1. /\ Next1 \in Posts /\ Batch[Next1] = NoBatch /\ Next1 \notin uploaded
    BY <1>2, NextIsNew, AnalysisAssumption DEF Ingest, PostsInv
  <2>2. Members(Next1) = {Next1}
    BY <2>1 DEF Members
  <2>3. /\ db'.signals = db.signals \cup {Next1} /\ db'.attempts = db.attempts
        /\ tx'.signals = tx.signals \cup {Next1} /\ tx'.attempts = tx.attempts
        /\ db'.events = db.events /\ tx'.events = tx.events
    BY <1>2 DEF Ingest, TypeOK, TableTypes
  <2>4. ASSUME NEW q \in Posts, NEW r \in Rules
        PROVE  /\ Owes(q, r, db') => Owes(q, r, db)
               /\ Owes(q, r, tx') => Owes(q, r, tx)
    <3>1. CASE Next1 \in Members(q)
      <4>1. q = Next1
        BY <2>2, <3>1, BatchIsOneSet, AnchorIsMember
      <4> QED
        BY <2>1, <2>3, <4>1 DEF Owes, PostsInv, NothingBeforeArrival
    <3>2. CASE Next1 \notin Members(q)
      BY <2>3, <3>2 DEF Owes
    <3> QED
      BY <3>1, <3>2
  <2> QED
    BY <1>2, <2>3, <2>4, NothingMoreIsOwed DEF Ingest, loop, OwedInv
<1>3. ASSUME NEW r \in Rules, EditRule(r)
      PROVE  OwedInv'
  <2>1. /\ Rules \ everDisabled' \subseteq enabled' /\ everDisabled \subseteq everDisabled'
    BY <1>3 DEF EditRule, OwedInv
  <2> QED
    BY <1>3, <2>1, NothingMoreIsOwed DEF EditRule, loop
<1>4. ASSUME NEW k \in Events, RetryDue(k)
      PROVE  OwedInv'
  <2>1. PICK d, x \in EventRows :
          /\ d = [db.events[k] EXCEPT !.retry = "due"]
          /\ x = [tx.events[k] EXCEPT !.retry = "due"]
          /\ db' = [db EXCEPT !.events[k] = d] /\ tx' = [tx EXCEPT !.events[k] = x]
    BY <1>4, RetryDueWrites
  <2>2. d.status = db.events[k].status /\ x.status = tx.events[k].status
    BY <2>1 DEF TypeOK, TableTypes, EventRows
  <2>3. /\ db'.signals = db.signals /\ db'.attempts = db.attempts
        /\ tx'.signals = tx.signals /\ tx'.attempts = tx.attempts
        /\ \A j \in Events : /\ db'.events[j].status = db.events[j].status
                             /\ tx'.events[j].status = tx.events[j].status
    BY <2>1, <2>2 DEF TypeOK, TableTypes
  <2>4. \A q \in Posts, r \in Rules : /\ Owes(q, r, db') => Owes(q, r, db)
                                      /\ Owes(q, r, tx') => Owes(q, r, tx)
    BY <2>3 DEF Owes
  <2> QED
    BY <1>4, <2>3, <2>4, NothingMoreIsOwed DEF RetryDue, loop, OwedInv
<1> QED
  BY <1>1, <1>2, <1>3, <1>4

LEMMA CommitsKeepOwed ==
  ASSUME TypeOK, PostsInv, OwedInv,
         CompletePost \/ CommitRetries \/ \E p \in Posts : AnalysisFails(p)
  PROVE  OwedInv'
<1>1. CASE CompletePost
  <2>1. tx'.events = tx.events /\ tx'.signals = tx.signals /\ tx'.attempts = tx.attempts
    BY <1>1 DEF CompletePost, Completed, TypeOK, TableTypes
  <2>2. \A p \in Posts, r \in Rules : Owes(p, r, tx') => Owes(p, r, tx)
    BY <2>1 DEF Owes
  <2>3. db' = tx'
    BY <1>1 DEF CompletePost
  <2> QED
    BY <1>1, <2>1, <2>2, <2>3, CommitKeepsOwed DEF CompletePost
<1>2. CASE CommitRetries
  BY <1>2, CommitKeepsOwed DEF CommitRetries
<1>3. ASSUME NEW p \in Posts, AnalysisFails(p)
      PROVE  OwedInv'
  <2>1. /\ tx'.events = tx.events /\ tx'.signals = tx.signals
        /\ \A q \in Posts :
             tx'.attempts[q] = IF q = p THEN tx.attempts[q] + 1 ELSE tx.attempts[q]
    <3>1. /\ tx \in TableTypes
          /\ tx' = [tx EXCEPT !.status[p] = "failed", !.attempts[p] = @ + 1]
      BY <1>3 DEF AnalysisFails, TypeOK
    <3> QED
      BY <3>1 DEF TableTypes
  <2>2. p \notin tx.signals /\ p \in Members(p) /\ phase = "batch" /\ db' = tx'
    BY <1>3, AnchorIsMember DEF AnalysisFails, Visit
  <2>3. \A q \in Posts, r \in Rules : Owes(q, r, tx') => Owes(q, r, tx)
    BY <2>1, <2>2 DEF Owes
  <2> QED
    BY <1>3, <2>1, <2>2, <2>3, CommitKeepsOwed DEF AnalysisFails
<1> QED
  BY <1>1, <1>2, <1>3

LEMMA StepKeepsOwed ==
  ASSUME TypeOK, PostsInv, EventsInv, OwedInv, [Next]_vars
  PROVE  OwedInv'
<1>1. CASE \/ Upload \/ Ingest \/ \E r \in Rules : EditRule(r)
           \/ \E k \in Events : RetryDue(k)
  BY <1>1, WorldKeepsOwed
<1>2. CASE CompletePost \/ CommitRetries \/ \E p \in Posts : AnalysisFails(p)
  BY <1>2, CommitsKeepOwed
<1>3. CASE SelectPending \/ StartRetries
  BY <1>3, NothingMoreIsOwed DEF SelectPending, StartRetries, OwedInv
<1>4. CASE Publish
  BY <1>4, PublishKeepsOwed
<1>5. CASE FinishSignal
  <2>1. /\ tx'.signals = tx.signals /\ tx'.attempts = tx.attempts
        /\ \A k \in Events : tx'.events[k].status = tx.events[k].status
    <3>1. \A k \in Events : tx.events[k] \in EventRows
      BY DEF TypeOK, TableTypes
    <3> QED
      BY <1>5, <3>1, FinishSignalWrites DEF EventRows
  <2>2. \A p \in Posts, r \in Rules : Owes(p, r, tx') => Owes(p, r, tx)
    BY <2>1 DEF Owes
  <2> QED
    BY <1>5, <2>1, <2>2, NothingMoreIsOwed DEF FinishSignal, OwedInv
<1>6. ASSUME NEW p \in Posts, AlreadyAnalysed(p)
      PROVE  OwedInv'
  <2>1. tx'.events = tx.events /\ tx'.signals = tx.signals /\ tx'.attempts = tx.attempts
    BY <1>6 DEF AlreadyAnalysed, Completed, TypeOK, TableTypes
  <2>2. \A q \in Posts, r \in Rules : Owes(q, r, tx') => Owes(q, r, tx)
    BY <2>1 DEF Owes
  <2> QED
    BY <1>6, <2>1, <2>2, NothingMoreIsOwed DEF AlreadyAnalysed, Visit, OwedInv
<1>7. ASSUME NEW p \in Posts, Analyse(p)
      PROVE  OwedInv'
  BY <1>7, AnalyseKeepsOwed
<1>8. ASSUME NEW p \in Posts, RetrySignal(p)
      PROVE  OwedInv'
  BY <1>8, NothingMoreIsOwed DEF RetrySignal, OwedInv
<1>9. CASE DatabaseFails \/ Restart \/ \E p \in Posts : FlushRefused(p)
  BY <1>9 DEF DatabaseFails, Restart, FlushRefused, LoopEnds, OwedInv
<1>10. CASE UNCHANGED vars
  BY <1>10, NothingMoreIsOwed DEF vars, loop, OwedInv
<1> QED
  BY <1>1, <1>2, <1>3, <1>4, <1>5, <1>6, <1>7, <1>8, <1>9, <1>10 DEF Next, LoopStep

-----------------------------------------------------------------------------
(* The theorems.                                                           *)

LEMMA InitHasIInv == Init => IInv
<1> SUFFICES ASSUME Init PROVE IInv
  OBVIOUS
<1>1. NoEvent \in EventRows
  BY AnalysisAssumption DEF NoEvent, EventRows
<1>2. /\ Tables \in TableTypes
      /\ \A p \in Posts : Tables.status[p] = "pending" /\ Tables.attempts[p] = 0
      /\ Tables.signals = {}
      /\ \A k \in Events : Tables.events[k] = NoEvent
  BY <1>1 DEF Tables, TableTypes
<1>3. TypeOK
  BY <1>2, AnalysisAssumption DEF Init, TypeOK
<1>4. PostsInv
  <2>1. NumberedByArrival
    BY FS_EmptySet DEF Init, NumberedByArrival
  <2> QED
    BY <1>2, <2>1 DEF Init, PostsInv, NothingBeforeArrival, Outcome, InWork
<1>5. EventsInv
  <2>1. /\ CommittedBetween /\ ServingWarranted /\ RoundOfRetries
    BY DEF Init, CommittedBetween, ServingWarranted, RoundOfRetries, InTransaction
  <2>2. /\ EventRecords(db) /\ EventRecords(tx) /\ EventsWarranted(db)
        /\ EventsWarranted(tx) /\ NotGivenUp(db) /\ NotGivenUp(tx)
        /\ SentIsKept
    BY <1>2 DEF Init, NoEvent, EventRecords, EventsWarranted, NotGivenUp, SentIsKept
  <2>3. AttemptedOnce /\ PublishedIsRecorded
    BY <1>2 DEF Init, NoEvent, AttemptedOnce, PublishedIsRecorded
  <2> QED
    BY <2>1, <2>2, <2>3 DEF EventsInv
<1>6. OwedInv
  BY <1>2 DEF Init, OwedInv, Owes
<1> QED
  BY <1>3, <1>4, <1>5, <1>6 DEF IInv

LEMMA StepKeepsTypes ==
  ASSUME TypeOK, EventsInv, [Next]_vars
  PROVE  TypeOK'
<1>1. CASE \/ Upload \/ Ingest \/ \E r \in Rules : EditRule(r)
           \/ \E k \in Events : RetryDue(k)
  BY <1>1, WorldKeepsTypes
<1>2. CASE \/ SelectPending \/ Publish \/ CompletePost
           \/ StartRetries \/ FinishSignal \/ CommitRetries
  BY <1>2, RoundKeepsTypes
<1>3. CASE \E p \in Posts : \/ AlreadyAnalysed(p) \/ AnalysisFails(p) \/ Analyse(p)
                            \/ FlushRefused(p) \/ RetrySignal(p)
  BY <1>3, PostKeepsTypes
<1>4. CASE DatabaseFails \/ Restart
  BY <1>4, FaultKeepsTypes
<1>5. CASE UNCHANGED vars
  BY <1>5 DEF vars, loop, TypeOK
<1> QED
  BY <1>1, <1>2, <1>3, <1>4, <1>5 DEF Next, LoopStep

LEMMA StepKeepsIInv == IInv /\ [Next]_vars => IInv'
BY StepKeepsTypes, StepKeepsPosts, StepKeepsEvents, StepKeepsOwed DEF IInv

LEMMA Invariance == Spec => []IInv
BY InitHasIInv, StepKeepsIInv, PTL DEF Spec

\* The state keeps its shape: in particular no notification is attempted more
\* than MaxAttempts times, whatever is restarted in between.
THEOREM TypeCorrect == Spec => []TypeOK
<1>1. IInv => TypeOK
  BY DEF IInv
<1> QED
  BY Invariance, <1>1, PTL

\* A post that was analysed is completed and has its signal, or failed and has
\* none; no restart and no order of commits leaves it in between.
THEOREM PostsHaveOneOutcome == Spec => []OneOutcome
<1>1. IInv => OneOutcome
  BY DEF IInv, PostsInv, Outcome, OneOutcome
<1> QED
  BY Invariance, <1>1, PTL

\* A notification that a rule has a right to is on record once the post, or the
\* last trade of its batch, is completed.
THEOREM OwedIsOnRecord == Spec => []NotificationOwed
<1>1. ASSUME IInv PROVE NotificationOwed
  <2>1. ASSUME NEW p \in Posts, NEW r \in Rules \ everDisabled,
               db.attempts[p] > 0, Members(p) \subseteq db.signals,
               Batch[p] \notin Silent, \E m \in Members(p) : <<m, r>> \in Wants
        PROVE  db.events[<<Anchor(p), r>>].status # "none"
    BY <1>1, <2>1 DEF IInv, OwedInv, Owes
  <2> QED
    BY <2>1 DEF NotificationOwed
<1> QED
  BY Invariance, <1>1, PTL

\* A notification is given up after MaxAttempts attempts or when its rule was
\* switched off, never by the bookkeeping of a round of retries.
THEOREM GivenUpLate == Spec => []NotGivenUpEarly
<1>1. IInv => NotGivenUpEarly
  BY DEF IInv, EventsInv, NotGivenUp, NotGivenUpEarly
<1> QED
  BY Invariance, <1>1, PTL

\* Only a lost answer, a restart or an outage can have a notification published
\* again, and lost answers at most up to MaxAttempts times - with any numbers of
\* posts, rules, faults and lost answers.
THEOREM TwiceNeedsALostRecord == Spec => []TwiceOnlyUnrecorded
<1>1. ASSUME IInv PROVE TwiceOnlyUnrecorded
  <2>1. ASSUME NEW k \in Events
        PROVE  /\ published[k] <= 1 + unanswered[k] + faults
               /\ published[k] <= MaxAttempts + faults
    <3>1. /\ published[k] \in Nat /\ unanswered[k] \in Nat /\ faults \in Nat
          /\ tx.events[k].attempts \in 0..MaxAttempts
      BY <1>1 DEF IInv, TypeOK, TableTypes, EventRows
    <3> QED
      BY <1>1, <3>1, AnalysisAssumption DEF IInv, EventsInv, PublishedIsRecorded
  <2> QED
    BY <2>1 DEF TwiceOnlyUnrecorded
<1> QED
  BY Invariance, <1>1, PTL

\* Who changes the record of a notification, or publishes it.
LEMMA EventsOnRecord ==
  ASSUME IInv, [Next]_vars, NEW k \in Events, db.events[k].status = "sent"
  PROVE  db'.events[k] = db.events[k]
<1>1. TypeOK /\ tx.events[k] = db.events[k]
  BY DEF IInv, EventsInv, SentIsKept
<1>2. CASE Ingest
  BY <1>1, <1>2 DEF Ingest, TypeOK, TableTypes
<1>3. ASSUME NEW j \in Events, RetryDue(j)
      PROVE  db'.events[k] = db.events[k]
  <2>1. j # k
    BY <1>3 DEF RetryDue, IInv, EventsInv, EventRecords
  <2>2. PICK d \in EventRows : db' = [db EXCEPT !.events[j] = d]
    BY <1>1, <1>3, RetryDueWrites
  <2> QED
    BY <1>1, <2>1, <2>2 DEF TypeOK, TableTypes
<1>4. CASE CompletePost
  <2>1. tx'.events = tx.events /\ db' = tx'
    BY <1>1, <1>4 DEF CompletePost, Completed, TypeOK, TableTypes
  <2> QED
    BY <1>1, <2>1
<1>5. CASE CommitRetries
  BY <1>1, <1>5 DEF CommitRetries
<1>6. ASSUME NEW p \in Posts, AnalysisFails(p)
      PROVE  db'.events[k] = db.events[k]
  <2>1. tx'.events = tx.events /\ db' = tx'
    BY <1>1, <1>6 DEF AnalysisFails, TypeOK, TableTypes
  <2> QED
    BY <1>1, <2>1
<1>7. CASE db' = db
  BY <1>7
<1> QED
  BY <1>2, <1>3, <1>4, <1>5, <1>6, <1>7
  DEF Next, LoopStep, vars, Upload, EditRule, SelectPending, Publish, AlreadyAnalysed,
      Analyse, FlushRefused, RetrySignal, StartRetries, FinishSignal, DatabaseFails,
      Restart

LEMMA OnlyPublishPublishes ==
  ASSUME [Next]_vars, published' # published
  PROVE  Publish
BY DEF Next, LoopStep, vars, Upload, Ingest, EditRule, RetryDue, SelectPending,
       AlreadyAnalysed, AnalysisFails, Analyse, FlushRefused, CompletePost, RetrySignal,
       StartRetries, FinishSignal, CommitRetries, DatabaseFails, Restart

\* A notification on record as sent is neither published again nor forgotten.
THEOREM SentStaysSent == Spec => SentIsFinal
<1>1. ASSUME IInv, [Next]_vars, NEW k \in Events, db.events[k].status = "sent"
      PROVE  published'[k] = published[k]
  <2>1. CASE published' # published
    <3>1. PICK r \in serving :
            /\ Attempted(tx.events[<<anchor, r>>])
            /\ \/ published' = [published EXCEPT ![<<anchor, r>>] = @ + 1]
               \/ published' = published
      BY <1>1, <2>1, OnlyPublishPublishes, PublishWritesOne DEF IInv
    <3>2. tx.events[k].status = "sent"
      BY <1>1 DEF IInv, EventsInv, SentIsKept
    <3>3. k # <<anchor, r>>
      BY <3>1, <3>2 DEF Attempted
    <3> QED
      BY <1>1, <3>1, <3>3 DEF IInv, TypeOK
  <2> QED
    BY <2>1
<1>2. IInv /\ [Next]_vars =>
        [\A k \in Events : db.events[k].status = "sent" =>
           db'.events[k] = db.events[k] /\ published'[k] = published[k]]_vars
  BY <1>1, EventsOnRecord
<1> QED
  BY Invariance, <1>2, PTL DEF Spec, SentIsFinal

\* Whatever is published, every post of its batch has a signal by then.
THEOREM BatchesGoTogether == Spec => BatchTogether
<1>1. ASSUME IInv, [Next]_vars, published' # published
      PROVE  Members(anchor) \subseteq tx.signals /\ Batch[anchor] \notin Silent
  <2>1. PICK r \in serving : Warranted(<<anchor, r>>, tx)
    BY <1>1, OnlyPublishPublishes, PublishWritesOne DEF IInv
  <2> QED
    BY <2>1 DEF Warranted
<1>2. IInv /\ [Next]_vars =>
        [published' # published =>
           /\ Members(anchor) \subseteq tx.signals
           /\ Batch[anchor] \notin Silent]_vars
  BY <1>1
<1> QED
  BY Invariance, <1>2, PTL DEF Spec, BatchTogether

=============================================================================
