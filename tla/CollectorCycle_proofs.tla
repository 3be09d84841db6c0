------------------------ MODULE CollectorCycle_proofs ------------------------
(***************************************************************************)
(* Proofs about the cycles of the collector, for any subscriptions and     *)
(* platforms, any intervals and pauses, and any number of restarts.        *)
(***************************************************************************)
EXTENDS CollectorCycle, TLAPS

\* An alarm that is known was announced, and was not taken back since; and what
\* is known to be well again was announced too, unless it was forgotten - where
\* the last message was one the alerter knows of.
AlarmsTold ==
  Alerter => \A p \in Platforms \ doubtful :
               known[p] \in Alarming => told[p] = known[p]
RecoveriesTold ==
  Alerter /\ restarts = 0 =>
    \A p \in Platforms \ doubtful : known[p] = Good => told[p] \notin Alarming

\* Statuses are reported after the last fetch, so that what was told of them is
\* what the heartbeat will say; until then there is none.
ReportedIsKnown ==
  phase = "fetch" =>
    /\ beat = NoBeat
    /\ statuses # {} => todo = {}
    /\ Alerter => \A p \in statuses : known[p] = Status(p)

IInv == /\ TypeOK /\ restarts \in Nat
        /\ AlarmsTold /\ RecoveriesTold /\ ReportedIsKnown
        /\ NobodyLeftInTheDark

-----------------------------------------------------------------------------
(* Type correctness.                                                       *)

\* Delays that run out keep their bounds.
LEMMA PausesArePassed ==
  ASSUME TypeOK, NEW d \in Pauses,
         wait' = [s \in Subs |-> Less(wait[s], d)],
         quiet' = [p \in Platforms |-> Less(quiet[p], d)]
  PROVE  /\ wait' \in [Subs -> Nat]
         /\ \A s \in Subs : wait'[s] \in 0..Interval[s] \/ s \in TradeSubs
         /\ quiet' \in [Platforms -> 0..Cooldown]
<1>1. d \in Nat
  BY CycleAssumption
<1>2. ASSUME NEW s \in Subs
      PROVE  /\ Less(wait[s], d) \in Nat
             /\ wait[s] \in 0..Interval[s] => Less(wait[s], d) \in 0..Interval[s]
  <2>1. wait[s] \in Nat /\ Interval[s] \in Nat
    BY CycleAssumption DEF TypeOK
  <2> QED
    BY <1>1, <2>1 DEF Less
<1>3. ASSUME NEW p \in Platforms PROVE Less(quiet[p], d) \in 0..Cooldown
  <2>1. quiet[p] \in Nat /\ quiet[p] <= Cooldown /\ Cooldown \in Nat
    BY CycleAssumption DEF TypeOK
  <2> QED
    BY <1>1, <2>1 DEF Less
<1> QED
  BY <1>2, <1>3 DEF TypeOK

LEMMA VisitKeepsTypes ==
  ASSUME TypeOK, NEW s \in Subs,
         \/ InvalidStart(s) \/ BeforeStart(s) \/ SkipSubscription(s)
         \/ Fetch(s) \/ FetchRaises(s)
  PROVE  TypeOK'
<1>1. Platform[s] \in Platforms /\ Interval[s] \in Nat /\ s \in Subs
  BY CycleAssumption
<1>2. todo' \subseteq Subs
  BY DEF TypeOK, Visit, InvalidStart, BeforeStart, SkipSubscription, Fetch, FetchRaises
<1>3. CASE InvalidStart(s)
  BY <1>1, <1>2, <1>3 DEF InvalidStart, alerts, ntfy, TypeOK
<1>4. CASE BeforeStart(s)
  <2>1. PICK d \in Pauses : wait' = [wait EXCEPT ![s] = d]
    BY <1>4 DEF BeforeStart
  <2>2. d \in Nat /\ s \in TradeSubs
    BY <1>4, CycleAssumption DEF BeforeStart
  <2>3. /\ wait' \in [Subs -> Nat]
        /\ \A q \in Subs : wait'[q] \in 0..Interval[q] \/ q \in TradeSubs
    BY <2>1, <2>2 DEF TypeOK
  <2> QED
    BY <1>2, <1>4, <2>3 DEF BeforeStart, alerts, ntfy, TypeOK
<1>5. CASE SkipSubscription(s)
  <2>1. wait' = [wait EXCEPT ![s] = 0] \/ wait' = wait
    BY <1>5 DEF SkipSubscription
  <2>2. /\ wait' \in [Subs -> Nat]
        /\ \A q \in Subs : wait'[q] \in 0..Interval[q] \/ q \in TradeSubs
    BY <1>1, <2>1 DEF TypeOK
  <2> QED
    BY <1>2, <1>5, <2>2 DEF SkipSubscription, alerts, ntfy, TypeOK
<1>6. CASE Fetch(s) \/ FetchRaises(s)
  <2>1. /\ wait' = [wait EXCEPT ![s] = Interval[s]]
        /\ \E h \in Health : health' = [health EXCEPT ![Platform[s]] = h]
        /\ raised' \in {raised \cup {Platform[s]}, raised \ {Platform[s]}}
        /\ fetched' = fetched \cup {s} /\ phase' = phase
        /\ UNCHANGED <<enabled, config, statuses, alerts, beat>>
    BY <1>6 DEF Fetch, FetchRaises, NextCheck, AfterException
  <2>2. /\ wait' \in [Subs -> Nat]
        /\ \A q \in Subs : wait'[q] \in 0..Interval[q] \/ q \in TradeSubs
    BY <1>1, <2>1 DEF TypeOK
  <2>3. health' \in [Platforms -> Health]
    BY <1>1, <2>1 DEF TypeOK
  <2> QED
    BY <1>1, <1>2, <2>1, <2>2, <2>3 DEF alerts, ntfy, TypeOK
<1> QED
  BY <1>3, <1>4, <1>5, <1>6

LEMMA StatusIsHealth ==
  ASSUME TypeOK, NEW p \in Platforms
  PROVE  Status(p) \in Health
BY DEF Status, TypeOK, Health, Alarming

LEMMA StepKeepsTypes ==
  ASSUME TypeOK, [Next]_vars
  PROVE  TypeOK'
<1>1. ASSUME NEW s \in Subs, EditSubscription(s)
      PROVE  TypeOK'
  BY <1>1 DEF EditSubscription, alerts, ntfy, TypeOK
<1>2. CASE FetchConfig
  <2>1. /\ wait' \in [Subs -> Nat]
        /\ \A s \in Subs : wait'[s] \in 0..Interval[s] \/ s \in TradeSubs
        /\ quiet' \in [Platforms -> 0..Cooldown]
    BY <1>2, PausesArePassed DEF FetchConfig
  <2> QED
    BY <1>2, <2>1 DEF FetchConfig, ntfy, NoBeat, TypeOK
<1>3. CASE FetchConfigFails
  <2>1. /\ wait' \in [Subs -> Nat]
        /\ \A s \in Subs : wait'[s] \in 0..Interval[s] \/ s \in TradeSubs
        /\ quiet' \in [Platforms -> 0..Cooldown]
    BY <1>3, PausesArePassed DEF FetchConfigFails
  <2> QED
    BY <1>3, <2>1 DEF FetchConfigFails, ntfy, NoBeat, TypeOK
<1>4. CASE VisitNext
  BY <1>4, VisitKeepsTypes DEF VisitNext
<1>5. ASSUME NEW p \in Platforms, ReportStatus(p)
      PROVE  TypeOK'
  <2>1. Status(p) \in Health /\ Cooldown \in 0..Cooldown
    BY StatusIsHealth, CycleAssumption
  <2>2. /\ known' \in [Platforms -> Health]
        /\ quiet' \in [Platforms -> 0..Cooldown]
        /\ told' \in [Platforms -> Health \cup {"none"}]
        /\ late' = late /\ doubtful' \subseteq Platforms
    BY <1>5, <2>1 DEF ReportStatus, alerts, ntfy, TypeOK
  <2> QED
    BY <1>5, <2>2 DEF ReportStatus, TypeOK
<1>6. ASSUME NEW p \in Platforms, AlertRaises(p)
      PROVE  TypeOK'
  <2>1. late' \subseteq late \cup {<<p, Status(p)>>}
    BY <1>6 DEF AlertRaises
  <2>2. late' \subseteq Platforms \X Health
    BY <2>1, StatusIsHealth DEF TypeOK
  <2> QED
    BY <1>6, <2>2 DEF AlertRaises, TypeOK
<1>7. CASE Heartbeat
  BY <1>7, StatusIsHealth DEF Heartbeat, alerts, ntfy, TypeOK
<1>8. CASE HeartbeatFails
  BY <1>8 DEF HeartbeatFails, alerts, ntfy, TypeOK
<1>9. CASE Restart
  BY <1>9, CycleAssumption DEF Restart, ForgetMemory, ntfy, NoBeat, TypeOK, Health
<1>10. CASE UNCHANGED vars
  BY <1>10 DEF vars, alerts, ntfy, TypeOK
<1>11. ASSUME NEW m \in late, NtfyTakesLate(m)
       PROVE  TypeOK'
  <2>1. m[1] \in Platforms /\ m[2] \in Health
    BY DEF TypeOK
  <2>2. told' \in [Platforms -> Health \cup {"none"}]
    BY <1>11, <2>1 DEF NtfyTakesLate, TypeOK
  <2> QED
    BY <1>11, <2>1, <2>2 DEF NtfyTakesLate, TypeOK
<1> QED
  BY <1>1, <1>2, <1>3, <1>4, <1>5, <1>6, <1>7, <1>8, <1>9, <1>10, <1>11 DEF Next

-----------------------------------------------------------------------------
(* What ntfy was told.                                                     *)

\* Steps that tell nobody anything, and leave what is known.
LEMMA QuietSteps ==
  ASSUME IInv, UNCHANGED <<known, told, doubtful, restarts>>,
         phase' = "fetch" => /\ beat' = NoBeat
                             /\ statuses' # {} => todo' = {}
                             /\ Alerter => \A p \in statuses' : known[p] = Status(p)',
         phase' = "idle" =>
           \/ beat' = NoBeat
           \/ phase = "idle" /\ beat' = beat
           \/ Alerter => \A p \in Platforms : beat'[p] = known[p]
  PROVE  AlarmsTold' /\ RecoveriesTold' /\ ReportedIsKnown' /\ NobodyLeftInTheDark'
<1>1. AlarmsTold' /\ RecoveriesTold'
  BY DEF IInv, AlarmsTold, RecoveriesTold
<1>2. ReportedIsKnown'
  BY DEF ReportedIsKnown
<1>3. NobodyLeftInTheDark'
  BY DEF IInv, AlarmsTold, RecoveriesTold, NobodyLeftInTheDark, NoBeat
<1> QED
  BY <1>1, <1>2, <1>3

LEMMA ReportTellsIt ==
  ASSUME IInv, NEW p \in Platforms, ReportStatus(p)
  PROVE  AlarmsTold' /\ RecoveriesTold' /\ ReportedIsKnown' /\ NobodyLeftInTheDark'
<1>1. /\ phase = "fetch" /\ phase' = "fetch" /\ todo = {} /\ todo' = {}
      /\ statuses' = statuses \cup {p} /\ beat' = beat
      /\ UNCHANGED <<raised, health, restarts>>
  BY DEF ReportStatus, Report
<1>2. \A q \in Platforms : Status(q)' = Status(q)
  BY <1>1 DEF Status
<1>3. CASE ~Alerter
  BY <1>1, <1>3
  DEF IInv, AlarmsTold, RecoveriesTold, ReportedIsKnown, NobodyLeftInTheDark
<1>4. CASE Alerter
  <2>1. /\ known' = [known EXCEPT ![p] = Status(p)]
        /\ IF Message(p, Status(p))
           THEN told' = [told EXCEPT ![p] = Status(p)] /\ doubtful' = doubtful \ {p}
           ELSE told' = told /\ doubtful' = doubtful
    BY <1>4 DEF ReportStatus
  <2>2. /\ known' = [q \in Platforms |-> IF q = p THEN Status(p) ELSE known[q]]
        /\ told' = [q \in Platforms |-> IF q = p /\ Message(p, Status(p))
                                        THEN Status(p) ELSE told[q]]
        /\ doubtful' \subseteq doubtful
        /\ ~Message(p, Status(p)) => doubtful' = doubtful
    BY <2>1 DEF IInv, TypeOK
  <2>3. p \notin doubtful' /\ Status(p) \in Alarming => told'[p] = Status(p)
    BY <1>4, <2>2 DEF Message, IInv, AlarmsTold
  <2>4. restarts = 0 /\ p \notin doubtful' /\ Status(p) = Good =>
          told'[p] \notin Alarming
    BY <1>4, <2>2 DEF Message, IInv, RecoveriesTold, Good, Alarming
  <2>8. \A q \in Platforms \ {p} : q \in doubtful => q \in doubtful'
    BY <1>4, <2>1
  <2>5. AlarmsTold' /\ RecoveriesTold'
    BY <1>1, <1>4, <2>2, <2>3, <2>4, <2>8 DEF IInv, AlarmsTold, RecoveriesTold
  <2>6. ReportedIsKnown'
    BY <1>1, <1>2, <1>4, <2>2 DEF IInv, TypeOK, ReportedIsKnown
  <2>7. NobodyLeftInTheDark'
    BY <1>1 DEF NobodyLeftInTheDark
  <2> QED
    BY <2>5, <2>6, <2>7
<1> QED
  BY <1>3, <1>4

LEMMA StepKeepsNews ==
  ASSUME IInv, [Next]_vars
  PROVE  AlarmsTold' /\ RecoveriesTold' /\ ReportedIsKnown' /\ NobodyLeftInTheDark'
<1> DEFINE Told == /\ AlarmsTold' /\ RecoveriesTold'
                   /\ ReportedIsKnown' /\ NobodyLeftInTheDark'
<1>1. ASSUME NEW s \in Subs, EditSubscription(s)
      PROVE  Told
  <2>1. \A p \in Platforms : Status(p)' = Status(p)
    BY <1>1 DEF EditSubscription, Status
  <2> QED
    BY <1>1, <2>1, QuietSteps DEF EditSubscription, alerts, ntfy, IInv, TypeOK, ReportedIsKnown
<1>2. CASE FetchConfig \/ FetchConfigFails
  BY <1>2, QuietSteps DEF FetchConfig, FetchConfigFails, ntfy
<1>3. ASSUME NEW s \in Subs,
             \/ InvalidStart(s) \/ BeforeStart(s) \/ SkipSubscription(s)
             \/ Fetch(s) \/ FetchRaises(s)
      PROVE  Told
  <2>1. /\ phase = "fetch" /\ phase' = "fetch" /\ todo # {}
        /\ UNCHANGED <<statuses, known, told, doubtful, beat, restarts>>
    BY <1>3 DEF InvalidStart, BeforeStart, SkipSubscription, Fetch, FetchRaises, Visit,
                AfterException, alerts, ntfy
  <2>2. statuses = {}
    BY <2>1 DEF IInv, ReportedIsKnown
  <2> QED
    BY <2>1, <2>2, QuietSteps DEF IInv, ReportedIsKnown
<1>4. ASSUME NEW p \in Platforms, ReportStatus(p)
      PROVE  Told
  BY <1>4, ReportTellsIt
<1>5. ASSUME NEW p \in Platforms, AlertRaises(p)
      PROVE  Told
  BY <1>5, QuietSteps DEF AlertRaises, Report, alerts, ntfy, IInv, ReportedIsKnown
<1>6. CASE Heartbeat
  <2>1. Alerter => \A p \in Platforms : beat'[p] = known[p]
    BY <1>6 DEF Heartbeat, IInv, ReportedIsKnown
  <2> QED
    BY <1>6, <2>1, QuietSteps DEF Heartbeat, alerts, ntfy
<1>7. CASE HeartbeatFails
  BY <1>7, QuietSteps DEF HeartbeatFails, alerts, ntfy, IInv, ReportedIsKnown
<1>8. CASE Restart
  <2>1. restarts' # 0 /\ phase' = "idle" /\ beat' = NoBeat
    BY <1>8 DEF Restart, ForgetMemory, IInv
  <2>2. \A p \in Platforms : known'[p] = Good
    BY <1>8 DEF Restart, ForgetMemory
  <2> QED
    BY <2>1, <2>2
    DEF AlarmsTold, RecoveriesTold, ReportedIsKnown, NobodyLeftInTheDark, Good, Alarming,
        NoBeat
<1>9. CASE UNCHANGED vars
  BY <1>9
  DEF vars, alerts, ntfy, IInv, AlarmsTold, RecoveriesTold, ReportedIsKnown, Status,
      NobodyLeftInTheDark
<1>10. ASSUME NEW m \in late, NtfyTakesLate(m)
       PROVE  Told
  <2>1. m[1] \in Platforms
    BY DEF IInv, TypeOK
  <2>2. /\ told' = [told EXCEPT ![m[1]] = m[2]] /\ doubtful' = doubtful \cup {m[1]}
        /\ UNCHANGED <<phase, todo, raised, health, statuses, known, beat, restarts>>
    BY <1>10 DEF NtfyTakesLate
  <2>3. \A p \in Platforms \ doubtful' : told'[p] = told[p] /\ p \notin doubtful
    BY <2>2 DEF IInv, TypeOK
  <2>4. \A p \in Platforms : Status(p)' = Status(p)
    BY <2>2 DEF Status
  <2>5. AlarmsTold' /\ RecoveriesTold'
    BY <2>2, <2>3 DEF IInv, AlarmsTold, RecoveriesTold
  <2>6. ReportedIsKnown'
    BY <2>2, <2>4 DEF IInv, TypeOK, ReportedIsKnown
  <2>7. NobodyLeftInTheDark'
    BY <2>2, <2>3 DEF IInv, NobodyLeftInTheDark
  <2> QED
    BY <2>5, <2>6, <2>7
<1> QED
  BY <1>1, <1>2, <1>3, <1>4, <1>5, <1>6, <1>7, <1>8, <1>9, <1>10 DEF Next, VisitNext

LEMMA StepKeepsIInv == IInv /\ [Next]_vars => IInv'
<1> SUFFICES ASSUME IInv, [Next]_vars PROVE IInv'
  OBVIOUS
<1>1. TypeOK'
  BY StepKeepsTypes DEF IInv
<1>2. restarts' \in Nat
  <2>1. restarts' = restarts \/ restarts' = restarts + 1
    BY DEF Next, VisitNext, EditSubscription, FetchConfig, FetchConfigFails, InvalidStart,
           BeforeStart, SkipSubscription, Fetch, FetchRaises, ReportStatus, AlertRaises,
           NtfyTakesLate, Heartbeat, HeartbeatFails, Restart, vars
  <2> QED
    BY <2>1 DEF IInv
<1> QED
  BY <1>1, <1>2, StepKeepsNews DEF IInv

LEMMA InitHasIInv == Init => IInv
<1> SUFFICES ASSUME Init PROVE IInv
  OBVIOUS
<1>1. TypeOK /\ restarts \in Nat
  <2>1. /\ health \in [Platforms -> Health] /\ known \in [Platforms -> Health]
        /\ told \in [Platforms -> Health \cup {"none"}]
        /\ beat \in [Platforms -> Health \cup {"none"}]
        /\ quiet \in [Platforms -> 0..Cooldown]
    BY CycleAssumption DEF Init, NoBeat, Health
  <2>2. /\ wait \in [Subs -> Nat]
        /\ \A s \in Subs : wait[s] \in 0..Interval[s] \/ s \in TradeSubs
    BY CycleAssumption DEF Init
  <2> QED
    BY <2>1, <2>2 DEF Init, TypeOK
<1>2. AlarmsTold /\ RecoveriesTold /\ ReportedIsKnown /\ NobodyLeftInTheDark
  BY DEF Init, AlarmsTold, RecoveriesTold, ReportedIsKnown, NobodyLeftInTheDark, Good,
         Alarming, NoBeat
<1> QED
  BY <1>1, <1>2 DEF IInv

LEMMA Invariance == Spec => []IInv
BY InitHasIInv, StepKeepsIInv, PTL DEF Spec

\* The collector's memory keeps its shape; no delay is longer than its interval.
THEOREM TypeCorrect == Spec => []TypeOK
<1>1. IInv => TypeOK
  BY DEF IInv
<1> QED
  BY Invariance, <1>1, PTL

\* After a heartbeat ntfy and the dashboard say the same of every platform whose
\* last message the alerter knows of, with any number of platforms and
\* subscriptions, and whatever failed, or was taken late, before.
THEOREM SameNewsEverywhere == Spec => []NobodyLeftInTheDark
<1>1. IInv => NobodyLeftInTheDark
  BY DEF IInv
<1> QED
  BY Invariance, <1>1, PTL

=============================================================================
