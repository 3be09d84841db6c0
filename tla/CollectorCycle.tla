---------------------------- MODULE CollectorCycle ----------------------------
(***************************************************************************)
(* The cycles of the collector: which subscription is fetched when, what   *)
(* becomes of a provider that fails, who is told of it, and the heartbeat. *)
(*                                                                         *)
(* Nothing of this is persisted: a restarted collector fetches everything  *)
(* at once and takes every provider for healthy.  What the fetches store,  *)
(* and the upload between the last fetch and the provider statuses, are in *)
(* CollectorDelivery and TradeLedger.                                      *)
(*                                                                         *)
(* An exception of run_once ends the cycle; the main loop goes on with the *)
(* next one.  Times are kept as what is left of a delay.                   *)
(***************************************************************************)
EXTENDS Integers, FiniteSets

CONSTANTS
  Subs,             \* ids of the subscriptions
  Platforms,        \* platforms with a provider, in the order of their names
  Platform,         \* the platform of a subscription
  TradeSubs,        \* subscriptions of a trade platform
  Interval,         \* intervalMinutes of a subscription
  Pauses,           \* how long it may be from one cycle to the next
  Cooldown,         \* provider_alert_cooldown_seconds
  Alerter,          \* whether ntfy is configured
  MaxRestarts,      \* bound: restarts of the collector
  MaxLate           \* bound: messages to ntfy under way after their call failed

ASSUME CycleAssumption ==
  /\ Subs \subseteq Nat /\ IsFiniteSet(Subs)
  /\ Platforms \subseteq Nat /\ IsFiniteSet(Platforms)
  /\ Platform \in [Subs -> Platforms] /\ TradeSubs \subseteq Subs
  /\ Interval \in [Subs -> Nat \ {0}] /\ Pauses \subseteq Nat \ {0}
  /\ Cooldown \in Nat \ {0} /\ Alerter \in BOOLEAN /\ MaxRestarts \in Nat
  /\ MaxLate \in Nat

VARIABLES
  enabled,          \* subscriptions enabled on the server
  \* the collector's memory
  phase,            \* where run_once is
  config,           \* subscriptions enabled in the configuration just fetched
  todo,             \* subscriptions the loop has still to visit
  wait,             \* what is left until next_check of a subscription
  raised,           \* provider_failures: platforms whose last fetch raised
  health,           \* what a provider says of its health
  statuses,         \* platforms whose status was reported in this cycle
  known,            \* alerter.states: the status of a platform as last seen
  quiet,            \* what is left of the cooldown of a platform
  \* bookkeeping
  fetched,          \* subscriptions fetched in this cycle
  told,             \* the last message ntfy took about a platform
  late,             \* messages under way whose call failed in the collector
  doubtful,         \* platforms whose last message ntfy took is such a one
  beat,             \* the heartbeat that ended the last cycle, if one did
  restarts

ntfy == <<told, late, doubtful>>
alerts == <<known, quiet, ntfy>>
vars == <<enabled, phase, config, todo, wait, raised, health, statuses, alerts,
          fetched, beat, restarts>>

Good == "healthy"                 \* healthy or authenticated
Alarming == {"failed", "login_required"}
Health == {Good, "access_limited"} \cup Alarming
NoBeat == [p \in Platforms |-> "none"]

Status(p) == IF p \in raised THEN "failed" ELSE health[p]

\* Mutant of Less: a delay is counted down past zero.
LessUnclamped(n, d) == n - d

Less(n, d) == IF n > d THEN n - d ELSE 0

-----------------------------------------------------------------------------
EditSubscription(s) ==
  /\ enabled' = IF s \in enabled THEN enabled \ {s} ELSE enabled \cup {s}
  /\ UNCHANGED <<phase, config, todo, wait, raised, health, statuses, alerts,
                 fetched, beat, restarts>>

\* A cycle starts when the pause is over, and fetches the configuration.
FetchConfig ==
  /\ phase = "idle"
  /\ phase' = "fetch"
  /\ \E d \in Pauses :
       /\ wait' = [s \in Subs |-> Less(wait[s], d)]
       /\ quiet' = [p \in Platforms |-> Less(quiet[p], d)]
  /\ config' = enabled /\ todo' = Subs
  /\ statuses' = {} /\ fetched' = {} /\ beat' = NoBeat
  /\ UNCHANGED <<enabled, raised, health, known, ntfy, restarts>>

\* The configuration cannot be read: the cycle ends without a heartbeat.
FetchConfigFails ==
  /\ phase = "idle"
  /\ \E d \in Pauses :
       /\ wait' = [s \in Subs |-> Less(wait[s], d)]
       /\ quiet' = [p \in Platforms |-> Less(quiet[p], d)]
  /\ beat' = NoBeat /\ fetched' = {}
  /\ UNCHANGED <<enabled, phase, config, todo, raised, health, statuses, known,
                 ntfy, restarts>>

Visit(s) == /\ phase = "fetch"
            /\ s \in todo
            /\ \A t \in todo : s <= t
            /\ todo' = todo \ {s}

\* The start time of a trade subscription makes no sense.
InvalidStart(s) ==
  /\ Visit(s)
  /\ s \in TradeSubs
  /\ raised' = raised \cup {Platform[s]}
  /\ UNCHANGED <<enabled, phase, config, wait, health, statuses, alerts,
                 fetched, beat, restarts>>

\* A start time still to come is the time of the next check.
BeforeStart(s) ==
  /\ Visit(s)
  /\ s \in TradeSubs \cap config
  /\ \E d \in Pauses : wait' = [wait EXCEPT ![s] = d]
  /\ UNCHANGED <<enabled, phase, config, raised, health, statuses, alerts,
                 fetched, beat, restarts>>

\* A start time other than that of the ledger makes the check due.
Moved(s) == IF s \in TradeSubs THEN {TRUE, FALSE} ELSE {FALSE}

SkipSubscription(s) ==
  /\ Visit(s)
  /\ \E moved \in Moved(s) :
       /\ s \notin config \/ (~moved /\ wait[s] > 0)
       /\ wait' = IF moved THEN [wait EXCEPT ![s] = 0] ELSE wait
  /\ UNCHANGED <<enabled, phase, config, raised, health, statuses, alerts,
                 fetched, beat, restarts>>

Due(s) == /\ s \in config
          /\ \E moved \in Moved(s) : moved \/ wait[s] = 0

\* The finally clause: however the fetch went, the next check is one interval
\* after the start of this cycle.
NextCheck(s) == [wait EXCEPT ![s] = Interval[s]]

\* The provider says how it is, well or not.
Fetch(s) ==
  /\ Visit(s)
  /\ Due(s)
  /\ \E h \in Health : health' = [health EXCEPT ![Platform[s]] = h]
  /\ raised' = raised \ {Platform[s]}
  /\ wait' = NextCheck(s)
  /\ fetched' = fetched \cup {s}
  /\ UNCHANGED <<enabled, phase, config, statuses, alerts, beat, restarts>>

\* Mutant of AfterException: the exception ends the cycle.
ExceptionEndsCycle == phase' = "idle"

\* Exceptions of a provider stay within its subscription.
AfterException == phase' = phase

\* The provider, or the upload of the positions, raises an exception.
FetchRaises(s) ==
  /\ Visit(s)
  /\ Due(s)
  /\ \E h \in Health : health' = [health EXCEPT ![Platform[s]] = h]
  /\ raised' = raised \cup {Platform[s]}
  /\ wait' = NextCheck(s)
  /\ fetched' = fetched \cup {s}
  /\ AfterException
  /\ UNCHANGED <<enabled, config, statuses, alerts, beat, restarts>>

-----------------------------------------------------------------------------
(* The provider statuses, and the messages to ntfy they give rise to.      *)

\* Mutant of Message: a recovery is announced only after an alarm.
MessageAfterAlarm(p, status) ==
  \/ status = Good /\ known[p] \in Alarming
  \/ status \in Alarming /\ (known[p] # status \/ quiet[p] = 0)

\* ProviderAlerter.update: whether there is something to say.
Message(p, status) ==
  \/ status = Good /\ known[p] # Good
  \/ status \in Alarming /\ (known[p] # status \/ quiet[p] = 0)

Report(p) ==
  /\ phase = "fetch" /\ todo = {}
  /\ p \in Platforms \ statuses
  /\ \A q \in Platforms \ statuses : p <= q

\* The status is reported, and ntfy told if there is something to tell.
ReportStatus(p) ==
  /\ Report(p)
  /\ statuses' = statuses \cup {p}
  /\ IF ~Alerter THEN UNCHANGED alerts
     ELSE /\ known' = [known EXCEPT ![p] = Status(p)]
          /\ IF Message(p, Status(p))
             THEN /\ quiet' = [quiet EXCEPT ![p] = Cooldown]
                  /\ told' = [told EXCEPT ![p] = Status(p)]
                  /\ doubtful' = doubtful \ {p}
             ELSE UNCHANGED <<quiet, told, doubtful>>
          /\ UNCHANGED late
  /\ UNCHANGED <<enabled, phase, config, todo, wait, raised, health, fetched,
                 beat, restarts>>

\* The call of ntfy raises: ntfy cannot be reached, or it has the message, now
\* or later, and the answer does not come in time or is an error of the way.
\* Nothing between here and the main loop catches the exception: the alerter
\* remembers nothing, the statuses are dropped and the cycle ends.
AlertRaises(p) ==
  /\ Report(p)
  /\ Alerter /\ Message(p, Status(p))
  /\ phase' = "idle"
  /\ \/ UNCHANGED late
     \/ /\ Cardinality(late) < MaxLate
        /\ late' = late \cup {<<p, Status(p)>>}
  /\ UNCHANGED <<enabled, config, todo, wait, raised, health, statuses, known,
                 quiet, told, doubtful, fetched, beat, restarts>>

\* ntfy takes a message the collector thinks failed.
NtfyTakesLate(m) ==
  /\ m \in late
  /\ late' = late \ {m}
  /\ told' = [told EXCEPT ![m[1]] = m[2]]
  /\ doubtful' = doubtful \cup {m[1]}
  /\ UNCHANGED <<enabled, phase, config, todo, wait, raised, health, statuses,
                 known, quiet, fetched, beat, restarts>>

\* The heartbeat ends the cycle; beat is what the server has of it.
Heartbeat ==
  /\ phase = "fetch" /\ todo = {} /\ statuses = Platforms
  /\ phase' = "idle"
  /\ beat' = [p \in Platforms |-> Status(p)]
  /\ UNCHANGED <<enabled, config, todo, wait, raised, health, statuses, alerts,
                 fetched, restarts>>

\* The heartbeat cannot be sent.
HeartbeatFails ==
  /\ phase = "fetch" /\ todo = {} /\ statuses = Platforms
  /\ phase' = "idle"
  /\ UNCHANGED <<enabled, config, todo, wait, raised, health, statuses, alerts,
                 fetched, beat, restarts>>

ForgetMemory ==
  /\ phase' = "idle" /\ config' = {} /\ todo' = {}
  /\ wait' = [s \in Subs |-> 0] /\ raised' = {}
  /\ health' = [p \in Platforms |-> Good] /\ statuses' = {}
  /\ known' = [p \in Platforms |-> Good] /\ quiet' = [p \in Platforms |-> 0]

\* launchd starts the collector again.
Restart ==
  /\ restarts < MaxRestarts
  /\ restarts' = restarts + 1
  /\ ForgetMemory
  /\ fetched' = {} /\ beat' = NoBeat
  /\ UNCHANGED <<enabled, ntfy>>

Init ==
  /\ enabled = Subs
  /\ phase = "idle" /\ config = {} /\ todo = {}
  /\ wait = [s \in Subs |-> 0] /\ raised = {}
  /\ health = [p \in Platforms |-> Good] /\ statuses = {}
  /\ known = [p \in Platforms |-> Good] /\ quiet = [p \in Platforms |-> 0]
  /\ told = [p \in Platforms |-> "none"] /\ late = {} /\ doubtful = {}
  /\ fetched = {} /\ beat = NoBeat /\ restarts = 0

VisitNext ==
  \E s \in Subs : \/ InvalidStart(s) \/ BeforeStart(s) \/ SkipSubscription(s)
                  \/ Fetch(s) \/ FetchRaises(s)

Next ==
  \/ \E s \in Subs : EditSubscription(s)
  \/ FetchConfig \/ FetchConfigFails
  \/ VisitNext
  \/ \E p \in Platforms : ReportStatus(p) \/ AlertRaises(p)
  \/ \E m \in late : NtfyTakesLate(m)
  \/ Heartbeat \/ HeartbeatFails
  \/ Restart

Spec == Init /\ [][Next]_vars

\* The cycles go on, and the server answers some time.  Of a provider it is
\* assumed that a fetch returns or raises - the call of the page's script
\* (binance_browser.py:97) has no time limit of its own -, of ntfy nothing.
FairSpec ==
  /\ Spec
  /\ WF_vars(FetchConfig \/ FetchConfigFails) /\ SF_vars(FetchConfig)
  /\ WF_vars(VisitNext)
  /\ WF_vars(\E p \in Platforms : ReportStatus(p) \/ AlertRaises(p))
  /\ WF_vars(Heartbeat \/ HeartbeatFails) /\ SF_vars(Heartbeat)

-----------------------------------------------------------------------------
(* Properties.                                                             *)

\* The shape of the state; no check is further away than an interval or a start
\* time to come.
TypeOK ==
  /\ enabled \subseteq Subs /\ config \subseteq Subs /\ todo \subseteq Subs
  /\ phase \in {"idle", "fetch"}
  /\ wait \in [Subs -> Nat]
  /\ \A s \in Subs : wait[s] \in 0..Interval[s] \/ s \in TradeSubs
  /\ raised \subseteq Platforms /\ statuses \subseteq Platforms
  /\ health \in [Platforms -> Health] /\ known \in [Platforms -> Health]
  /\ quiet \in [Platforms -> 0..Cooldown]
  /\ told \in [Platforms -> Health \cup {"none"}]
  /\ late \subseteq Platforms \X Health /\ doubtful \subseteq Platforms
  /\ beat \in [Platforms -> Health \cup {"none"}]
  /\ fetched \subseteq Subs

\* Who reads ntfy and who reads the dashboard know the same: after a heartbeat, a
\* platform in alarm is one ntfy was last told about with this very alarm, and
\* of a healthy one the last news was not an alarm - as long as the collector
\* was not restarted, which forgets what it announced (docs/operations.md:85).
\* Excepted is a platform whose last message was taken by ntfy while its call
\* raised: the alerter knows nothing of it, so that an alarm announced in this
\* way may never be taken back, nor a recovery followed by a new alarm.
NobodyLeftInTheDark ==
  \A p \in Platforms \ doubtful :
    Alerter /\ phase = "idle" /\ beat[p] # "none" =>
      /\ beat[p] \in Alarming => told[p] = beat[p]
      /\ beat[p] = Good /\ restarts = 0 => told[p] \notin Alarming

\* An ordinary subscription - one that has no start time to wait for - is
\* checked again and again for as long as it is enabled, even if every fetch of
\* the others, and every message to ntfy, fails (docs/data-sources.md:18).
EachSubscriptionChecked ==
  \A s \in Subs \ TradeSubs : <>[](s \in enabled) => []<>(s \in fetched)

\* No failure of a provider keeps the heartbeat from the server
\* (docs/architecture.md:35).
HeartbeatsContinue == []<>(beat # NoBeat)

\* That is so unless message after message to ntfy fails: no failure of a
\* provider or of an upload alone silences the collector for good.
HeartbeatsUnlessNtfyFails ==
  \/ HeartbeatsContinue
  \/ []<><<\E p \in Platforms : AlertRaises(p)>>_vars

=============================================================================
