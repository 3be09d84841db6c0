-------------------------- MODULE PositionSnapshot --------------------------
(***************************************************************************)
(* How the positions of one trade subscription get to the dashboard, while *)
(* the administrator moves its start time, deletes it and creates it anew. *)
(*                                                                         *)
(*   ledger --PUT positions--> server: subscription + snapshot shown       *)
(*   (collector)                          ^ administrator                  *)
(*                                                                         *)
(* A PUT carries the whole snapshot: the positions and the operations they *)
(* follow from.  The server judges it by the subscription it reads first,  *)
(* and replaces what it shows later in the same transaction; nothing keeps *)
(* the subscription as it was in between.  A PUT may time out and still be *)
(* handled, while the next is under way.                                   *)
(*                                                                         *)
(* The account has one order at each moment, so that a ledger is a set of  *)
(* moments; what the positions are is in TradeReconciler, and what a page  *)
(* of orders leaves out in TradeLedger.                                    *)
(***************************************************************************)
EXTENDS Integers, FiniteSets

CONSTANTS
  EndOfTime,      \* bound: the last moment
  OpsLimit,       \* operations in a snapshot, at most (2000)
  MaxEdits,       \* bound: edits by the administrator
  MaxFaults       \* bound: PUTs that time out or are lost, and crashes

ASSUME SnapshotAssumption ==
  /\ EndOfTime \in Nat /\ OpsLimit \in Nat \ {0}
  /\ MaxEdits \in Nat /\ MaxFaults \in Nat

Times == 1..EndOfTime
NoStart == 0      \* no positionStartAt: every order counts
NoRows == "NONE"  \* the status of no positions at all

VARIABLES
  now,
  \* the server
  startAt, enabled, deleted,  \* the row of the subscription
  shown,          \* position_estimates and position_operations
  arrived,        \* PUTs on their way
  judged,         \* PUTs that passed the checks, not yet committed
  \* the collector's SQLite file
  tradeStart,     \* subscription_state.trade_start_at
  ledger,         \* trade_events
  status,         \* of the position_estimates
  \* the provider
  gapped,         \* its orders no longer reach back to the ledger
  \* the collector's memory
  phase,          \* "idle", "fetch", "sync", "wait"
  \* bookkeeping
  edits, faults,
  raced,          \* an edit came between the two halves of a PUT
  overlapped      \* two PUTs were handled at a time

subscription == <<startAt, enabled, deleted>>
requests == <<arrived, judged>>
store == <<tradeStart, ledger, status, gapped>>
bounds == <<edits, faults>>
flags == <<raced, overlapped>>
vars == <<now, subscription, shown, requests, store, phase, bounds, flags>>

\* The operations of the orders L: the newest OpsLimit of them.
Operations(L) == {t \in L : Cardinality({u \in L : u > t}) < OpsLimit}

\* What the tables hold: positions inferred from the orders basis, and ops.
NothingShown == [basis |-> {}, status |-> NoRows, ops |-> {}]

-----------------------------------------------------------------------------
(* The account and the administrator.                                      *)

Trade ==
  /\ now < EndOfTime
  /\ now' = now + 1
  /\ UNCHANGED <<subscription, shown, requests, store, phase, bounds, flags>>

Edit ==
  /\ edits < MaxEdits
  /\ edits' = edits + 1
  /\ UNCHANGED <<now, requests, store, phase, faults, overlapped>>

\* Mutant of ClearPositionLedger: the operations stay.
ClearEstimates ==
  /\ shown' = [shown EXCEPT !.basis = {}, !.status = NoRows]
  /\ raced' = (raced \/ judged # {})

\* _clear_position_ledger
ClearPositionLedger ==
  /\ shown' = NothingShown
  /\ raced' = (raced \/ judged # {})

\* update_subscription with another positionStartAt.
MoveStart ==
  /\ Edit
  /\ ~deleted
  /\ startAt' \in Times \ {startAt}
  /\ ClearPositionLedger
  /\ UNCHANGED <<enabled, deleted>>

\* update_subscription with enabled.
Switch ==
  /\ Edit
  /\ ~deleted
  /\ enabled' = ~enabled
  /\ UNCHANGED <<startAt, deleted, shown, raced>>

\* delete_subscription: the row and its positions stay.
Delete ==
  /\ Edit
  /\ ~deleted
  /\ deleted' = TRUE /\ enabled' = FALSE
  /\ UNCHANGED <<startAt, shown, raced>>

\* create_subscription for an account that was deleted: the same row again.
Revive ==
  /\ Edit
  /\ deleted
  /\ deleted' = FALSE /\ enabled' = TRUE
  /\ startAt' \in Times \cup {NoStart}
  /\ ClearPositionLedger

-----------------------------------------------------------------------------
(* The collector.                                                          *)

\* Mutant of EnsureTradeStart: the ledger survives a move to an earlier start.
EnsureKeepsNewer ==
  IF tradeStart <= startAt
  THEN UNCHANGED store
  ELSE /\ tradeStart' = startAt
       /\ UNCHANGED <<ledger, status, gapped>>

\* ensure_trade_start
EnsureTradeStart ==
  IF tradeStart = startAt
  THEN UNCHANGED store
  ELSE /\ tradeStart' = startAt
       /\ ledger' = {} /\ status' = NoRows /\ gapped' = FALSE

\* The configuration lists what is not deleted; a start time is adopted also by a
\* disabled subscription.
FetchConfig ==
  /\ phase = "idle"
  /\ ~deleted
  /\ EnsureTradeStart
  /\ phase' = IF enabled /\ startAt <= now THEN "fetch" ELSE "idle"
  /\ UNCHANGED <<now, subscription, shown, requests, bounds, flags>>

\* A subscription that was deleted is not listed: its file stays as it is.
NotListed ==
  /\ phase = "idle"
  /\ deleted
  /\ UNCHANGED vars

NotDue ==
  /\ phase = "fetch"
  /\ phase' = "idle"
  /\ UNCHANGED <<now, subscription, shown, requests, store, bounds, flags>>

\* Everything from the start time on is in the ledger; a snapshot follows, also
\* of an empty one.
GoodFetch ==
  /\ phase = "fetch"
  /\ ~gapped
  /\ ledger' = ledger \cup {t \in 1..now : t >= tradeStart}
  /\ status' = IF ledger' = {} THEN NoRows ELSE "ACTIVE"
  /\ phase' = "sync"
  /\ UNCHANGED <<now, subscription, shown, requests, tradeStart, gapped, bounds,
                 flags>>

\* Mutant of Mark: a failure makes up positions where there are none.
MarkAnyway(s) ==
  /\ status' = s
  /\ phase' = "sync"
  /\ UNCHANGED <<now, subscription, shown, requests, tradeStart, ledger, bounds,
                 flags>>

\* Positions that exist get another status and are sent with it.
Mark(s) ==
  /\ status' = IF ledger = {} THEN NoRows ELSE s
  /\ phase' = IF ledger = {} THEN "idle" ELSE "sync"
  /\ UNCHANGED <<now, subscription, shown, requests, tradeStart, ledger, bounds,
                 flags>>

\* Mutant of FetchFails: the failure is kept to oneself.
FetchFailsSilently ==
  /\ phase = "fetch"
  /\ status' = IF ledger = {} THEN NoRows ELSE "STALE"
  /\ phase' = "idle"
  /\ UNCHANGED <<now, subscription, shown, requests, tradeStart, ledger, gapped,
                 bounds, flags>>

FetchFails ==
  /\ phase = "fetch"
  /\ Mark("STALE")
  /\ UNCHANGED gapped

\* TradeHistoryGap: lasts until another start time is adopted.
GapFound ==
  /\ phase = "fetch"
  /\ tradeStart # NoStart \/ ledger # {}
  /\ gapped' = TRUE
  /\ Mark("UNKNOWN")

Snapshot ==
  [basis |-> ledger, status |-> status, ops |-> Operations(ledger),
   late |-> FALSE]

\* replace_positions sends what the file holds now.
SendPut ==
  /\ phase = "sync"
  /\ phase' = "wait"
  /\ arrived' = arrived \cup {Snapshot}
  /\ UNCHANGED <<now, subscription, shown, judged, store, bounds, flags>>

Awaited == {r \in arrived \cup {j.request : j \in judged} : ~r.late}

\* An answer, of whatever status: the cycle goes on.
PutReturns ==
  /\ phase = "wait"
  /\ Awaited = {}
  /\ phase' = "idle"
  /\ UNCHANGED <<now, subscription, shown, requests, store, bounds, flags>>

Late(r) == [r EXCEPT !.late = TRUE]

Abandon(keep) ==
  /\ faults < MaxFaults
  /\ faults' = faults + 1
  /\ phase' = "idle"
  /\ arrived' = {Late(r) : r \in keep}
  /\ judged' = {[j EXCEPT !.request = Late(@)] : j \in judged}
  /\ UNCHANGED <<now, subscription, shown, store, edits, flags>>

\* A timeout or an error of the network: the PUT is lost, or handled later.
PutFails ==
  /\ phase = "wait"
  /\ Abandon(arrived) \/ Abandon(arrived \ Awaited)

Crash ==
  /\ phase # "idle"
  /\ Abandon(arrived)

-----------------------------------------------------------------------------
(* The server: replace_subscription_positions.                             *)

\* Mutant of BeforeStart: only the positions are looked at.
PositionsBeforeStart(r) == \E t \in r.basis : t < startAt /\ \A u \in r.basis : u <= t

\* A position is as old as its last order, an operation as old as itself.
BeforeStart(r) ==
  \/ \E t \in r.basis : t < startAt /\ \A u \in r.basis : u <= t
  \/ \E t \in r.ops : t < startAt

\* 404 and 409 leave everything as it is.
ServerRefuses(r) ==
  /\ r \in arrived
  /\ deleted \/ BeforeStart(r)
  /\ arrived' = arrived \ {r}
  /\ UNCHANGED <<now, subscription, shown, judged, store, phase, bounds, flags>>

\* The first read opens the view of the transaction: the operations there are
\* will be read in it.
ServerReads(r) ==
  /\ r \in arrived
  /\ ~deleted /\ ~BeforeStart(r)
  /\ arrived' = arrived \ {r}
  /\ judged' = judged \cup {[request |-> r, view |-> shown.ops]}
  /\ overlapped' = (overlapped \/ judged # {})
  /\ UNCHANGED <<now, subscription, shown, store, phase, bounds, raced>>

\* Mutant of Replaced: operations that are no longer sent stay.
ReplacedUpserts(j) ==
  [basis |-> j.request.basis, status |-> j.request.status,
   ops |-> shown.ops \cup j.request.ops]

\* All positions are replaced; of the operations those in view that were not sent
\* are deleted.
Replaced(j) ==
  [basis |-> j.request.basis, status |-> j.request.status,
   ops |-> (shown.ops \ (j.view \ j.request.ops)) \cup j.request.ops]

\* An operation in view that is gone cannot be updated, and one that came since
\* cannot be inserted: the transaction fails, with an answer 500.
Commits(j) ==
  /\ j.view \cap j.request.ops \subseteq shown.ops
  /\ (j.request.ops \ j.view) \cap shown.ops = {}

\* From the first deletion to the commit the rows are locked.
ServerReplaces(j) ==
  /\ j \in judged
  /\ judged' = judged \ {j}
  /\ shown' = IF Commits(j) THEN Replaced(j) ELSE shown
  /\ UNCHANGED <<now, subscription, arrived, store, phase, bounds, flags>>

-----------------------------------------------------------------------------
Init ==
  /\ now = 0
  /\ startAt \in Times \cup {NoStart} /\ enabled = TRUE /\ deleted = FALSE
  /\ shown = NothingShown /\ arrived = {} /\ judged = {}
  /\ tradeStart = NoStart /\ ledger = {} /\ status = NoRows /\ gapped = FALSE
  /\ phase = "idle"
  /\ edits = 0 /\ faults = 0 /\ raced = FALSE /\ overlapped = FALSE

Fetch == GoodFetch \/ FetchFails \/ GapFound

Handle == \/ \E r \in arrived : ServerRefuses(r) \/ ServerReads(r)
          \/ \E j \in judged : ServerReplaces(j)

Next ==
  \/ Trade \/ MoveStart \/ Switch \/ Delete \/ Revive
  \/ FetchConfig \/ NotListed \/ NotDue \/ GoodFetch \/ FetchFails \/ GapFound
  \/ SendPut \/ PutReturns \/ PutFails \/ Crash
  \/ Handle

Spec == Init /\ [][Next]_vars

\* The collector's cycles and the server go on, and a subscription that is
\* listed, enabled and started is due some time.  Nothing is assumed of what a
\* fetch brings.
FairSpec ==
  /\ Spec
  /\ WF_vars(FetchConfig) /\ WF_vars(NotDue \/ Fetch) /\ SF_vars(Fetch)
  /\ WF_vars(SendPut) /\ WF_vars(PutReturns)
  /\ WF_vars(Handle)

-----------------------------------------------------------------------------
(* Properties.                                                             *)

Statuses == {NoRows, "ACTIVE", "STALE", "UNKNOWN"}
Snapshots == [basis: SUBSET Times, status: Statuses, ops: SUBSET Times,
              late: BOOLEAN]

Shape ==
  /\ now \in 0..EndOfTime
  /\ startAt \in 0..EndOfTime /\ enabled \in BOOLEAN /\ deleted \in BOOLEAN
  /\ shown \in [basis: SUBSET Times, status: Statuses, ops: SUBSET Times]
  /\ arrived \subseteq Snapshots
  /\ judged \subseteq [request: Snapshots, view: SUBSET Times]
  /\ tradeStart \in 0..EndOfTime /\ ledger \subseteq Times /\ status \in Statuses
  /\ gapped \in BOOLEAN /\ phase \in {"idle", "fetch", "sync", "wait"}
  /\ edits \in 0..MaxEdits /\ faults \in 0..MaxFaults
  /\ raced \in BOOLEAN /\ overlapped \in BOOLEAN
  /\ (status = NoRows) = (ledger = {})

\* The shape of the state; the collector awaits at most one answer, and only
\* while it waits for one, and has positions exactly when it has orders.
TypeOK ==
  /\ Shape
  /\ phase # "wait" => Awaited = {}
  /\ Cardinality(Awaited) <= 1

\* Nothing from before positionStartAt is shown, and no position that follows
\* from it, although the collector works with the start time it has read and a
\* PUT may arrive long after the start time was moved - unless an edit came
\* between the check of a PUT and its commit, or the operations that would give
\* the snapshot away were cut off (docs/deployment.md:186).
NothingBeforeStart ==
  ~raced =>
    /\ \A t \in shown.ops : t >= startAt
    /\ Cardinality(shown.basis) <= OpsLimit => \A t \in shown.basis : t >= startAt

\* Positions and operations that are shown belong to one snapshot, whatever was
\* cleared, refused or failed in between: the dashboard never explains a position
\* with the operations of another - unless two PUTs are handled at a time.
OneSnapshot ==
  ~overlapped => shown.ops = Operations(shown.basis)

Current ==
  LET due == {t \in 1..now : t >= startAt}
  IN  shown.basis = due /\ shown.ops = Operations(due)

\* If fetches succeed again and again, the server comes to show what follows from
\* the start time it has now, and nothing else: a start time that was moved back
\* and forth, a deletion, a snapshot that came late or was mixed with another is
\* made good by a later cycle, and no refusal lasts.
ServerCatchesUp == []<><<GoodFetch>>_vars => <>[]Current

\* What the collector no longer vouches for is not shown as current for good: if
\* from some time on its positions are stale or unknown, then so are the shown.
StaleIsTold ==
  <>[](status \in {"STALE", "UNKNOWN"} /\ enabled /\ ~deleted /\ tradeStart = startAt)
    => <>[](shown.status # "ACTIVE")

=============================================================================
