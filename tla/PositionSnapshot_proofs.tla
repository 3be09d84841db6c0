----------------------- MODULE PositionSnapshot_proofs -----------------------
(***************************************************************************)
(* Proofs about the snapshots of positions, for any length of time, any    *)
(* cut of the operations and any number of edits, faults and crashes.      *)
(***************************************************************************)
EXTENDS PositionSnapshot, FiniteSetTheorems, TLAPS

\* The collector awaits one answer, and only while it waits.
AwaitsOne ==
  /\ phase # "wait" => Awaited = {}
  /\ \A r, s \in Awaited : r = s

Requests == arrived \cup {j.request : j \in judged}

\* A request brings the operations its positions follow from.
RequestsAreWhole == \A r \in Requests : r.ops = Operations(r.basis)

\* Without overlap a transaction is alone, and sees the operations it replaces.
ViewIsCurrent ==
  ~overlapped =>
    /\ \A j, k \in judged : j = k
    /\ \A j \in judged : shown.ops \subseteq j.view

\* What has passed the check would pass it now, if no edit came in between.
JudgedIsCurrent == ~raced => \A j \in judged : ~BeforeStart(j.request)

IInv ==
  /\ Shape /\ AwaitsOne
  /\ RequestsAreWhole /\ ViewIsCurrent /\ JudgedIsCurrent
  /\ OneSnapshot /\ NothingBeforeStart

-----------------------------------------------------------------------------
(* Type correctness.                                                       *)

LEMMA OneIsCounted ==
  ASSUME Shape, AwaitsOne
  PROVE  TypeOK
<1>1. CASE Awaited = {}
  <2>1. Cardinality(Awaited) = 0
    BY <1>1, FS_EmptySet
  <2> QED
    BY <2>1 DEF Shape, AwaitsOne, TypeOK
<1>2. CASE Awaited # {}
  <2>1. PICK r \in Awaited : TRUE
    BY <1>2
  <2>2. Awaited = {r}
    BY <2>1 DEF AwaitsOne
  <2>3. Cardinality(Awaited) = 1
    BY <2>2, FS_Singleton
  <2> QED
    BY <2>3 DEF Shape, AwaitsOne, TypeOK
<1> QED
  BY <1>1, <1>2

LEMMA OperationsAreThere ==
  ASSUME NEW L
  PROVE  Operations(L) \subseteq L
BY DEF Operations

LEMMA SnapshotIsTyped ==
  ASSUME Shape
  PROVE  Snapshot \in Snapshots /\ Snapshot.late = FALSE
<1>1. Operations(ledger) \subseteq Times
  BY OperationsAreThere DEF Shape
<1> QED
  BY <1>1 DEF Shape, Snapshot, Snapshots

LEMMA LateIsTyped ==
  ASSUME NEW r \in Snapshots
  PROVE  /\ Late(r) \in Snapshots /\ Late(r).late = TRUE
         /\ Late(r).basis = r.basis /\ Late(r).ops = r.ops
BY DEF Late, Snapshots

\* The collector gives up on its requests: they are all late.
LEMMA AbandonKeepsShape ==
  ASSUME Shape, AwaitsOne, NEW keep \in SUBSET arrived, Abandon(keep)
  PROVE  Shape' /\ AwaitsOne'
<1>1. arrived' \subseteq Snapshots /\ \A r \in arrived' : r.late = TRUE
  BY LateIsTyped DEF Shape, Abandon
<1>2. ASSUME NEW j \in judged
      PROVE  LET l == [j EXCEPT !.request = Late(@)]
             IN  /\ l \in [request: Snapshots, view: SUBSET Times]
                 /\ l.request.late = TRUE
  <2>1. j.request \in Snapshots /\ j.view \in SUBSET Times
        /\ j = [request |-> j.request, view |-> j.view]
    BY DEF Shape
  <2>2. [j EXCEPT !.request = Late(@)] = [request |-> Late(j.request), view |-> j.view]
    BY <2>1
  <2> QED
    BY <2>1, <2>2, LateIsTyped
<1>3. /\ judged' \subseteq [request: Snapshots, view: SUBSET Times]
      /\ \A j \in judged' : j.request.late = TRUE
  BY <1>2 DEF Abandon
<1>4. AwaitsOne'
  BY <1>1, <1>3 DEF Abandon, AwaitsOne, Awaited
<1>5. faults' \in 0..MaxFaults
  BY SnapshotAssumption DEF Shape, Abandon
<1>6. Shape'
  BY <1>1, <1>3, <1>5 DEF Shape, Abandon, store, flags, subscription
<1> QED
  BY <1>4, <1>6

\* No step but those of the collector and of the server touches a request.
LEMMA FewerAwaited ==
  ASSUME AwaitsOne, Awaited' \subseteq Awaited,
         phase' = "wait" \/ phase # "wait" \/ Awaited = {}
  PROVE  AwaitsOne'
BY DEF AwaitsOne

LEMMA EditKeepsShape ==
  ASSUME Shape, AwaitsOne, MoveStart \/ Switch \/ Delete \/ Revive
  PROVE  Shape' /\ AwaitsOne'
<1>1. Edit
  BY DEF MoveStart, Switch, Delete, Revive
<1>2. edits' \in 0..MaxEdits
  BY <1>1, SnapshotAssumption DEF Shape, Edit
<1>3. AwaitsOne'
  BY <1>1, FewerAwaited DEF Edit, Awaited, requests
<1>4. startAt' \in 0..EndOfTime
  BY SnapshotAssumption
  DEF Shape, MoveStart, Switch, Delete, Revive, Times, NoStart
<1>5. shown' \in [basis: SUBSET Times, status: Statuses, ops: SUBSET Times]
  BY DEF Shape, MoveStart, Switch, Delete, Revive, ClearPositionLedger,
         NothingShown, Statuses
<1>6. enabled' \in BOOLEAN /\ deleted' \in BOOLEAN /\ raced' \in BOOLEAN
  BY DEF Shape, MoveStart, Switch, Delete, Revive, ClearPositionLedger
<1>7. Shape'
  BY <1>1, <1>2, <1>4, <1>5, <1>6 DEF Shape, Edit, requests, store
<1> QED
  BY <1>3, <1>7

LEMMA CollectorKeepsShape ==
  ASSUME Shape, AwaitsOne,
         FetchConfig \/ NotDue \/ GoodFetch \/ FetchFails \/ GapFound
  PROVE  Shape' /\ AwaitsOne'
<1>1. UNCHANGED <<now, subscription, shown, requests, bounds, flags>>
  BY DEF FetchConfig, NotDue, GoodFetch, FetchFails, GapFound, Mark
<1>2. AwaitsOne'
  <2>1. Awaited' = Awaited
    BY <1>1 DEF Awaited, requests
  <2>2. phase # "wait"
    BY DEF FetchConfig, NotDue, GoodFetch, FetchFails, GapFound
  <2> QED
    BY <2>1, <2>2, FewerAwaited
<1>3. ledger' \subseteq Times
  <2>1. ledger' \subseteq ledger \cup 1..now
    BY DEF FetchConfig, EnsureTradeStart, NotDue, GoodFetch, FetchFails,
           GapFound, Mark, store
  <2>2. 1..now \subseteq Times
    BY SnapshotAssumption DEF Shape, Times
  <2> QED
    BY <2>1, <2>2 DEF Shape
<1>4. status' \in Statuses /\ ((status' = NoRows) = (ledger' = {}))
  BY DEF Shape, FetchConfig, EnsureTradeStart, NotDue, GoodFetch, FetchFails,
         GapFound, Mark, store, Statuses, NoRows
<1>5. tradeStart' \in 0..EndOfTime /\ gapped' \in BOOLEAN
  BY DEF Shape, FetchConfig, EnsureTradeStart, NotDue, GoodFetch, FetchFails,
         GapFound, Mark, store
<1>6. phase' \in {"idle", "fetch", "sync", "wait"}
  BY DEF FetchConfig, NotDue, GoodFetch, FetchFails, GapFound, Mark
<1>7. Shape'
  BY <1>1, <1>3, <1>4, <1>5, <1>6
  DEF Shape, subscription, requests, bounds, flags
<1> QED
  BY <1>2, <1>7

LEMMA ServerKeepsShape ==
  ASSUME Shape, AwaitsOne, Handle
  PROVE  Shape' /\ AwaitsOne'
<1>1. ASSUME NEW r \in arrived, ServerRefuses(r)
      PROVE  Shape' /\ AwaitsOne'
  <2>1. AwaitsOne'
    BY <1>1, FewerAwaited DEF ServerRefuses, Awaited
  <2> QED
    BY <1>1, <2>1
    DEF Shape, ServerRefuses, subscription, store, bounds, flags
<1>2. ASSUME NEW r \in arrived, ServerReads(r)
      PROVE  Shape' /\ AwaitsOne'
  <2>1. Awaited' \subseteq Awaited
    BY <1>2 DEF ServerReads, Awaited
  <2>2. AwaitsOne'
    BY <1>2, <2>1, FewerAwaited DEF ServerReads
  <2>3. [request |-> r, view |-> shown.ops] \in [request: Snapshots, view: SUBSET Times]
    BY DEF Shape
  <2> QED
    BY <1>2, <2>2, <2>3 DEF Shape, ServerReads, subscription, store, bounds
<1>3. ASSUME NEW j \in judged, ServerReplaces(j)
      PROVE  Shape' /\ AwaitsOne'
  <2>1. AwaitsOne'
    BY <1>3, FewerAwaited DEF ServerReplaces, Awaited
  <2>2. j.request \in Snapshots
    BY DEF Shape
  <2>3. Replaced(j) \in [basis: SUBSET Times, status: Statuses, ops: SUBSET Times]
    BY <2>2 DEF Shape, Replaced, Snapshots
  <2> QED
    BY <1>3, <2>1, <2>3
    DEF Shape, ServerReplaces, subscription, store, bounds, flags
<1> QED
  BY <1>1, <1>2, <1>3 DEF Handle

LEMMA StepKeepsShape ==
  ASSUME Shape, AwaitsOne, [Next]_vars
  PROVE  Shape' /\ AwaitsOne'
<1>1. ASSUME UNCHANGED vars
      PROVE  Shape' /\ AwaitsOne'
  BY <1>1 DEF vars, subscription, requests, store, bounds, flags, Shape,
              AwaitsOne, Awaited
<1>2. ASSUME Trade
      PROVE  Shape' /\ AwaitsOne'
  <2>1. now' \in 0..EndOfTime
    BY <1>2, SnapshotAssumption DEF Trade, Shape
  <2> QED
    BY <1>2, <2>1 DEF Trade, subscription, requests, store, bounds, flags, Shape,
                      AwaitsOne, Awaited
<1>3. ASSUME SendPut
      PROVE  Shape' /\ AwaitsOne'
  <2>1. Awaited' = {Snapshot}
    BY <1>3, SnapshotIsTyped DEF SendPut, Awaited, AwaitsOne
  <2>2. AwaitsOne'
    BY <1>3, <2>1 DEF SendPut, AwaitsOne
  <2> QED
    BY <1>3, <2>2, SnapshotIsTyped
    DEF SendPut, Shape, subscription, store, bounds, flags
<1>4. ASSUME PutReturns
      PROVE  Shape' /\ AwaitsOne'
  BY <1>4 DEF PutReturns, subscription, requests, store, bounds, flags, Shape,
              AwaitsOne, Awaited
<1>5. ASSUME PutFails \/ Crash
      PROVE  Shape' /\ AwaitsOne'
  <2>1. PICK keep \in SUBSET arrived : Abandon(keep)
    BY <1>5 DEF PutFails, Crash
  <2> QED
    BY <2>1, AbandonKeepsShape
<1> QED
  BY <1>1, <1>2, <1>3, <1>4, <1>5, EditKeepsShape, CollectorKeepsShape,
     ServerKeepsShape DEF Next, NotListed

LEMMA InitHasShape == Init => Shape /\ AwaitsOne
<1> SUFFICES ASSUME Init PROVE Shape /\ AwaitsOne
  OBVIOUS
<1>1. startAt \in 0..EndOfTime /\ tradeStart \in 0..EndOfTime /\ now \in 0..EndOfTime
  BY SnapshotAssumption DEF Init, Times, NoStart
<1>2. edits \in 0..MaxEdits /\ faults \in 0..MaxFaults
  BY SnapshotAssumption DEF Init
<1>3. shown \in [basis: SUBSET Times, status: Statuses, ops: SUBSET Times]
  BY DEF Init, NothingShown, Statuses
<1>4. AwaitsOne
  BY DEF Init, AwaitsOne, Awaited
<1> QED
  BY <1>1, <1>2, <1>3, <1>4 DEF Init, Shape, Statuses

\* The state keeps its shape, and the collector never has two answers to wait for.
THEOREM TypeCorrect == Spec => []TypeOK
<1>1. Shape /\ AwaitsOne /\ [Next]_vars => Shape' /\ AwaitsOne'
  BY StepKeepsShape
<1>2. Shape /\ AwaitsOne => TypeOK
  BY OneIsCounted
<1> QED
  BY InitHasShape, <1>1, <1>2, PTL DEF Spec

-----------------------------------------------------------------------------
(* One snapshot of the start time there is.                                *)

\* What happens to requests: they stay, late or not, or are new and whole.
LEMMA RequestsStayWhole ==
  ASSUME Shape, RequestsAreWhole, [Next]_vars
  PROVE  RequestsAreWhole'
<1>1. ASSUME Requests' \subseteq Requests
      PROVE  RequestsAreWhole'
  BY <1>1 DEF RequestsAreWhole, Operations
<1>2. ASSUME SendPut
      PROVE  RequestsAreWhole'
  <2>1. Requests' \subseteq Requests \cup {Snapshot}
    BY <1>2 DEF SendPut, Requests
  <2>2. Snapshot.ops = Operations(Snapshot.basis)
    BY DEF Snapshot
  <2> QED
    BY <2>1, <2>2 DEF RequestsAreWhole, Operations
<1>3. ASSUME PutFails \/ Crash
      PROVE  RequestsAreWhole'
  <2>1. PICK keep \in SUBSET arrived : Abandon(keep)
    BY <1>3 DEF PutFails, Crash
  <2>2. ASSUME NEW s \in Requests'
        PROVE  \E r \in Requests : s.basis = r.basis /\ s.ops = r.ops
    <3>1. CASE s \in arrived'
      <4>1. PICK r \in arrived : s = Late(r)
        BY <2>1, <3>1 DEF Abandon
      <4> QED
        BY <4>1, LateIsTyped DEF Shape, Requests
    <3>2. CASE s \notin arrived'
      <4>1. PICK j \in judged : s = [j EXCEPT !.request = Late(@)].request
        BY <2>1, <2>2, <3>2 DEF Abandon, Requests
      <4>2. j \in [request: Snapshots, view: SUBSET Times]
        BY DEF Shape
      <4>3. s = Late(j.request) /\ j.request \in Snapshots
        BY <4>1, <4>2
      <4> QED
        BY <4>3, LateIsTyped DEF Requests
    <3> QED
      BY <3>1, <3>2
  <2> QED
    BY <2>2 DEF RequestsAreWhole, Operations
<1>4. SendPut \/ PutFails \/ Crash \/ Requests' \subseteq Requests
  <2>1. ASSUME NEW r \in arrived, ServerRefuses(r)
        PROVE  Requests' \subseteq Requests
    BY <2>1 DEF ServerRefuses, Requests
  <2>2. ASSUME NEW r \in arrived, ServerReads(r)
        PROVE  Requests' \subseteq Requests
    BY <2>2 DEF ServerReads, Requests
  <2>3. ASSUME NEW j \in judged, ServerReplaces(j)
        PROVE  Requests' \subseteq Requests
    BY <2>3 DEF ServerReplaces, Requests
  <2>4. ASSUME UNCHANGED requests
        PROVE  Requests' \subseteq Requests
    BY <2>4 DEF Requests, requests
  <2> QED
    BY <2>1, <2>2, <2>3, <2>4
    DEF Next, Handle, vars, requests, Trade, MoveStart, Switch, Delete, Revive, Edit,
        FetchConfig, NotListed, NotDue, GoodFetch, FetchFails, GapFound, Mark,
        PutReturns
<1> QED
  BY <1>1, <1>2, <1>3, <1>4

\* Orders that are no more than a snapshot has room for are all in it.
LEMMA FewOperationsAreAll ==
  ASSUME NEW L \in SUBSET Times, Cardinality(L) <= OpsLimit
  PROVE  Operations(L) = L
<1>1. IsFiniteSet(L) /\ Cardinality(L) \in Nat
  <2>1. IsFiniteSet(Times)
    BY SnapshotAssumption, FS_Interval DEF Times
  <2>2. IsFiniteSet(L)
    BY <2>1, FS_Subset
  <2> QED
    BY <2>2, FS_CardinalityType
<1>2. ASSUME NEW t \in L
      PROVE  Cardinality({u \in L : u > t}) < OpsLimit
  <2> DEFINE Newer == {u \in L : u > t}
             Others == L \ {t}
  <2>1. Newer \subseteq Others
    BY SnapshotAssumption DEF Times
  <2>2. IsFiniteSet(Others) /\ Cardinality(Others) = Cardinality(L) - 1
    BY <1>1, FS_RemoveElement
  <2>3. /\ Cardinality(Newer) <= Cardinality(Others)
        /\ IsFiniteSet(Newer)
    <3> HIDE DEF Newer, Others
    <3> QED
      BY <2>1, <2>2, FS_Subset
  <2>4. Cardinality(Newer) \in Nat
    <3> HIDE DEF Newer
    <3> QED
      BY <2>3, FS_CardinalityType
  <2> HIDE DEF Newer, Others
  <2>5. Cardinality(Newer) < OpsLimit
    BY <1>1, <2>2, <2>3, <2>4, SnapshotAssumption
  <2> QED
    BY <2>5 DEF Newer
<1> QED
  BY <1>2 DEF Operations

\* An edit leaves what is shown as it was, or empty.
LEMMA EditKeepsIInv ==
  ASSUME IInv, MoveStart \/ Switch \/ Delete \/ Revive
  PROVE  ViewIsCurrent' /\ JudgedIsCurrent' /\ OneSnapshot' /\ NothingBeforeStart'
<1>1. UNCHANGED <<judged, overlapped>>
  BY DEF MoveStart, Switch, Delete, Revive, Edit, requests
<1>2. CASE UNCHANGED <<startAt, shown, raced>>
  BY <1>1, <1>2
  DEF IInv, ViewIsCurrent, JudgedIsCurrent, BeforeStart, OneSnapshot, Operations,
      NothingBeforeStart
<1>3. CASE ClearPositionLedger
  <2>1. shown'.ops = {} /\ shown'.basis = {} /\ Operations({}) = {}
    BY <1>3, OperationsAreThere DEF ClearPositionLedger, NothingShown
  <2>2. OneSnapshot' /\ NothingBeforeStart' /\ ViewIsCurrent'
    BY <1>1, <2>1
    DEF OneSnapshot, NothingBeforeStart, Operations, IInv, ViewIsCurrent
  <2>3. JudgedIsCurrent'
    BY <1>1, <1>3 DEF ClearPositionLedger, JudgedIsCurrent
  <2> QED
    BY <2>2, <2>3
<1> QED
  BY <1>2, <1>3 DEF MoveStart, Switch, Delete, Revive

\* A request that was given up on is judged as it was.
LEMMA AbandonKeepsIInv ==
  ASSUME IInv, NEW keep \in SUBSET arrived, Abandon(keep)
  PROVE  ViewIsCurrent' /\ JudgedIsCurrent' /\ OneSnapshot' /\ NothingBeforeStart'
<1>1. UNCHANGED <<startAt, shown, raced, overlapped>>
  BY DEF Abandon, subscription, flags
<1>2. ASSUME NEW k \in judged'
      PROVE  \E j \in judged : /\ k = [j EXCEPT !.request = Late(@)]
                             /\ k.view = j.view
                             /\ k.request.ops = j.request.ops
                             /\ k.request.basis = j.request.basis
  <2>1. PICK j \in judged : k = [j EXCEPT !.request = Late(@)]
    BY DEF Abandon
  <2>2. j \in [request: Snapshots, view: SUBSET Times]
    BY DEF IInv, Shape
  <2>3. j.request \in Snapshots /\ k.request = Late(j.request) /\ k.view = j.view
    BY <2>1, <2>2
  <2> QED
    BY <2>1, <2>3, LateIsTyped
<1>3. ViewIsCurrent'
  BY <1>1, <1>2 DEF IInv, ViewIsCurrent
<1>4. JudgedIsCurrent'
  BY <1>1, <1>2 DEF IInv, JudgedIsCurrent, BeforeStart
<1>5. OneSnapshot' /\ NothingBeforeStart'
  BY <1>1 DEF IInv, OneSnapshot, NothingBeforeStart, Operations
<1> QED
  BY <1>3, <1>4, <1>5

LEMMA ReadKeepsIInv ==
  ASSUME IInv, NEW r \in arrived, ServerReads(r)
  PROVE  ViewIsCurrent' /\ JudgedIsCurrent' /\ OneSnapshot' /\ NothingBeforeStart'
<1>1. UNCHANGED <<startAt, shown, raced>>
  BY DEF ServerReads, subscription
<1>2. /\ judged' = judged \cup {[request |-> r, view |-> shown.ops]}
      /\ overlapped' = (overlapped \/ judged # {})
  BY DEF ServerReads
<1>3. ViewIsCurrent'
  <2>1. ASSUME ~overlapped'
        PROVE  judged' = {[request |-> r, view |-> shown.ops]}
    BY <1>2, <2>1
  <2>2. ~overlapped' => /\ \A j, k \in judged' : j = k
                        /\ \A j \in judged' : shown'.ops \subseteq j.view
    BY <1>1, <2>1
  <2> QED
    BY <2>2 DEF ViewIsCurrent
<1>4. JudgedIsCurrent'
  BY <1>1, <1>2 DEF IInv, JudgedIsCurrent, BeforeStart, ServerReads
<1>5. OneSnapshot' /\ NothingBeforeStart'
  BY <1>1, <1>2 DEF IInv, OneSnapshot, NothingBeforeStart, Operations
<1> QED
  BY <1>3, <1>4, <1>5

LEMMA ReplaceKeepsIInv ==
  ASSUME IInv, NEW j \in judged, ServerReplaces(j)
  PROVE  ViewIsCurrent' /\ JudgedIsCurrent' /\ OneSnapshot' /\ NothingBeforeStart'
<1>1. UNCHANGED <<startAt, raced, overlapped>>
  BY DEF ServerReplaces, subscription, flags
<1>2. judged' = judged \ {j} /\ shown' \in {shown, Replaced(j)}
  BY DEF ServerReplaces
<1>3. ViewIsCurrent'
  <2>1. ASSUME ~overlapped
        PROVE  judged' = {}
    <3>1. \A k \in judged : k = j
      BY <2>1 DEF IInv, ViewIsCurrent
    <3> QED
      BY <1>2, <3>1
  <2> QED
    BY <1>1, <2>1 DEF ViewIsCurrent
<1>4. JudgedIsCurrent'
  BY <1>1, <1>2 DEF IInv, JudgedIsCurrent, BeforeStart
<1>5. /\ j.request.ops = Operations(j.request.basis)
      /\ j.request.basis \in SUBSET Times /\ j.request.ops \in SUBSET Times
  BY DEF IInv, Shape, RequestsAreWhole, Requests, Snapshots
<1>6. CASE shown' = shown
  BY <1>1, <1>3, <1>4, <1>6 DEF IInv, OneSnapshot, NothingBeforeStart, Operations
<1>7. CASE shown' = Replaced(j)
  <2>1. /\ shown'.basis = j.request.basis
        /\ shown'.ops = (shown.ops \ (j.view \ j.request.ops)) \cup j.request.ops
    BY <1>7 DEF Replaced
  <2>2. OneSnapshot'
    <3>1. ~overlapped => shown'.ops = j.request.ops
      BY <2>1 DEF IInv, ViewIsCurrent
    <3> QED
      BY <1>1, <1>5, <2>1, <3>1 DEF OneSnapshot, Operations
  <2>3. ASSUME ~raced
        PROVE  \A t \in j.request.ops : t >= startAt
    <3>1. \A t \in j.request.ops : ~(t < startAt)
      BY <2>3 DEF IInv, JudgedIsCurrent, BeforeStart
    <3>2. startAt \in Int /\ Times \subseteq Int
      BY SnapshotAssumption DEF IInv, Shape, Times
    <3> QED
      <4> SUFFICES ASSUME NEW t \in j.request.ops PROVE t >= startAt
        OBVIOUS
      <4>1. t \in Int /\ ~(t < startAt)
        BY <1>5, <3>1, <3>2
      <4> QED
        BY <3>2, <4>1
  <2>4. Cardinality(j.request.basis) <= OpsLimit => j.request.ops = j.request.basis
    BY <1>5, FewOperationsAreAll
  <2>5. NothingBeforeStart'
    BY <1>1, <2>1, <2>3, <2>4 DEF IInv, NothingBeforeStart
  <2> QED
    BY <1>3, <1>4, <2>2, <2>5
<1> QED
  BY <1>2, <1>3, <1>4, <1>6, <1>7

LEMMA StepKeepsIInv ==
  ASSUME IInv, [Next]_vars
  PROVE  IInv'
<1>1. Shape' /\ AwaitsOne' /\ RequestsAreWhole'
  BY StepKeepsShape, RequestsStayWhole DEF IInv
<1>2. ASSUME UNCHANGED <<startAt, shown, judged, raced, overlapped>>
      PROVE  /\ ViewIsCurrent' /\ JudgedIsCurrent'
             /\ OneSnapshot' /\ NothingBeforeStart'
  BY <1>2
  DEF IInv, ViewIsCurrent, JudgedIsCurrent, BeforeStart, OneSnapshot, Operations,
      NothingBeforeStart
<1>3. ASSUME PutFails \/ Crash
      PROVE  \E keep \in SUBSET arrived : Abandon(keep)
  BY <1>3 DEF PutFails, Crash
<1>4. \/ MoveStart \/ Switch \/ Delete \/ Revive \/ PutFails \/ Crash
      \/ \E r \in arrived : ServerReads(r)
      \/ \E j \in judged : ServerReplaces(j)
      \/ UNCHANGED <<startAt, shown, judged, raced, overlapped>>
  BY DEF Next, Handle, vars, requests, subscription, flags, Trade, FetchConfig,
         NotListed, NotDue, GoodFetch, FetchFails, GapFound, Mark, SendPut,
         PutReturns, ServerRefuses
<1>5. ViewIsCurrent' /\ JudgedIsCurrent' /\ OneSnapshot' /\ NothingBeforeStart'
  BY <1>2, <1>3, <1>4, EditKeepsIInv, AbandonKeepsIInv, ReadKeepsIInv,
     ReplaceKeepsIInv
<1> QED
  BY <1>1, <1>5 DEF IInv

LEMMA Invariance == Spec => []IInv
<1>1. Init => IInv
  <2> SUFFICES ASSUME Init PROVE IInv
    OBVIOUS
  <2>1. RequestsAreWhole /\ ViewIsCurrent /\ JudgedIsCurrent
    BY DEF Init, RequestsAreWhole, Requests, ViewIsCurrent, JudgedIsCurrent
  <2>2. OneSnapshot /\ NothingBeforeStart
    BY OperationsAreThere DEF Init, OneSnapshot, NothingBeforeStart, NothingShown
  <2> QED
    BY InitHasShape, <2>1, <2>2 DEF IInv
<1>2. IInv /\ [Next]_vars => IInv'
  BY StepKeepsIInv
<1> QED
  BY <1>1, <1>2, PTL DEF Spec

\* The positions and the operations that are shown are of one snapshot, however
\* often the ledger was cleared and whatever was refused, late or lost, as long as
\* no two PUTs are handled at a time.
THEOREM OneSnapshotIsShown == Spec => []OneSnapshot
<1>1. IInv => OneSnapshot
  BY DEF IInv
<1> QED
  BY <1>1, Invariance, PTL

\* Nothing from before the start time is shown, as long as no edit comes between
\* the check of a snapshot and its commit.
THEOREM NothingOldIsShown == Spec => []NothingBeforeStart
<1>1. IInv => NothingBeforeStart
  BY DEF IInv
<1> QED
  BY <1>1, Invariance, PTL

=============================================================================
