-------------------------- MODULE TradeLedger_proofs --------------------------
(***************************************************************************)
(* Proofs about the ledger of one subscription and the positions inferred  *)
(* from it, for any page, window, quantities and symbols, and any order of *)
(* trades, fetches, failures, crashes and edits of the start time.         *)
(***************************************************************************)
EXTENDS TradeLedger, OrderLemmas

\* What the account's orders look like.
OrdersInv ==
  /\ now \in 0..EndOfTime /\ IsFiniteSet(orders)
  /\ \A r \in orders :
       /\ r.time \in 1..now /\ r.id = r.time /\ r.revision = 1 /\ r.observed = 1
       /\ r.operation \in {"INCREASE", "DECREASE"}
       /\ r.key \in Keys /\ r.quantity \in Quantities /\ r.price \in Nat
  /\ \A q, r \in orders : q.time = r.time => q = r

\* A start time is a moment.
LEMMA StartIsTime ==
  ASSUME NEW s \in Start
  PROVE  s \in Int /\ (s # NoStart => s \in Nat /\ s # 0)
<1>1. StartTimes \subseteq 1..EndOfTime /\ EndOfTime \in Nat
  BY LedgerAssumption
<1> QED
  BY <1>1 DEF Start, NoStart

\* What the order at time n, if there is one, adds to the quantity of key k.
Gain(k, n) == IF \E r \in orders : r.key = k /\ r.time = n
              THEN Delta(CHOOSE r \in orders : r.time = n) ELSE 0

-----------------------------------------------------------------------------
(* What is held in a key.                                                  *)

\* A sum over an interval is a function, and there is only one.
LEMMA SumExists ==
  ASSUME NEW N \in Nat, NEW G
  PROVE  \E h : h = [n \in 0..N |-> IF n = 0 THEN 0 ELSE h[n - 1] + G[n]]
<1> DEFINE Sum(h, m) == h = [n \in 0..m |-> IF n = 0 THEN 0 ELSE h[n - 1] + G[n]]
           Bad == {m \in Nat : ~\E h : Sum(h, m)}
<1>1. SUFFICES ASSUME Bad # {} PROVE FALSE
  OBVIOUS
<1>2. PICK m \in Bad : \A l \in Bad : m <= l
  <2>1. Bad \in SUBSET Nat
    OBVIOUS
  <2> HIDE DEF Bad
  <2> QED
    BY <1>1, <2>1, LeastNatural
<1>3. CASE m = 0
  <2>1. Sum([n \in 0..0 |-> 0], 0)
    OBVIOUS
  <2> QED
    BY <1>2, <1>3, <2>1
<1>4. CASE m # 0
  <2>1. m \in Nat /\ m - 1 \in Nat /\ m - 1 \notin Bad
    <3>1. m \in Nat
      BY <1>2
    <3> HIDE DEF Bad
    <3> QED
      BY <1>2, <1>4, <3>1
  <2>2. PICK g : Sum(g, m - 1)
    BY <2>1
  <2> DEFINE h == [n \in 0..m |-> IF n = m THEN g[m - 1] + G[m] ELSE g[n]]
  <2>3. Sum(h, m)
    BY <1>4, <2>1, <2>2
  <2> QED
    BY <1>2, <2>3
<1> QED
  BY <1>3, <1>4

LEMMA SumIsUnique ==
  ASSUME NEW N \in Nat, NEW f, NEW g, NEW F, NEW G,
         \A n \in 0..N : f[n] = IF n = 0 THEN 0 ELSE f[n - 1] + F[n],
         \A n \in 0..N : g[n] = IF n = 0 THEN 0 ELSE g[n - 1] + G[n],
         \A n \in 1..N : F[n] = G[n]
  PROVE  \A n \in 0..N : f[n] = g[n]
<1> DEFINE Bad == {n \in 0..N : f[n] # g[n]}
<1>1. SUFFICES ASSUME Bad # {} PROVE FALSE
  OBVIOUS
<1>2. PICK n \in Bad : \A m \in Bad : n <= m
  <2>1. Bad \in SUBSET Nat
    OBVIOUS
  <2> HIDE DEF Bad
  <2> QED
    BY <1>1, <2>1, LeastNatural
<1>3. n # 0 /\ n \in 1..N /\ n - 1 \in 0..N
  BY <1>2
<1>4. f[n - 1] = g[n - 1]
  BY <1>2, <1>3
<1> QED
  BY <1>2, <1>3, <1>4

LEMMA OrderAtItsTime ==
  ASSUME OrdersInv, NEW r \in orders
  PROVE  (CHOOSE q \in orders : q.time = r.time) = r
BY DEF OrdersInv

LEMMA GainOfOrder ==
  ASSUME OrdersInv, NEW r \in orders, NEW k
  PROVE  Gain(k, r.time) = IF r.key = k THEN Delta(r) ELSE 0
<1>1. CASE r.key = k
  <2>1. \E q \in orders : q.key = k /\ q.time = r.time
    BY <1>1
  <2>2. Gain(k, r.time) = Delta(CHOOSE q \in orders : q.time = r.time)
    BY <2>1 DEF Gain
  <2> QED
    BY <1>1, <2>2, OrderAtItsTime
<1>2. CASE r.key # k
  BY <1>2 DEF Gain, OrdersInv
<1> QED
  BY <1>1, <1>2

\* The sum Held stands for.
LEMMA HeldIsSum ==
  ASSUME OrdersInv, NEW k, NEW t \in Nat
  PROVE  \E h : /\ Held(k, t) = h[t]
                /\ \A n \in 0..t : h[n] = IF n = 0 THEN 0 ELSE h[n - 1] + Gain(k, n)
<1> DEFINE done == {r \in orders : r.key = k /\ r.time <= t}
           add(n) == IF \E r \in done : r.time = n
                     THEN Delta(CHOOSE r \in done : r.time = n) ELSE 0
           h == CHOOSE h : h = [n \in 0..t |-> IF n = 0 THEN 0 ELSE h[n - 1] + add(n)]
<1>1. ASSUME NEW n \in 0..t PROVE add(n) = Gain(k, n)
  <2>1. CASE \E r \in done : r.time = n
    <3>1. PICK r \in done : r.time = n
      BY <2>1
    <3>2. (CHOOSE q \in done : q.time = n) = r
      BY <3>1 DEF OrdersInv
    <3> QED
      BY <2>1, <3>1, <3>2, GainOfOrder
  <2>2. CASE ~\E r \in done : r.time = n
    <3>1. n <= t
      OBVIOUS
    <3> QED
      BY <2>2, <3>1 DEF Gain
  <2> QED
    BY <2>1, <2>2
<1>2. Held(k, t) = h[t]
  BY DEF Held
<1>3. h = [n \in 0..t |-> IF n = 0 THEN 0 ELSE h[n - 1] + add(n)]
  <2> DEFINE G == [n \in 0..t |-> add(n)]
  <2> HIDE DEF add
  <2>1. \E g : g = [n \in 0..t |-> IF n = 0 THEN 0 ELSE g[n - 1] + G[n]]
    BY SumExists
  <2>2. \E g : g = [n \in 0..t |-> IF n = 0 THEN 0 ELSE g[n - 1] + add(n)]
    BY <2>1
  <2> QED
    BY <2>2
<1> HIDE DEF h, add
<1> QED
  BY <1>1, <1>2, <1>3

LEMMA HeldStep ==
  ASSUME OrdersInv, NEW k
  PROVE  /\ Held(k, 0) = 0
         /\ \A t \in Nat \ {0} : Held(k, t) = Held(k, t - 1) + Gain(k, t)
<1>1. Held(k, 0) = 0
  BY HeldIsSum
<1>2. ASSUME NEW t \in Nat \ {0}
      PROVE  Held(k, t) = Held(k, t - 1) + Gain(k, t)
  <2>1. PICK m \in Nat : m = t - 1
    OBVIOUS
  <2>2. PICK h : /\ Held(k, t) = h[t]
                 /\ \A n \in 0..t : h[n] = IF n = 0 THEN 0 ELSE h[n - 1] + Gain(k, n)
    BY HeldIsSum
  <2>3. PICK g : /\ Held(k, m) = g[m]
                 /\ \A n \in 0..m : g[n] = IF n = 0 THEN 0 ELSE g[n - 1] + Gain(k, n)
    BY <2>1, HeldIsSum
  <2> DEFINE G == [n \in 0..t |-> Gain(k, n)]
  <2>4. /\ \A n \in 0..m : h[n] = IF n = 0 THEN 0 ELSE h[n - 1] + G[n]
        /\ \A n \in 0..m : g[n] = IF n = 0 THEN 0 ELSE g[n - 1] + G[n]
    BY <2>1, <2>2, <2>3
  <2>5. \A n \in 0..m : h[n] = g[n]
    <3> HIDE DEF G
    <3> QED
      BY <2>4, SumIsUnique
  <2> QED
    BY <2>1, <2>2, <2>3, <2>5
<1> QED
  BY <1>1, <1>2

\* What was held is not changed by what comes later.
LEMMA HeldStays ==
  ASSUME NEW k, NEW t,
         \A r \in orders : r \in orders',
         \A r \in orders' : r.time <= t => r \in orders
  PROVE  Held(k, t)' = Held(k, t)
<1> DEFINE Total(D) ==
             LET h[n \in 0..t] == IF n = 0 THEN 0
                                  ELSE h[n - 1] + (IF \E r \in D : r.time = n
                                                   THEN Delta(CHOOSE r \in D : r.time = n)
                                                   ELSE 0)
             IN  h[t]
           done == {r \in orders : r.key = k /\ r.time <= t}
<1>1. done' = done
  OBVIOUS
<1>2. Held(k, t) = Total(done) /\ Held(k, t)' = Total(done')
  BY DEF Held, Delta
<1> HIDE DEF Total, done
<1> QED
  BY <1>1, <1>2

\* Nothing is sold that is not held.
HoldingsInv ==
  \A r \in orders : r.operation = "DECREASE" => r.quantity <= Held(r.key, r.time - 1)

LEMMA HeldIsNatural ==
  ASSUME OrdersInv, HoldingsInv, NEW k, NEW t \in Nat
  PROVE  Held(k, t) \in Nat
<1> DEFINE Bad == {n \in Nat : Held(k, n) \notin Nat}
<1>1. SUFFICES ASSUME Bad # {} PROVE FALSE
  OBVIOUS
<1>2. PICK n \in Bad : \A m \in Bad : n <= m
  <2>1. Bad \in SUBSET Nat
    OBVIOUS
  <2> HIDE DEF Bad
  <2> QED
    BY <1>1, <2>1, LeastNatural
<1>3. n \in Nat /\ n # 0 /\ Held(k, n) \notin Nat
  BY <1>2, HeldStep
<1>4. n - 1 \in Nat /\ Held(k, n - 1) \in Nat
  <2>1. n - 1 \notin Bad
    <3> HIDE DEF Bad
    <3> QED
      BY <1>2, <1>3
  <2> QED
    BY <1>3, <2>1
<1>5. Held(k, n) = Held(k, n - 1) + Gain(k, n)
  BY <1>3, HeldStep
<1>6. PICK r \in orders : r.key = k /\ r.time = n
  BY <1>3, <1>4, <1>5 DEF Gain
<1>7. Gain(k, n) = Delta(r)
  BY <1>6, GainOfOrder
<1>8. r.quantity \in Nat /\ r.operation \in {"INCREASE", "DECREASE"}
  BY LedgerAssumption DEF OrdersInv
<1>9. r.operation = "DECREASE" => r.quantity <= Held(k, n - 1)
  BY <1>6 DEF HoldingsInv
<1> QED
  BY <1>3, <1>4, <1>5, <1>7, <1>8, <1>9 DEF Delta

AccountInv == OrdersInv /\ HoldingsInv

LEMMA TradeKeepsAccount ==
  ASSUME AccountInv, Trade
  PROVE  /\ AccountInv'
         /\ orders \subseteq orders' /\ \A r \in orders' \ orders : r.time = now + 1
<1>1. PICK k \in Keys, q \in Quantities, op \in {"INCREASE", "DECREASE"},
        price \in OrderPrices[now + 1] :
        /\ op = "DECREASE" => q <= Held(k, now)
        /\ orders' = orders \cup
             {[id |-> now + 1, revision |-> 1, time |-> now + 1, observed |-> 1,
               operation |-> op, key |-> k, quantity |-> q, price |-> price]}
  BY DEF Trade
<1> DEFINE o == [id |-> now + 1, revision |-> 1, time |-> now + 1, observed |-> 1,
                 operation |-> op, key |-> k, quantity |-> q, price |-> price]
<1>2. /\ now \in Nat /\ now' = now + 1 /\ now' \in 0..EndOfTime
      /\ price \in Nat
  <2>1. /\ now \in Nat /\ now' = now + 1 /\ now' \in 0..EndOfTime
        /\ now + 1 \in 1..EndOfTime
    BY LedgerAssumption DEF Trade, AccountInv, OrdersInv
  <2> QED
    BY <2>1, LedgerAssumption
<1>3. \A r \in orders : r.time \in 1..now
  BY DEF AccountInv, OrdersInv
<1>4. OrdersInv'
  <2>1. IsFiniteSet(orders')
    BY <1>1, FS_AddElement DEF AccountInv, OrdersInv
  <2>2. \A r \in orders' : r \in orders \/ r = o
    BY <1>1
  <2>3. ASSUME NEW r \in orders'
        PROVE  /\ r.time \in 1..now' /\ r.id = r.time /\ r.revision = 1
               /\ r.observed = 1 /\ r.operation \in {"INCREASE", "DECREASE"}
               /\ r.key \in Keys /\ r.quantity \in Quantities /\ r.price \in Nat
    BY <1>2, <1>3, <2>2 DEF AccountInv, OrdersInv
  <2>4. ASSUME NEW r \in orders', NEW s \in orders', s.time = r.time
        PROVE  s = r
    BY <1>2, <1>3, <2>2, <2>4 DEF AccountInv, OrdersInv
  <2> QED
    BY <1>2, <2>1, <2>3, <2>4 DEF OrdersInv
<1>5. ASSUME NEW r \in orders', r.operation = "DECREASE"
      PROVE  r.quantity <= Held(r.key, r.time - 1)'
  <2>1. r.time - 1 <= now
    BY <1>1, <1>2, <1>3
  <2>2. \A s \in orders' : s.time <= r.time - 1 => s \in orders
    BY <1>1, <1>2, <1>3, <2>1
  <2>3. Held(r.key, r.time - 1)' = Held(r.key, r.time - 1)
    <3> DEFINE j == r.key
               t == r.time - 1
    <3>1. \A s \in orders : s \in orders'
      BY <1>1
    <3>2. \A s \in orders' : s.time <= t => s \in orders
      BY <2>2
    <3> HIDE DEF j, t
    <3>3. Held(j, t)' = Held(j, t)
      BY <3>1, <3>2, HeldStays
    <3> QED
      BY <3>3 DEF j, t
  <2> QED
    BY <1>1, <1>2, <1>5, <2>3 DEF AccountInv, HoldingsInv
<1>6. HoldingsInv'
  BY <1>5 DEF HoldingsInv
<1> QED
  BY <1>1, <1>4, <1>6 DEF AccountInv

LEMMA SameOrdersSameAccount ==
  ASSUME AccountInv, orders' = orders, now' \in now..EndOfTime
  PROVE  AccountInv'
<1>1. OrdersInv'
  BY DEF AccountInv, OrdersInv
<1>2. ASSUME NEW r \in orders
      PROVE  Held(r.key, r.time - 1)' = Held(r.key, r.time - 1)
  <2> DEFINE j == r.key
             t == r.time - 1
  <2> HIDE DEF j, t
  <2>1. Held(j, t)' = Held(j, t)
    BY HeldStays
  <2> QED
    BY <2>1 DEF j, t
<1>3. HoldingsInv'
  BY <1>2 DEF AccountInv, HoldingsInv
<1> QED
  BY <1>1, <1>3 DEF AccountInv

-----------------------------------------------------------------------------
(* The ledger.                                                             *)

\* Orders after r.
Later(r) == {q \in orders : Before(r, q)}

\* The orders that the last fetch was not shown, and no fetch will be.
OutOfReach(r) ==
  IF tradeStart # NoStart THEN r.time < tradeStart
  ELSE r.time < fetchedAt - Window \/ Page <= Cardinality(Later(r))

Given == received \cup refused

StoreInv ==
  /\ phase \in {"idle", "fetch"} /\ stateRow \in BOOLEAN /\ baselineDone \in BOOLEAN
  /\ startAt \in Start /\ tradeStart \in Start /\ config \in Start
  /\ phase = "fetch" => config = tradeStart
  /\ fetchedAt \in 0..now
  /\ IF baselineDone THEN tradeStart <= fetchedAt
     ELSE ledger = {} /\ outbox = {} /\ fetchedAt = 0
  /\ ledger \subseteq orders
  /\ \A r \in ledger : tradeStart <= r.time /\ r.time <= fetchedAt
  /\ IF ledger = {} THEN checkpoint = NoCheckpoint
     ELSE \E r \in ledger : checkpoint = r.id
  /\ \A p \in outbox : p.record \in ledger

\* A fetch finds nothing older than the last one that was not in the ledger.
NothingOverlooked ==
  baselineDone => \A r \in orders \ ledger : r.time <= fetchedAt => OutOfReach(r)

\* The server was given nothing that a fetch of this ledger could find anew.
GivenBefore ==
  \A id \in Given : id \in 1..now /\ (baselineDone => id <= fetchedAt)

LedgerInv ==
  /\ StoreInv /\ NothingOverlooked /\ GivenBefore
  /\ LedgerHasNoHole /\ EveryTradePosted

LEMMA BeforeIsEarlier ==
  ASSUME OrdersInv, NEW q \in orders, NEW r \in orders
  PROVE  Before(q, r) <=> q.time < r.time
<1>1. q.time \in Nat /\ r.time \in Nat /\ q.id = q.time /\ r.id = r.time
  BY DEF OrdersInv
<1> QED
  BY <1>1 DEF Before

\* The provider shows the newest orders.
LEMMA ListedIsNewest ==
  ASSUME OrdersInv, config \in Start
  PROVE  /\ Listed \subseteq InWindow /\ InWindow \subseteq orders
         /\ \A r \in InWindow, q \in orders : r.time <= q.time => q \in InWindow
         /\ \A r \in Listed, q \in orders : r.time <= q.time => q \in Listed
         /\ \A r \in InWindow : {q \in InWindow : Before(r, q)} = Later(r)
<1>1. Listed \subseteq InWindow /\ InWindow \subseteq orders
  BY DEF Listed, InWindow
<1>2. RequestStart \in Int /\ \A r \in orders : r.time \in Nat
  BY StartIsTime, LedgerAssumption DEF RequestStart, NoStart, OrdersInv
<1>3. ASSUME NEW r \in InWindow, NEW q \in orders, r.time <= q.time
      PROVE  q \in InWindow
  BY <1>1, <1>2, <1>3 DEF InWindow
<1>4. ASSUME NEW r \in InWindow
      PROVE  {q \in InWindow : Before(r, q)} = Later(r)
  <2>1. ASSUME NEW q \in Later(r) PROVE q \in InWindow
    BY <1>1, <1>2, <1>3, <2>1, BeforeIsEarlier DEF Later
  <2> QED
    BY <1>1, <2>1 DEF Later
<1>5. ASSUME NEW r \in Listed, NEW q \in orders, r.time <= q.time
      PROVE  q \in Listed
  <2>1. r \in InWindow /\ q \in InWindow
    BY <1>1, <1>3, <1>5
  <2>2. Later(q) \subseteq Later(r)
    BY <1>1, <1>2, <1>5, <2>1, BeforeIsEarlier DEF Later
  <2>3. Later(r) \in SUBSET orders /\ Later(q) \in SUBSET orders
    BY DEF Later
  <2>4. /\ Cardinality(Later(q)) \in Nat /\ Cardinality(Later(r)) \in Nat
        /\ Cardinality(Later(q)) <= Cardinality(Later(r))
    BY <2>2, <2>3, SmallerSubset DEF OrdersInv
  <2>5. Cardinality(Later(r)) < Page
    BY <1>4, <1>5, <2>1 DEF Listed
  <2>6. Cardinality(Later(q)) < Page
    BY <2>4, <2>5, LedgerAssumption
  <2> QED
    BY <1>4, <2>1, <2>6 DEF Listed
<1> QED
  BY <1>1, <1>3, <1>4, <1>5

\* The checkpoint is an order, the newest that is shown.
LEMMA LatestIsMember ==
  ASSUME OrdersInv, NEW R \in SUBSET orders, R # {}, NEW c
  PROVE  \E r \in R : Latest(R, c) = r.id
<1> DEFINE T == {r.time : r \in R}
<1>1. now \in Nat /\ \A r \in R : r.time \in Nat /\ r.time <= now
  BY LedgerAssumption DEF OrdersInv
<1>2. T \in SUBSET Nat /\ T # {} /\ \A t \in T : t <= now
  BY <1>1
<1>3. PICK t \in T : \A u \in T : u <= t
  <2> HIDE DEF T
  <2> QED
    BY <1>1, <1>2, GreatestNatural
<1>4. PICK r \in R : t = r.time
  OBVIOUS
<1>5. ASSUME NEW q \in R PROVE ~Before(r, q)
  <2>1. q.time <= r.time /\ q.time \in Nat /\ r.time \in Nat
    BY <1>1, <1>3, <1>4
  <2> QED
    BY <2>1, BeforeIsEarlier
<1>6. (CHOOSE s \in R : \A q \in R : ~Before(s, q)) \in R
  BY <1>5
<1> QED
  BY <1>6 DEF Latest

\* What a fetch finds, and what it makes of the ledger.
LEMMA FetchFinds ==
  ASSUME OrdersInv, StoreInv, Fetched
  PROVE  /\ Listed \subseteq orders /\ Fresh = Listed \ ledger
         /\ ledger' = ledger \cup Listed
         /\ \A r \in ledger' : tradeStart <= r.time /\ r.time <= now
         /\ config = tradeStart /\ tradeStart <= now
         /\ config # NoStart => InWindow = Listed
         /\ IF ledger' = {} THEN checkpoint' = NoCheckpoint
            ELSE \E r \in ledger' : checkpoint' = r.id
         /\ ledger # {} => \E r \in Listed : r \in ledger
         /\ phase' = "idle" /\ baselineDone' /\ stateRow' /\ fetchedAt' = now
         /\ UNCHANGED <<now, orders, startAt, config, tradeStart, received, refused>>
<1>1. /\ phase = "fetch" /\ phase' = "idle" /\ ~HistoryGap
      /\ config = NoStart \/ now >= config
      /\ ledger' = ledger \cup Fresh
      /\ checkpoint' = Latest(Listed, checkpoint)
      /\ baselineDone' /\ stateRow' /\ fetchedAt' = now
      /\ UNCHANGED <<now, orders, startAt, config, tradeStart, received, refused>>
  BY DEF Fetched, RecordTradeFetch, server
<1>2. /\ Listed \subseteq InWindow /\ InWindow \subseteq orders
      /\ ledger \subseteq orders /\ config = tradeStart
  BY <1>1, ListedIsNewest DEF StoreInv
<1>3. \A q, r \in orders : q.id = r.id => q = r
  BY DEF OrdersInv
<1>4. Fresh = Listed \ ledger
  BY <1>2, <1>3 DEF Fresh
<1>5. now \in Nat /\ tradeStart \in Int /\ \A r \in orders : r.time \in 1..now
  BY StartIsTime, LedgerAssumption DEF StoreInv, OrdersInv, NoStart
<1>6. tradeStart <= now
  BY <1>1, <1>2, <1>5 DEF NoStart
<1>7. \A r \in Listed : tradeStart <= r.time
  <2>1. \A r \in Listed : RequestStart <= r.time
    BY <1>2 DEF InWindow
  <2> QED
    BY <1>2, <1>5, <2>1 DEF RequestStart, NoStart
<1>8. \A r \in ledger' : tradeStart <= r.time /\ r.time <= now
  BY <1>1, <1>2, <1>4, <1>5, <1>7 DEF StoreInv
<1>9. config # NoStart => InWindow = Listed
  BY <1>1 DEF HistoryGap
<1>10. ledger # {} => \E r \in Listed : r \in ledger
  <2> SUFFICES ASSUME ledger # {} PROVE \E r \in Listed : r \in ledger
    OBVIOUS
  <2>1. PICK c \in ledger : checkpoint = c.id
    BY DEF StoreInv
  <2>2. checkpoint # NoCheckpoint
    BY <1>2, <1>5, <2>1 DEF OrdersInv, NoCheckpoint
  <2>3. PICK r \in Listed : r.id = checkpoint
    BY <1>1, <2>2 DEF HistoryGap
  <2> QED
    BY <1>2, <1>3, <2>1, <2>3
<1>11. IF ledger' = {} THEN checkpoint' = NoCheckpoint
       ELSE \E r \in ledger' : checkpoint' = r.id
  <2>1. CASE Listed = {}
    BY <1>1, <1>4, <1>10, <2>1 DEF Latest, StoreInv
  <2>2. CASE Listed # {}
    BY <1>1, <1>2, <1>4, <2>2, LatestIsMember
  <2> QED
    BY <2>1, <2>2
<1> QED
  BY <1>1, <1>2, <1>4, <1>6, <1>8, <1>9, <1>10, <1>11

\* With a baseline, what is new is newer than the last fetch.
LEMMA FreshIsNewer ==
  ASSUME OrdersInv, LedgerInv, Fetched, baselineDone, NEW r \in Fresh
  PROVE  r.time > fetchedAt
<1> SUFFICES ASSUME r.time <= fetchedAt PROVE FALSE
  BY LedgerAssumption, FetchFinds DEF LedgerInv, StoreInv, OrdersInv
<1>1. r \in Listed /\ r \in InWindow /\ r \in orders \ ledger
  BY FetchFinds, ListedIsNewest DEF LedgerInv, StoreInv
<1>2. OutOfReach(r)
  BY <1>1 DEF LedgerInv, NothingOverlooked
<1>3. RequestStart <= r.time /\ config = tradeStart
  BY <1>1, FetchFinds DEF InWindow, LedgerInv
<1>4. /\ r.time \in Nat /\ tradeStart \in Int /\ fetchedAt \in Nat /\ fetchedAt <= now
      /\ now \in Nat /\ Window \in Nat
  BY <1>1, StartIsTime, LedgerAssumption DEF LedgerInv, StoreInv, OrdersInv, NoStart
<1>5. CASE tradeStart # NoStart
  BY <1>2, <1>3, <1>4, <1>5 DEF OutOfReach, RequestStart
<1>6. CASE tradeStart = NoStart
  <2>1. Page <= Cardinality(Later(r))
    BY <1>2, <1>3, <1>4, <1>6 DEF OutOfReach, RequestStart
  <2>2. Cardinality(Later(r)) < Page
    BY <1>1, ListedIsNewest DEF Listed, LedgerInv, StoreInv
  <2>3. Cardinality(Later(r)) \in Nat
    BY FS_Subset, FS_CardinalityType DEF Later, OrdersInv
  <2> QED
    BY <2>1, <2>2, <2>3, LedgerAssumption
<1> QED
  BY <1>5, <1>6

LEMMA FetchLeavesNoHole ==
  ASSUME OrdersInv, LedgerInv, Fetched
  PROVE  LedgerHasNoHole' /\ NothingOverlooked'
<1>1. /\ Listed \subseteq orders /\ ledger' = ledger \cup Listed
      /\ ledger # {} => \E r \in Listed : r \in ledger
      /\ fetchedAt' = now /\ orders' = orders /\ tradeStart' = tradeStart
      /\ config = tradeStart /\ ledger \subseteq orders
      /\ config # NoStart => InWindow = Listed
  BY FetchFinds DEF LedgerInv, StoreInv
<1>2. /\ \A r \in orders : r.time \in Nat
      /\ now \in Nat /\ fetchedAt \in Nat /\ config \in Start
  BY LedgerAssumption DEF OrdersInv, LedgerInv, StoreInv
<1>3. ASSUME NEW first \in ledger', NEW r \in orders, first.time <= r.time
      PROVE  r \in ledger'
  <2>1. CASE first \in Listed
    BY <1>1, <1>2, <1>3, <2>1, ListedIsNewest
  <2>2. CASE first \in ledger /\ r.time <= fetchedAt
    BY <1>1, <1>3, <2>2 DEF LedgerInv, LedgerHasNoHole
  <2>3. CASE first \in ledger /\ ~(r.time <= fetchedAt)
    <3>1. PICK c \in Listed : c \in ledger
      BY <1>1, <2>3
    <3>2. c.time <= r.time
      BY <1>1, <1>2, <2>3, <3>1 DEF LedgerInv, StoreInv
    <3> QED
      BY <1>1, <1>2, <3>2, ListedIsNewest
  <2> QED
    BY <1>1, <2>1, <2>2, <2>3
<1>4. LedgerHasNoHole'
  BY <1>1, <1>3 DEF LedgerHasNoHole
<1>5. ASSUME NEW r \in orders, r \notin Listed
      PROVE  IF tradeStart # NoStart THEN r.time < tradeStart
             ELSE r.time < now - Window \/ Page <= Cardinality(Later(r))
  <2>1. RequestStart \in Int /\ Cardinality(Later(r)) \in Nat
    <3>1. Cardinality(Later(r)) \in Nat
      BY FS_Subset, FS_CardinalityType DEF Later, OrdersInv
    <3> QED
      BY <1>2, <3>1, StartIsTime, LedgerAssumption DEF RequestStart, NoStart
  <2>2. CASE r \notin InWindow
    <3>1. r.time < RequestStart
      BY <1>2, <2>1, <2>2 DEF InWindow
    <3> QED
      BY <1>1, <3>1 DEF RequestStart
  <2>3. CASE r \in InWindow
    <3>1. ~(Cardinality(Later(r)) < Page)
      BY <1>2, <1>5, <2>3, ListedIsNewest DEF Listed
    <3>2. Page <= Cardinality(Later(r))
      BY <2>1, <3>1, LedgerAssumption
    <3> QED
      BY <1>1, <1>5, <2>3, <3>2
  <2> QED
    BY <2>2, <2>3
<1>6. NothingOverlooked'
  BY <1>1, <1>5 DEF NothingOverlooked, OutOfReach, Later
<1> QED
  BY <1>4, <1>6

\* The posts a fetch makes are one for each new record.
LEMMA FetchPosts ==
  ASSUME Fetched
  PROVE  IF baselineDone
         THEN /\ \A p \in outbox' : p \in outbox \/ p.record \in Fresh
              /\ \A p \in outbox : p \in outbox'
              /\ \A r \in Fresh : \E p \in outbox' : p.record = r
              /\ baseline' = baseline
         ELSE outbox' = outbox /\ baseline' = {r.id : r \in ledger'}
<1> DEFINE all == ledger \cup Fresh
           after == IF all = {} THEN positions ELSE Positions(all, config # NoStart)
           changes == PositionChanges(positions, after)
           posts == Posts(Fresh, all, changes)
<1>1. /\ outbox' = Queued(posts) /\ ledger' = all
      /\ baseline' = IF baselineDone THEN baseline ELSE {r.id : r \in all}
  BY DEF Fetched, RecordTradeFetch
<1> HIDE DEF changes
<1>2. /\ \A p \in posts : p.record \in Fresh
      /\ \A r \in Fresh : \E p \in posts : p.record = r
  <2> DEFINE post(r) == [record |-> r, action |-> Action(r, all, config # NoStart),
                         batch |-> {q.id : q \in Fresh}, changes |-> changes]
  <2>1. posts = {post(r) : r \in Fresh}
    BY DEF Posts
  <2>2. \A r \in Fresh : post(r).record = r
    OBVIOUS
  <2> HIDE DEF post, posts
  <2> QED
    BY <2>1, <2>2
<1> HIDE DEF posts, all
<1> QED
  BY <1>1, <1>2 DEF Queued

LEMMA FetchKeepsLedger ==
  ASSUME OrdersInv, LedgerInv, Fetched
  PROVE  LedgerInv'
<1>1. /\ Listed \subseteq orders /\ Fresh = Listed \ ledger
      /\ ledger' = ledger \cup Listed
      /\ \A r \in ledger' : tradeStart <= r.time /\ r.time <= now
      /\ config = tradeStart /\ tradeStart <= now
      /\ IF ledger' = {} THEN checkpoint' = NoCheckpoint
         ELSE \E r \in ledger' : checkpoint' = r.id
      /\ phase' = "idle" /\ baselineDone' /\ stateRow' /\ fetchedAt' = now
      /\ UNCHANGED <<now, orders, startAt, config, tradeStart, received, refused>>
  BY FetchFinds DEF LedgerInv
<1>2. baselineDone' = TRUE /\ stateRow' = TRUE
  BY DEF Fetched, RecordTradeFetch
<1>3. \A p \in outbox' : p.record \in ledger'
  BY <1>1, FetchPosts DEF LedgerInv, StoreInv
<1>4. now \in Nat
  BY DEF OrdersInv
<1>5. StoreInv'
  <2>1. ledger' \subseteq orders'
    BY <1>1 DEF LedgerInv, StoreInv
  <2>2. fetchedAt' \in 0..now'
    BY <1>1, <1>4
  <2> QED
    BY <1>1, <1>2, <1>3, <2>1, <2>2 DEF LedgerInv, StoreInv
<1>6. GivenBefore'
  BY <1>1 DEF LedgerInv, GivenBefore, Given
<1>7. EveryTradePosted'
  <2>1. CASE ~baselineDone
    BY <2>1, FetchPosts DEF EveryTradePosted
  <2>2. CASE baselineDone
    <3>1. ASSUME NEW r \in ledger
          PROVE  \/ r.id \in Ids(outbox') \cup received' \cup refused'
                 \/ r.id \in baseline'
      <4>1. Ids(outbox) \subseteq Ids(outbox') /\ baseline' = baseline
        BY <2>2, FetchPosts DEF Ids
      <4> QED
        BY <1>1, <4>1 DEF LedgerInv, EveryTradePosted
    <3>2. ASSUME NEW r \in Fresh PROVE r.id \in Ids(outbox')
      <4>1. PICK p \in outbox' : p.record = r
        BY <2>2, FetchPosts
      <4> QED
        BY <4>1 DEF Ids
    <3> QED
      BY <1>1, <3>1, <3>2 DEF EveryTradePosted
  <2> QED
    BY <2>1, <2>2
<1> QED
  BY <1>5, <1>6, <1>7, FetchLeavesNoHole DEF LedgerInv

\* A page of later orders stays one.
LEMMA OutOfReachStays ==
  ASSUME OrdersInv, IsFiniteSet(orders'), orders \subseteq orders',
         UNCHANGED <<tradeStart, fetchedAt>>,
         NEW r \in orders, OutOfReach(r)
  PROVE  OutOfReach(r)'
<1>1. Later(r) \subseteq Later(r)' /\ Later(r)' \in SUBSET orders'
  BY DEF Later
<1>2. /\ Cardinality(Later(r)) \in Nat /\ Cardinality(Later(r)') \in Nat
      /\ Cardinality(Later(r)) <= Cardinality(Later(r)')
  BY <1>1, SmallerSubset
<1> QED
  BY <1>2, LedgerAssumption DEF OutOfReach

\* Time passes, orders are added.
LEMMA WorldKeepsLedger ==
  ASSUME OrdersInv, LedgerInv, OrdersInv', orders \subseteq orders',
         \A r \in orders' \ orders : r.time = now + 1,
         now <= now', startAt' \in Start, phase' \in {"idle", phase},
         UNCHANGED <<store, server, config>>
  PROVE  LedgerInv'
<1>1. now \in Nat /\ now' \in Nat /\ fetchedAt \in 0..now
  BY LedgerAssumption DEF OrdersInv, LedgerInv, StoreInv
<1>2. StoreInv'
  <2>1. fetchedAt' \in 0..now'
    BY <1>1 DEF store
  <2> QED
    BY <2>1 DEF LedgerInv, StoreInv, store
<1>3. NothingOverlooked'
  <2>1. ASSUME baselineDone, NEW r \in orders', r \notin ledger, r.time <= fetchedAt
        PROVE  OutOfReach(r)'
    <3>1. r \in orders
      BY <1>1, <2>1
    <3> QED
      BY <2>1, <3>1, OutOfReachStays DEF OrdersInv, LedgerInv, NothingOverlooked, store
  <2> QED
    BY <2>1 DEF NothingOverlooked, store
<1>4. GivenBefore'
  <2>1. ASSUME NEW id \in Given PROVE id \in 1..now' /\ (baselineDone => id <= fetchedAt)
    BY <1>1 DEF LedgerInv, GivenBefore
  <2> QED
    BY <2>1 DEF GivenBefore, Given, store, server
<1>5. LedgerHasNoHole'
  <2>1. ASSUME NEW first \in ledger, NEW r \in orders', first.time <= r.time,
               r.time <= fetchedAt
        PROVE  r \in ledger
    <3>1. r \in orders
      BY <1>1, <2>1
    <3> QED
      BY <2>1, <3>1 DEF LedgerInv, LedgerHasNoHole
  <2> QED
    BY <2>1 DEF LedgerHasNoHole, store
<1>6. EveryTradePosted'
  BY DEF LedgerInv, EveryTradePosted, Ids, store, server
<1> QED
  BY <1>2, <1>3, <1>4, <1>5, <1>6 DEF LedgerInv

LEMMA BeginKeepsLedger ==
  ASSUME OrdersInv, LedgerInv, BeginCycle
  PROVE  LedgerInv'
<1>1. /\ phase' = "fetch" /\ config' = startAt /\ config' \in Start
      /\ UNCHANGED <<now, orders, startAt, received, refused>>
  BY DEF BeginCycle, server, LedgerInv, StoreInv
<1>2. CASE tradeStart = config' /\ UNCHANGED store
  <2>1. UNCHANGED <<tradeStart, stateRow, checkpoint, baselineDone, ledger, outbox,
                    fetchedAt, baseline>>
    BY <1>2 DEF store
  <2>2. StoreInv'
    BY <1>1, <1>2, <2>1 DEF LedgerInv, StoreInv
  <2>3. NothingOverlooked' /\ GivenBefore' /\ LedgerHasNoHole' /\ EveryTradePosted'
    BY <1>1, <2>1 DEF LedgerInv, NothingOverlooked, OutOfReach, Later, GivenBefore, Given,
                      LedgerHasNoHole, EveryTradePosted, Ids
  <2> QED
    BY <2>2, <2>3 DEF LedgerInv
<1>3. CASE Reset
  <2>1. /\ now \in Nat /\ phase' \in {"idle", "fetch"}
        /\ tradeStart' = config' /\ stateRow' = TRUE /\ baselineDone' = FALSE
        /\ checkpoint' = NoCheckpoint /\ ledger' = {} /\ outbox' = {} /\ fetchedAt' = 0
    BY <1>1, <1>3 DEF OrdersInv, Reset
  <2>2. StoreInv'
    <3>1. fetchedAt' \in 0..now' /\ startAt' \in Start /\ tradeStart' \in Start
      BY <1>1, <2>1
    <3>2. (IF baselineDone THEN tradeStart <= fetchedAt
           ELSE ledger = {} /\ outbox = {} /\ fetchedAt = 0)'
      BY <2>1
    <3>3. (IF ledger = {} THEN checkpoint = NoCheckpoint
           ELSE \E r \in ledger : checkpoint = r.id)'
      BY <2>1
    <3>4. stateRow' \in BOOLEAN /\ baselineDone' \in BOOLEAN
      BY <2>1
    <3>5. /\ (\A r \in ledger : tradeStart <= r.time /\ r.time <= fetchedAt)'
          /\ (\A p \in outbox : p.record \in ledger)' /\ ledger' \subseteq orders'
      BY <2>1
    <3> QED
      BY <1>1, <2>1, <3>1, <3>2, <3>3, <3>4, <3>5 DEF StoreInv
  <2>3. GivenBefore'
    BY <1>1, <2>1 DEF LedgerInv, GivenBefore, Given
  <2>4. NothingOverlooked' /\ LedgerHasNoHole' /\ EveryTradePosted'
    BY <2>1 DEF NothingOverlooked, LedgerHasNoHole, EveryTradePosted
  <2> QED
    BY <2>2, <2>3, <2>4 DEF LedgerInv
<1> QED
  BY <1>2, <1>3 DEF BeginCycle, EnsureTradeStart

LEMMA UploadKeepsLedger ==
  ASSUME OrdersInv, LedgerInv, Upload
  PROVE  LedgerInv'
<1>1. /\ outbox' = {} /\ outbox # {}
      /\ UNCHANGED <<now, orders, startAt, tradeStart, stateRow, checkpoint, baselineDone,
                     ledger, fetchedAt, baseline, phase, config>>
  BY DEF Upload
<1>2. /\ Given' = Given \cup Ids(outbox)
  <2> DEFINE good == {p \in outbox : startAt = NoStart \/ p.record.time >= startAt}
  <2>1. /\ received' = received \cup {p.record.id : p \in good}
        /\ refused' = refused \cup {p.record.id : p \in outbox \ good}
    BY DEF Upload
  <2>2. good \subseteq outbox
    OBVIOUS
  <2> HIDE DEF good
  <2> QED
    BY <2>1, <2>2 DEF Given, Ids
<1>3. StoreInv'
  BY <1>1 DEF LedgerInv, StoreInv
<1>4. GivenBefore'
  <2>1. ASSUME NEW id \in Ids(outbox)
        PROVE  id \in 1..now /\ id <= fetchedAt
    <3>1. PICK p \in outbox : id = p.record.id
      BY DEF Ids
    <3>2. p.record \in ledger /\ p.record \in orders /\ p.record.time <= fetchedAt
      BY DEF LedgerInv, StoreInv
    <3> QED
      BY <3>1, <3>2 DEF OrdersInv
  <2>2. ASSUME NEW id \in Given' PROVE id \in 1..now /\ (baselineDone => id <= fetchedAt)
    BY <1>2, <2>1 DEF LedgerInv, GivenBefore
  <2> QED
    BY <1>1, <2>2 DEF GivenBefore
<1>5. EveryTradePosted'
  BY <1>1, <1>2 DEF LedgerInv, EveryTradePosted, Given, Ids
<1>6. NothingOverlooked' /\ LedgerHasNoHole'
  BY <1>1 DEF LedgerInv, NothingOverlooked, OutOfReach, Later, LedgerHasNoHole
<1> QED
  BY <1>3, <1>4, <1>5, <1>6 DEF LedgerInv

LEMMA PositionsLeaveLedger ==
  ASSUME LedgerInv, phase' = "idle",
         UNCHANGED <<now, orders, startAt, tradeStart, stateRow, checkpoint,
                     baselineDone, ledger, outbox, fetchedAt, baseline, config,
                     server>>
  PROVE  LedgerInv'
<1>1. StoreInv'
  BY DEF LedgerInv, StoreInv
<1>2. NothingOverlooked' /\ GivenBefore'
  BY DEF LedgerInv, NothingOverlooked, OutOfReach, Later, GivenBefore, Given, server
<1>3. LedgerHasNoHole' /\ EveryTradePosted'
  BY DEF LedgerInv, LedgerHasNoHole, EveryTradePosted, Ids, server
<1> QED
  BY <1>1, <1>2, <1>3 DEF LedgerInv

LEMMA StepKeepsLedger ==
  ASSUME AccountInv, LedgerInv, [Next]_vars
  PROVE  AccountInv' /\ LedgerInv'
<1>1. CASE Trade
  <2>1. AccountInv' /\ orders \subseteq orders' /\ \A r \in orders' \ orders : r.time = now + 1
    BY <1>1, TradeKeepsAccount
  <2>2. now <= now' /\ UNCHANGED <<startAt, store, phase, config, server>>
    BY <1>1 DEF Trade, AccountInv, OrdersInv
  <2> QED
    BY <2>1, <2>2, WorldKeepsLedger DEF AccountInv, LedgerInv, StoreInv
<1>2. ASSUME now' \in now..EndOfTime, orders' = orders, startAt' \in Start,
             phase' \in {"idle", phase}, UNCHANGED <<store, config, server>>
      PROVE  AccountInv' /\ LedgerInv'
  <2>1. AccountInv'
    BY <1>2, SameOrdersSameAccount
  <2>2. now <= now'
    BY <1>2 DEF AccountInv, OrdersInv
  <2> QED
    BY <1>2, <2>1, <2>2, WorldKeepsLedger DEF AccountInv
<1>3. now \in now..EndOfTime /\ startAt \in Start /\ now \in Nat
  BY LedgerAssumption DEF AccountInv, OrdersInv, LedgerInv, StoreInv
<1>4. CASE Tick
  <2>1. now' \in now..EndOfTime
    BY <1>3, <1>4, LedgerAssumption DEF Tick
  <2> QED
    BY <1>2, <1>3, <1>4, <2>1 DEF Tick
<1>5. CASE SetPositionStart \/ SkipFetch \/ Crash
  BY <1>2, <1>3, <1>5 DEF SetPositionStart, SkipFetch, Crash
<1>6. CASE UNCHANGED vars
  BY <1>2, <1>3, <1>6 DEF vars
<1>7. ASSUME orders' = orders, now' = now PROVE AccountInv'
  BY <1>3, <1>7, SameOrdersSameAccount
<1>8. CASE BeginCycle
  BY <1>7, <1>8, BeginKeepsLedger DEF BeginCycle, AccountInv
<1>9. CASE Fetched
  BY <1>7, <1>9, FetchKeepsLedger DEF Fetched, AccountInv
<1>10. CASE GapFound \/ FetchFails
  BY <1>7, <1>10, PositionsLeaveLedger DEF GapFound, FetchFails
<1>11. CASE Upload
  BY <1>7, <1>11, UploadKeepsLedger DEF Upload, AccountInv
<1> QED
  BY <1>1, <1>4, <1>5, <1>6, <1>8, <1>9, <1>10, <1>11 DEF Next

-----------------------------------------------------------------------------
(* The positions after each record.                                        *)

\* An order has one revision.
LEMMA AllIsEffective ==
  ASSUME OrdersInv, NEW R \in SUBSET orders
  PROVE  Effective(R) = R /\ \A r \in R : ~Corrected(r, R)
<1>1. \A r \in R : r.observed = 1 /\ r.revision = 1
  BY DEF OrdersInv
<1> QED
  BY <1>1 DEF Effective, Superseded, Corrected

LEMMA HistoryStep ==
  ASSUME OrdersInv, NEW R \in SUBSET orders, NEW c
  PROVE  /\ IsFiniteSet(R) /\ Cardinality(R) \in Nat
         /\ Positions(R, c) = History(R, c)[Cardinality(R)]
         /\ History(R, c)[0] = NoPositions
         /\ \A n \in 1..Cardinality(R) :
              History(R, c)[n] = PositionsAfter(Nth(R, n), History(R, c)[n - 1], c)
<1>1. IsFiniteSet(R) /\ Cardinality(R) \in Nat
  BY FS_Subset, FS_CardinalityType DEF OrdersInv
<1> DEFINE N == Cardinality(R)
           Is(h, m) == h = [n \in 0..m |-> IF n = 0 THEN NoPositions
                                          ELSE PositionsAfter(Nth(R, n), h[n - 1], c)]
           Bad == {m \in Nat : ~\E h : Is(h, m)}
<1>2. Bad = {}
  <2>1. SUFFICES ASSUME Bad # {} PROVE FALSE
    OBVIOUS
  <2>2. PICK m \in Bad : \A l \in Bad : m <= l
    <3>1. Bad \in SUBSET Nat
      OBVIOUS
    <3> HIDE DEF Bad
    <3> QED
      BY <2>1, <3>1, LeastNatural
  <2>3. CASE m = 0
    <3>1. Is([n \in 0..0 |-> NoPositions], 0)
      OBVIOUS
    <3> QED
      BY <2>2, <2>3, <3>1
  <2>4. CASE m # 0
    <3>1. m \in Nat /\ m - 1 \in Nat /\ m - 1 \notin Bad
      <4>1. m \in Nat
        BY <2>2
      <4> HIDE DEF Bad
      <4> QED
        BY <2>2, <2>4, <4>1
    <3>2. PICK g : Is(g, m - 1)
      BY <3>1
    <3> DEFINE h == [n \in 0..m |-> IF n = m THEN PositionsAfter(Nth(R, m), g[m - 1], c)
                                    ELSE g[n]]
    <3>3. Is(h, m)
      BY <2>4, <3>1, <3>2
    <3> QED
      BY <2>2, <3>3
  <2> QED
    BY <2>3, <2>4
<1>3. History(R, c) = CHOOSE h : Is(h, N)
  BY AllIsEffective DEF History
<1>4. Is(History(R, c), N)
  <2>1. \E h : Is(h, N)
    BY <1>1, <1>2
  <2> HIDE DEF Is
  <2> QED
    BY <1>3, <2>1
<1>5. Positions(R, c) = History(R, c)[N]
  BY AllIsEffective DEF Positions
<1> HIDE DEF N
<1>6. N \in Nat
  BY <1>1 DEF N
<1>7. /\ History(R, c)[0] = NoPositions
      /\ \A n \in 1..N :
           History(R, c)[n] = PositionsAfter(Nth(R, n), History(R, c)[n - 1], c)
  BY <1>4, <1>6
<1> QED
  BY <1>1, <1>5, <1>7 DEF N

\* The positions after those records of R that are not later than t.
Upto(R, t) == {q \in R : q.time <= t}
At(R, c, t) == History(R, c)[Cardinality(Upto(R, t))]

LEMMA AtNothing ==
  ASSUME OrdersInv, NEW R \in SUBSET orders, NEW c, NEW t,
         \A r \in R : ~(r.time <= t)
  PROVE  At(R, c, t) = NoPositions
<1>1. Upto(R, t) = {}
  BY DEF Upto
<1> QED
  BY <1>1, HistoryStep, FS_EmptySet DEF At

LEMMA AtAll ==
  ASSUME OrdersInv, NEW R \in SUBSET orders, NEW c, NEW t,
         \A r \in R : r.time <= t
  PROVE  At(R, c, t) = Positions(R, c)
<1>1. Upto(R, t) = R
  BY DEF Upto
<1> QED
  BY <1>1, HistoryStep DEF At

LEMMA UptoGrows ==
  ASSUME OrdersInv, NEW R \in SUBSET orders, NEW q \in R, NEW s \in R, q.time < s.time
  PROVE  Cardinality(Upto(R, q.time - 1)) < Cardinality(Upto(R, s.time - 1))
<1>1. IsFiniteSet(R) /\ \A r \in R : r.time \in Nat
  BY FS_Subset DEF OrdersInv
<1> DEFINE A == Upto(R, q.time - 1)
           B == Upto(R, s.time - 1)
<1>2. A \in SUBSET R /\ B \in SUBSET R
  BY DEF Upto
<1>3. A \subseteq B
  <2>1. ASSUME NEW r \in R, r.time <= q.time - 1 PROVE r.time <= s.time - 1
    BY <1>1, <2>1
  <2> QED
    BY <2>1 DEF Upto
<1>4. q \in B /\ q \notin A
  <2>1. q.time <= s.time - 1 /\ ~(q.time <= q.time - 1)
    BY <1>1
  <2> QED
    BY <2>1 DEF Upto
<1> HIDE DEF A, B
<1>5. Cardinality(A) < Cardinality(B)
  BY <1>1, <1>2, <1>3, <1>4, SmallerSubset
<1> QED
  BY <1>5 DEF A, B

\* The record at time t is the next one of the ledger.
LEMMA AtRecord ==
  ASSUME OrdersInv, NEW R \in SUBSET orders, NEW c, NEW r \in R
  PROVE  /\ At(R, c, r.time) = PositionsAfter(r, At(R, c, r.time - 1), c)
         /\ Action(r, R, c) = ApplyRecord(r, At(R, c, r.time - 1), c).action
<1> DEFINE t == r.time
           n == Cardinality(Upto(R, t - 1))
<1>1. /\ IsFiniteSet(R) /\ \A q \in R : q.time \in Nat
      /\ \A q \in R : q.time = t => q = r
  BY FS_Subset DEF OrdersInv
<1>2. ASSUME NEW s \in R
      PROVE  {q \in R : Before(q, s)} = Upto(R, s.time - 1)
  <2>1. ASSUME NEW q \in R PROVE Before(q, s) <=> q.time <= s.time - 1
    BY <1>1, BeforeIsEarlier
  <2> QED
    BY <2>1 DEF Upto
<1>3. Upto(R, t) = Upto(R, t - 1) \cup {r} /\ r \notin Upto(R, t - 1)
  <2>1. ASSUME NEW q \in R PROVE q.time <= t <=> (q.time <= t - 1 \/ q = r)
    BY <1>1
  <2> QED
    BY <1>1, <2>1 DEF Upto
<1>4. /\ n \in Nat /\ Cardinality(Upto(R, t)) = n + 1
      /\ n + 1 <= Cardinality(R) /\ Cardinality(R) \in Nat
  <2>1. Upto(R, t - 1) \in SUBSET R /\ Upto(R, t) \in SUBSET R
    BY DEF Upto
  <2>2. IsFiniteSet(Upto(R, t - 1)) /\ n \in Nat
    BY <1>1, <2>1, FS_Subset, FS_CardinalityType
  <2>3. Cardinality(Upto(R, t)) = n + 1
    BY <1>3, <2>2, FS_AddElement
  <2>4. Cardinality(Upto(R, t)) <= Cardinality(R) /\ Cardinality(R) \in Nat
    BY <1>1, <2>1, FS_Subset, FS_CardinalityType
  <2> QED
    BY <2>2, <2>3, <2>4
<1>5. ASSUME NEW s \in R, Cardinality({q \in R : Before(q, s)}) = n
      PROVE  s = r
  <2>1. Cardinality(Upto(R, s.time - 1)) = n
    BY <1>2, <1>5
  <2>2. s.time \in Nat /\ t \in Nat
    BY <1>1
  <2>3. ~(s.time < t) /\ ~(t < s.time)
    BY <1>4, <2>1, UptoGrows
  <2> QED
    BY <1>1, <2>2, <2>3
<1>6. Nth(R, n + 1) = r
  <2>1. Cardinality({q \in R : Before(q, r)}) = n
    BY <1>2
  <2>2. (n + 1) - 1 = n
    BY <1>4
  <2> HIDE DEF n
  <2> QED
    BY <1>5, <2>1, <2>2 DEF Nth
<1>7. At(R, c, t) = PositionsAfter(r, At(R, c, t - 1), c)
  <2>1. n + 1 \in 1..Cardinality(R) /\ (n + 1) - 1 = n
    BY <1>4
  <2>2. History(R, c)[n + 1] = PositionsAfter(Nth(R, n + 1), History(R, c)[n], c)
    <3> HIDE DEF n
    <3> QED
      BY <2>1, HistoryStep
  <2> QED
    BY <1>4, <1>6, <2>2 DEF At
<1>8. Action(r, R, c) = ApplyRecord(r, At(R, c, t - 1), c).action
  BY <1>2, AllIsEffective DEF Action, At
<1> QED
  BY <1>7, <1>8

LEMMA AtBetween ==
  ASSUME OrdersInv, NEW R \in SUBSET orders, NEW c, NEW t \in Nat,
         \A r \in R : r.time # t
  PROVE  At(R, c, t) = At(R, c, t - 1)
<1>1. \A r \in R : r.time \in Nat
  BY DEF OrdersInv
<1>2. Upto(R, t) = Upto(R, t - 1)
  BY <1>1 DEF Upto
<1> QED
  BY <1>2 DEF At

LEMMA ActiveIsEstimate ==
  ASSUME NEW k, NEW q \in Nat \cup {NoQuantity}, NEW price \in Prices, NEW c
  PROVE  Active(k, q, price, c) \in Estimates
BY DEF Active, Confidence, Unknown, Estimates, Prices, NoPrice

LEMMA WeightedIsPrice ==
  ASSUME NEW e, e.quantity \in Nat \cup {NoQuantity}, e.entry \in Prices,
         NEW r, r.quantity \in Nat \ {0}, r.price \in Prices
  PROVE  WeightedEntry(e, r) \in Prices
<1>1. CASE \/ NoQuantity \in {e.quantity, r.quantity}
           \/ NoPrice \in {e.entry, r.price}
  BY <1>1 DEF WeightedEntry, Prices
<1>2. CASE ~(\/ NoQuantity \in {e.quantity, r.quantity}
             \/ NoPrice \in {e.entry, r.price})
  <2>1. PICK q \in Nat, x \in Nat \ {0}, p \in Nat, y \in Nat :
          q = e.quantity /\ x = r.quantity /\ p = e.entry /\ y = r.price
    BY <1>2 DEF Prices
  <2>2. WeightedEntry(e, r) = (q * p + x * y + (q + x - 1)) \div (q + x)
    BY <1>2, <2>1 DEF WeightedEntry, Average
  <2>3. PICK m \in Nat, n \in Nat : m = q * p /\ n = x * y
    <3>1. x * y \in Nat
      BY ProductTells
    <3>2. q * p \in Nat
      <4>1. CASE q = 0
        BY <4>1
      <4>2. CASE q # 0
        BY <4>2, ProductTells
      <4> QED
        BY <4>1, <4>2
    <3> QED
      BY <3>1, <3>2
  <2>4. PICK s \in Nat \ {0}, t \in Nat : s = q + x /\ t = m + n + (s - 1)
    OBVIOUS
  <2>5. WeightedEntry(e, r) = t \div s
    BY <2>2, <2>3, <2>4
  <2> QED
    BY <2>5, QuotientTells DEF Prices
<1> QED
  BY <1>1, <1>2

LEMMA AfterKeepsTypes ==
  ASSUME OrdersInv, NEW r \in orders, NEW c, NEW P \in [Keys -> Estimates]
  PROVE  PositionsAfter(r, P, c) \in [Keys -> Estimates]
<1>1. /\ r.operation \in {"INCREASE", "DECREASE"} /\ r.key \in Keys
      /\ r.quantity \in Nat \ {0} /\ r.quantity # NoQuantity /\ r.price \in Prices
  <2>1. /\ r.operation \in {"INCREASE", "DECREASE"} /\ r.key \in Keys
        /\ r.quantity \in Quantities /\ r.price \in Nat
    BY DEF OrdersInv
  <2>2. r.quantity \in Nat \ {0}
    BY <2>1, LedgerAssumption
  <2> QED
    BY <2>1, <2>2 DEF Prices, NoQuantity
<1> DEFINE e == P[r.key]
<1>2. /\ e \in Estimates
      /\ e = Missing \/ (e.quantity \in Nat \cup {NoQuantity} /\ e.entry \in Prices)
  BY <1>1 DEF Estimates
<1>3. Unknown \in Estimates /\ Flat(c) \in Estimates
  BY DEF Unknown, Flat, Estimates, Prices, NoPrice
<1>4. CASE r.operation = "INCREASE"
  <2>1. e.status = "ACTIVE" => WeightedEntry(e, r) \in Prices
    BY <1>1, <1>2, WeightedIsPrice DEF Missing
  <2>2. ASSUME e.status = "ACTIVE"
        PROVE  (IF NoQuantity \in {e.quantity, r.quantity} THEN NoQuantity
                ELSE e.quantity + r.quantity) \in Nat \cup {NoQuantity}
    BY <1>1, <1>2, <2>2 DEF Missing
  <2>3. Increased(r, e, c).position \in Estimates
    BY <1>1, <1>3, <1>4, <2>1, <2>2, ActiveIsEstimate DEF Increased, Outcome
  <2> QED
    BY <1>1, <1>4, <2>3 DEF PositionsAfter, ApplyRecord
<1>5. CASE r.operation = "DECREASE"
  <2>1. ASSUME e.status = "ACTIVE", ~(NoQuantity \in {e.quantity, r.quantity}),
               ~(r.quantity > e.quantity)
        PROVE  e.quantity - r.quantity \in Nat
    BY <1>1, <1>2, <2>1 DEF Missing
  <2>2. e.status = "ACTIVE" => e.entry \in Prices
    BY <1>2 DEF Missing
  <2>3. Decreased(r, e, c).position \in Estimates
    BY <1>1, <1>3, <2>1, <2>2, ActiveIsEstimate DEF Decreased, Outcome
  <2> QED
    BY <1>1, <1>5, <2>3 DEF PositionsAfter, ApplyRecord
<1> QED
  BY <1>1, <1>4, <1>5

LEMMA AtIsEstimates ==
  ASSUME OrdersInv, NEW R \in SUBSET orders, NEW c, NEW t \in Nat
  PROVE  At(R, c, t) \in [Keys -> Estimates]
<1> DEFINE Bad == {n \in Nat : At(R, c, n) \notin [Keys -> Estimates]}
<1>1. SUFFICES ASSUME Bad # {} PROVE FALSE
  OBVIOUS
<1>2. PICK n \in Bad : \A m \in Bad : n <= m
  <2>1. Bad \in SUBSET Nat
    OBVIOUS
  <2> HIDE DEF Bad
  <2> QED
    BY <1>1, <2>1, LeastNatural
<1>3. n \in Nat /\ At(R, c, n) \notin [Keys -> Estimates]
  BY <1>2
<1>4. CASE n = 0
  <2>1. \A r \in R : ~(r.time <= 0)
    BY DEF OrdersInv
  <2>2. At(R, c, 0) = NoPositions
    BY <2>1, AtNothing
  <2> QED
    BY <1>3, <1>4, <2>2 DEF NoPositions, Estimates
<1>5. CASE n # 0
  <2>1. n - 1 \notin Bad /\ n - 1 \in Nat
    <3> HIDE DEF Bad
    <3> QED
      BY <1>2, <1>3, <1>5
  <2>2. At(R, c, n - 1) \in [Keys -> Estimates]
    BY <2>1
  <2>3. CASE \E r \in R : r.time = n
    <3>1. PICK r \in R : r.time = n
      BY <2>3
    <3>2. At(R, c, n) = PositionsAfter(r, At(R, c, n - 1), c)
      BY <3>1, AtRecord
    <3> QED
      BY <1>3, <2>2, <3>2, AfterKeepsTypes
  <2>4. CASE ~\E r \in R : r.time = n
    BY <1>3, <2>2, <2>4, AtBetween
  <2> QED
    BY <2>3, <2>4
<1> QED
  BY <1>4, <1>5

LEMMA PositionsAreEstimates ==
  ASSUME OrdersInv, NEW R \in SUBSET orders, NEW c
  PROVE  Positions(R, c) \in [Keys -> Estimates]
<1>1. now \in Nat /\ \A r \in R : r.time <= now
  BY DEF OrdersInv
<1> QED
  BY <1>1, AtAll, AtIsEstimates

-----------------------------------------------------------------------------
(* A ledger that is complete tells the truth.                              *)

\* With a start time the history is taken to be complete.
Complete == TRUE

\* The estimate of a position of which n is held, bought at p on average.
Exactly(k, n, p) == [side |-> k[2], quantity |-> n, entry |-> p,
                     confidence |-> "HIGH", status |-> "ACTIVE"]
NothingHeld == {Missing, Flat(Complete)}
Truth(e, k, n, p) == IF n = 0 THEN e \in NothingHeld ELSE e = Exactly(k, n, p)
TruthAt(e, k, t) == Truth(e, k, Held(k, t), Entry(k, t))

\* What a piece has cost after the order r, when n were held at p.
Costs(r, n, p) == IF r.operation = "DECREASE" THEN p
                  ELSE IF n = 0 THEN r.price ELSE Average(n, p, r.quantity, r.price)

\* What an order does to a position of which n is held.
Does(r, n) == IF r.operation = "INCREASE" THEN IF n = 0 THEN "OPEN" ELSE "ADD"
              ELSE IF n = r.quantity THEN "CLOSE" ELSE "REDUCE"

LEMMA ActiveIsExact ==
  ASSUME NEW k, k[2] \in Directed, NEW n \in Nat, NEW p
  PROVE  Active(k, n, p, Complete) = Exactly(k, n, p)
BY DEF Active, Confidence, NoQuantity, Complete, Exactly

LEMMA ExactlyTells ==
  ASSUME NEW k, NEW n, NEW p, NEW e, e = Exactly(k, n, p)
  PROVE  /\ e.status = "ACTIVE" /\ e.side = k[2] /\ e.quantity = n /\ e.entry = p
         /\ e.confidence = "HIGH" /\ e # Missing
BY DEF Exactly, Missing

LEMMA IncreaseKeepsTruth ==
  ASSUME NEW k, k[2] \in Directed, NEW q \in Nat, q # 0, NEW y \in Nat,
         NEW r, r.key = k, r.quantity = q, r.operation = "INCREASE", r.price = y,
         NEW n \in Nat, NEW p, n # 0 => p \in Nat, NEW e, Truth(e, k, n, p),
         NEW after, after = Increased(r, e, Complete)
  PROVE  /\ after.action = IF n = 0 THEN "OPEN" ELSE "ADD"
         /\ Truth(after.position, k, n + q, Costs(r, n, p))
<1>1. n + q # 0 /\ n + q \in Nat
  OBVIOUS
<1>2. CASE n = 0
  <2>1. e = Missing \/ (e # Missing /\ e.status = "FLAT")
    BY <1>2 DEF Truth, NothingHeld, Flat, Missing
  <2>2. after = Outcome("OPEN", Active(k, q, y, Complete))
    <3>1. ~(r.operation = "ADD")
      OBVIOUS
    <3>2. CASE e = Missing
      <4>1. e.status = "MISSING"
        BY <3>2 DEF Missing
      <4> QED
        BY <3>1, <3>2, <4>1 DEF Increased
    <3>3. CASE e # Missing /\ e.status = "FLAT"
      BY <3>1, <3>3 DEF Increased
    <3> QED
      BY <2>1, <3>2, <3>3
  <2>3. after.action = "OPEN" /\ after.position = Active(k, q, y, Complete)
    BY <2>2 DEF Outcome
  <2>4. n + q = q /\ Costs(r, n, p) = y
    BY <1>2 DEF Costs
  <2> QED
    BY <1>1, <1>2, <2>3, <2>4, ActiveIsExact DEF Truth
<1>3. CASE n # 0
  <2>1. e = Exactly(k, n, p)
    BY <1>3 DEF Truth
  <2>2. /\ e.status = "ACTIVE" /\ e.side = k[2] /\ e.quantity = n /\ e.entry = p
        /\ e # Missing
    BY <2>1, ExactlyTells
  <2>3. PICK a : a = Average(n, p, q, y)
    OBVIOUS
  <2>4. WeightedEntry(e, r) = a /\ Costs(r, n, p) = a
    BY <1>3, <2>2, <2>3 DEF WeightedEntry, NoQuantity, NoPrice, Costs
  <2>5. ~(NoQuantity \in {e.quantity, r.quantity})
    BY <2>2 DEF NoQuantity
  <2>6. after = Outcome("ADD", Active(k, n + q, a, Complete))
    BY <2>2, <2>4, <2>5 DEF Increased
  <2>7. after.action = "ADD" /\ after.position = Active(k, n + q, a, Complete)
    BY <2>6 DEF Outcome
  <2>8. Active(k, n + q, a, Complete) = Exactly(k, n + q, a)
    BY <1>1, ActiveIsExact
  <2> QED
    BY <1>1, <1>3, <2>4, <2>7, <2>8 DEF Truth
<1> QED
  BY <1>2, <1>3

LEMMA DecreaseKeepsTruth ==
  ASSUME NEW k, k[2] \in Directed, NEW q \in Nat, q # 0,
         NEW r, r.key = k, r.quantity = q, r.operation = "DECREASE",
         NEW n \in Nat, q <= n, NEW p, NEW e, Truth(e, k, n, p),
         NEW after, after = Decreased(r, e, Complete)
  PROVE  /\ after.action = IF n = q THEN "CLOSE" ELSE "REDUCE"
         /\ Truth(after.position, k, n - q, Costs(r, n, p))
<1>1. e = Exactly(k, n, p)
  BY DEF Truth
<1>2. e.status = "ACTIVE" /\ e.quantity = n /\ e.entry = p
  BY <1>1, ExactlyTells
<1>3. ~(NoQuantity \in {e.quantity, r.quantity}) /\ ~(q > n)
  BY <1>2 DEF NoQuantity
<1>4. CASE q = n
  <2>1. after = Outcome("CLOSE", Flat(Complete))
    BY <1>2, <1>3, <1>4 DEF Decreased
  <2>2. after.action = "CLOSE" /\ after.position = Flat(Complete)
    BY <2>1 DEF Outcome
  <2> QED
    BY <1>4, <2>2 DEF Truth, NothingHeld
<1>5. CASE q # n
  <2>1. after = Outcome("REDUCE", Active(k, n - q, p, Complete))
    BY <1>2, <1>3, <1>5 DEF Decreased
  <2>2. after.action = "REDUCE" /\ after.position = Active(k, n - q, p, Complete)
    BY <2>1 DEF Outcome
  <2>3. n - q # 0 /\ n - q \in Nat
    BY <1>5
  <2>4. Active(k, n - q, p, Complete) = Exactly(k, n - q, p)
    BY <2>3, ActiveIsExact
  <2>5. Costs(r, n, p) = p
    BY DEF Costs
  <2> QED
    BY <1>5, <2>2, <2>3, <2>4, <2>5 DEF Truth
<1> QED
  BY <1>4, <1>5

LEMMA RecordKeepsTruth ==
  ASSUME OrdersInv, NEW r \in orders, NEW P, NEW n \in Nat, NEW p, n # 0 => p \in Nat,
         Truth(P[r.key], r.key, n, p),
         r.operation = "DECREASE" => r.quantity <= n
  PROVE  /\ Truth(PositionsAfter(r, P, Complete)[r.key], r.key, n + Delta(r), Costs(r, n, p))
         /\ ApplyRecord(r, P, Complete).action = Does(r, n)
<1>1. PICK k, q, y : k = r.key /\ q = r.quantity /\ y = r.price
  OBVIOUS
<1>2. /\ r.operation \in {"INCREASE", "DECREASE"} /\ k \in Keys /\ k[2] \in Directed
      /\ y \in Nat /\ q \in Nat /\ q # 0
  <2>1. /\ r.operation \in {"INCREASE", "DECREASE"} /\ k \in Keys
        /\ q \in Quantities /\ y \in Nat
    BY <1>1 DEF OrdersInv
  <2> QED
    BY <2>1, LedgerAssumption
<1>3. PICK e : e = P[k]
  OBVIOUS
<1>4. PositionsAfter(r, P, Complete)[k] = ApplyRecord(r, P, Complete).position
  BY <1>1, <1>2 DEF PositionsAfter
<1>5. Truth(e, k, n, p)
  BY <1>1, <1>3
<1>6. CASE r.operation = "INCREASE"
  <2>1. ApplyRecord(r, P, Complete) = Increased(r, e, Complete)
    BY <1>1, <1>3, <1>6 DEF ApplyRecord
  <2>2. n + Delta(r) = n + q
    BY <1>1, <1>6 DEF Delta
  <2>3. PICK after : after = Increased(r, e, Complete)
    OBVIOUS
  <2>4. /\ after.action = IF n = 0 THEN "OPEN" ELSE "ADD"
        /\ Truth(after.position, k, n + q, Costs(r, n, p))
    <3>1. r.key = k /\ r.quantity = q /\ r.price = y
      BY <1>1
    <3> QED
      BY <1>2, <1>5, <1>6, <2>3, <3>1, IncreaseKeepsTruth
  <2> QED
    BY <1>1, <1>4, <1>6, <2>1, <2>2, <2>3, <2>4 DEF Does
<1>7. CASE r.operation = "DECREASE"
  <2>1. ApplyRecord(r, P, Complete) = Decreased(r, e, Complete)
    BY <1>1, <1>3, <1>7 DEF ApplyRecord
  <2>2. n + Delta(r) = n - q
    BY <1>1, <1>2, <1>7 DEF Delta
  <2>3. /\ Decreased(r, e, Complete).action = IF n = q THEN "CLOSE" ELSE "REDUCE"
        /\ Truth(Decreased(r, e, Complete).position, k, n - q, Costs(r, n, p))
    BY <1>1, <1>2, <1>5, <1>7, DecreaseKeepsTruth
  <2> QED
    BY <1>1, <1>4, <1>7, <2>1, <2>2, <2>3 DEF Does
<1> QED
  BY <1>2, <1>6, <1>7

-----------------------------------------------------------------------------
(* What a piece has cost.                                                  *)

\* The recursion Entry stands for.
LEMMA EntryIsReplay ==
  ASSUME NEW k, NEW t \in Nat
  PROVE  \E e : /\ Entry(k, t) = e[t]
                /\ \A n \in 0..t : e[n] = IF n = 0 THEN NoPrice ELSE Paid(k, n, e[n - 1])
<1> DEFINE Is(e, m) == e = [n \in 0..m |-> IF n = 0 THEN NoPrice ELSE Paid(k, n, e[n - 1])]
           Bad == {m \in Nat : ~\E e : Is(e, m)}
<1>1. Bad = {}
  <2>1. SUFFICES ASSUME Bad # {} PROVE FALSE
    OBVIOUS
  <2>2. PICK m \in Bad : \A l \in Bad : m <= l
    <3>1. Bad \in SUBSET Nat
      OBVIOUS
    <3> HIDE DEF Bad
    <3> QED
      BY <2>1, <3>1, LeastNatural
  <2>3. CASE m = 0
    <3>1. Is([n \in 0..0 |-> NoPrice], 0)
      OBVIOUS
    <3> QED
      BY <2>2, <2>3, <3>1
  <2>4. CASE m # 0
    <3>1. m \in Nat /\ m - 1 \in Nat /\ m - 1 \notin Bad
      <4>1. m \in Nat
        BY <2>2
      <4> HIDE DEF Bad
      <4> QED
        BY <2>2, <2>4, <4>1
    <3>2. PICK g : Is(g, m - 1)
      BY <3>1
    <3> DEFINE e == [n \in 0..m |-> IF n = m THEN Paid(k, m, g[m - 1]) ELSE g[n]]
    <3>3. Is(e, m)
      BY <2>4, <3>1, <3>2
    <3> QED
      BY <2>2, <3>3
  <2> QED
    BY <2>3, <2>4
<1> DEFINE f == CHOOSE e : Is(e, t)
<1>2. Entry(k, t) = f[t]
  BY DEF Entry
<1>3. Is(f, t)
  <2>1. \E e : Is(e, t)
    BY <1>1
  <2> HIDE DEF Is
  <2> QED
    BY <2>1
<1> HIDE DEF f
<1> QED
  BY <1>2, <1>3

LEMMA EntryStep ==
  ASSUME NEW k, NEW t \in Nat \ {0}
  PROVE  Entry(k, t) = Paid(k, t, Entry(k, t - 1))
<1>1. PICK m \in Nat : m = t - 1
  OBVIOUS
<1>2. PICK e : /\ Entry(k, t) = e[t]
               /\ \A n \in 0..t : e[n] = IF n = 0 THEN NoPrice ELSE Paid(k, n, e[n - 1])
  BY EntryIsReplay
<1>3. PICK g : /\ Entry(k, m) = g[m]
               /\ \A n \in 0..m : g[n] = IF n = 0 THEN NoPrice ELSE Paid(k, n, g[n - 1])
  BY EntryIsReplay
<1> DEFINE Bad == {n \in 0..m : e[n] # g[n]}
<1>4. Bad = {}
  <2>1. SUFFICES ASSUME Bad # {} PROVE FALSE
    OBVIOUS
  <2>2. PICK n \in Bad : \A l \in Bad : n <= l
    <3>1. Bad \in SUBSET Nat
      OBVIOUS
    <3> HIDE DEF Bad
    <3> QED
      BY <2>1, <3>1, LeastNatural
  <2>3. n \in 0..m /\ n \in 0..t /\ e[n] # g[n]
    BY <1>1, <2>2
  <2>4. n # 0
    BY <1>2, <1>3, <2>3
  <2>5. n - 1 \in 0..m /\ n - 1 \notin Bad
    <3>1. n - 1 \in 0..m /\ ~(n <= n - 1)
      BY <2>3, <2>4
    <3> HIDE DEF Bad
    <3> QED
      BY <2>2, <3>1
  <2>6. e[n - 1] = g[n - 1]
    BY <2>5
  <2> QED
    BY <1>2, <1>3, <2>3, <2>4, <2>6
<1>5. e[m] = g[m]
  BY <1>4
<1> QED
  BY <1>1, <1>2, <1>3, <1>5

\* An order changes what a piece costs; when there is none, nothing does.
LEMMA PaidTells ==
  ASSUME OrdersInv, NEW k, NEW t \in Nat, Held(k, t) # 0, NEW p
  PROVE  /\ \A r \in orders : r.key = k /\ r.time = t
                                => Paid(k, t, p) = Costs(r, Held(k, t - 1), p)
         /\ (\A r \in orders : ~(r.key = k /\ r.time = t)) => Paid(k, t, p) = p
<1> DEFINE bought == {r \in orders : /\ r.key = k /\ r.time = t
                                     /\ r.operation = "INCREASE"}
<1>1. ASSUME NEW r \in orders, r.key = k, r.time = t
      PROVE  Paid(k, t, p) = Costs(r, Held(k, t - 1), p)
  <2>1. \A q \in bought : q = r
    BY <1>1 DEF OrdersInv
  <2>2. CASE r.operation = "INCREASE"
    <3>1. bought = {r}
      BY <1>1, <2>1, <2>2
    <3>2. bought # {} /\ (CHOOSE q \in bought : TRUE) = r
      BY <3>1
    <3>3. Paid(k, t, p) = IF Held(k, t - 1) = 0 THEN r.price
                          ELSE Average(Held(k, t - 1), p, r.quantity, r.price)
      BY <3>2 DEF Paid
    <3> QED
      BY <2>2, <3>3 DEF Costs
  <2>3. CASE r.operation = "DECREASE"
    <3>1. bought = {}
      BY <2>1, <2>3
    <3>2. Paid(k, t, p) = p
      BY <3>1 DEF Paid
    <3> QED
      BY <2>3, <3>2 DEF Costs
  <2> QED
    BY <2>2, <2>3 DEF OrdersInv
<1>2. ASSUME \A r \in orders : ~(r.key = k /\ r.time = t)
      PROVE  Paid(k, t, p) = p
  <2>1. bought = {}
    BY <1>2
  <2> QED
    BY <2>1 DEF Paid
<1> QED
  BY <1>1, <1>2

LEMMA CostsArePrices ==
  ASSUME OrdersInv, NEW r \in orders, NEW n \in Nat, NEW p, n # 0 => p \in Nat,
         r.operation = "DECREASE" => r.quantity <= n
  PROVE  Costs(r, n, p) \in Nat
<1>1. PICK q, y : q = r.quantity /\ y = r.price
  OBVIOUS
<1>2. q \in Nat \ {0} /\ y \in Nat /\ r.operation \in {"INCREASE", "DECREASE"}
  BY <1>1, LedgerAssumption DEF OrdersInv
<1>3. CASE r.operation = "DECREASE"
  <2>1. n # 0
    BY <1>1, <1>2, <1>3
  <2> QED
    BY <1>3, <2>1 DEF Costs
<1>4. CASE r.operation = "INCREASE" /\ n = 0
  BY <1>1, <1>2, <1>4 DEF Costs
<1>5. CASE r.operation = "INCREASE" /\ n # 0
  <2>1. PICK x \in Nat \ {0}, o \in Nat : x = n /\ o = p
    BY <1>5
  <2>2. Costs(r, n, p) = (x * o + q * y + (x + q - 1)) \div (x + q)
    BY <1>1, <1>5, <2>1 DEF Costs, Average
  <2> QED
    BY <1>2, <2>2, RoundedAverage
<1> QED
  BY <1>2, <1>3, <1>4, <1>5

\* Who holds something has paid a price for it, who holds nothing has not.
LEMMA EntryIsPrice ==
  ASSUME OrdersInv, HoldingsInv, NEW k, NEW t \in Nat
  PROVE  IF Held(k, t) = 0 THEN Entry(k, t) = NoPrice ELSE Entry(k, t) \in Nat
<1> DEFINE Good(n) == IF Held(k, n) = 0 THEN Entry(k, n) = NoPrice ELSE Entry(k, n) \in Nat
           Bad == {n \in Nat : ~Good(n)}
<1>1. SUFFICES ASSUME Bad # {} PROVE FALSE
  OBVIOUS
<1>2. PICK n \in Bad : \A m \in Bad : n <= m
  <2>1. Bad \in SUBSET Nat
    OBVIOUS
  <2> HIDE DEF Bad
  <2> QED
    BY <1>1, <2>1, LeastNatural
<1>3. n \in Nat /\ ~Good(n)
  BY <1>2
<1>4. CASE n = 0
  <2>1. Held(k, 0) = 0 /\ Entry(k, 0) = NoPrice
    BY HeldStep, EntryIsReplay
  <2> QED
    BY <1>3, <1>4, <2>1
<1>5. CASE n # 0
  <2>0. PICK m \in Nat : m = n - 1
    BY <1>3, <1>5
  <2>1. PICK p : m = n - 1 /\ p = Entry(k, m)
    BY <2>0
  <2>2. Good(m)
    <3>1. m \notin Bad
      <4>1. ~(n <= m)
        BY <1>3, <2>1
      <4> HIDE DEF Bad
      <4> QED
        BY <1>2, <4>1
    <3> QED
      BY <3>1
  <2>3. Entry(k, n) = Paid(k, n, p)
    BY <1>3, <1>5, <2>1, EntryStep
  <2>4. CASE Held(k, n) = 0
    <3>1. Entry(k, n) = NoPrice
      BY <2>3, <2>4 DEF Paid
    <3> QED
      BY <1>3, <2>4, <3>1
  <2>5. ASSUME Held(k, n) # 0, NEW r \in orders, r.key = k, r.time = n
        PROVE  Good(n)
    <3>1. PICK h \in Nat : h = Held(k, m)
      BY HeldIsNatural
    <3>2. h # 0 => p \in Nat
      BY <2>1, <2>2, <3>1
    <3>3. r.operation = "DECREASE" => r.quantity <= h
      BY <2>1, <2>5, <3>1 DEF HoldingsInv
    <3>4. Costs(r, h, p) \in Nat
      BY <3>2, <3>3, CostsArePrices
    <3>5. Entry(k, n) = Costs(r, h, p)
      BY <1>3, <2>1, <2>3, <2>5, <3>1, PaidTells
    <3> QED
      BY <2>5, <3>4, <3>5
  <2>6. ASSUME Held(k, n) # 0, \A r \in orders : ~(r.key = k /\ r.time = n)
        PROVE  Good(n)
    <3>1. Entry(k, n) = p
      BY <1>3, <2>3, <2>6, PaidTells
    <3>2. Held(k, n) = Held(k, m)
      <4>1. Gain(k, n) = 0
        BY <2>6 DEF Gain
      <4>2. Held(k, n) = Held(k, m) + 0
        BY <1>3, <1>5, <2>1, <4>1, HeldStep
      <4> QED
        BY <4>2, HeldIsNatural
    <3> QED
      BY <2>1, <2>2, <2>6, <3>1, <3>2
  <2> QED
    BY <1>3, <2>4, <2>5, <2>6
<1> QED
  BY <1>4, <1>5

\* Replaying all orders from s to T, when nothing was held before s, tells at
\* every moment what was held and what it had cost.
LEMMA Replay ==
  ASSUME OrdersInv, HoldingsInv, NEW s \in Nat, s # 0, NEW T \in Nat,
         NEW R \in SUBSET orders,
         \A r \in orders : r \in R <=> (s <= r.time /\ r.time <= T),
         NEW k \in Keys, Held(k, s - 1) = 0
  PROVE  \A t \in Nat :
           s - 1 <= t /\ t <= T => TruthAt(At(R, Complete, t)[k], k, t)
<1> DEFINE Bad == {t \in Nat : /\ s - 1 <= t /\ t <= T
                               /\ ~TruthAt(At(R, Complete, t)[k], k, t)}
<1>1. SUFFICES ASSUME Bad # {} PROVE FALSE
  OBVIOUS
<1>2. PICK t \in Bad : \A u \in Bad : t <= u
  <2>1. Bad \in SUBSET Nat
    OBVIOUS
  <2> HIDE DEF Bad
  <2> QED
    BY <1>1, <2>1, LeastNatural
<1>3. /\ t \in Nat /\ s - 1 <= t /\ t <= T
      /\ ~TruthAt(At(R, Complete, t)[k], k, t)
  BY <1>2
<1>4. CASE t = s - 1
  <2>1. \A r \in R : ~(r.time <= t)
    BY <1>4 DEF OrdersInv
  <2>2. At(R, Complete, t) = NoPositions
    BY <2>1, AtNothing
  <2>3. Held(k, t) = 0
    BY <1>4
  <2> QED
    BY <1>3, <2>2, <2>3 DEF TruthAt, Truth, NothingHeld, NoPositions
<1>5. CASE t # s - 1
  <2>1. PICK m \in Nat : m = t - 1
    BY <1>3, <1>5
  <2>2. t # 0 /\ s - 1 <= m /\ m <= T /\ ~(t <= m)
    BY <1>3, <1>5, <2>1
  <2>3. PICK P : P = At(R, Complete, m)
    OBVIOUS
  <2>0. PICK n \in Nat : n = Held(k, m)
    BY HeldIsNatural
  <2>4. PICK p : n = Held(k, m) /\ p = Entry(k, m)
    BY <2>0
  <2>5. Truth(P[k], k, n, p)
    <3>1. m \notin Bad
      <4> HIDE DEF Bad
      <4> QED
        BY <1>2, <2>2
    <3> QED
      BY <2>2, <2>3, <2>4, <3>1 DEF TruthAt
  <2>7. (n # 0 => p \in Nat) /\ Entry(k, t) = Paid(k, t, p)
    <3>1. Entry(k, t) = Paid(k, t, p)
      BY <1>3, <2>1, <2>2, <2>4, EntryStep
    <3> QED
      BY <2>4, <3>1, EntryIsPrice
  <2>6. Held(k, t) = n + Gain(k, t)
    BY <1>3, <2>1, <2>2, <2>4, HeldStep
  <2>8. ASSUME At(R, Complete, t)[k] = P[k], Held(k, t) = n,
                \A q \in orders : ~(q.key = k /\ q.time = t)
         PROVE  FALSE
    <3>1. Held(k, t) # 0 => Entry(k, t) = p
      BY <1>3, <2>7, <2>8, PaidTells
    <3> QED
      BY <1>3, <2>5, <2>8, <3>1 DEF TruthAt, Truth
  <2>9. CASE \E r \in orders : r.time = t
    <3>1. PICK r \in orders : r.time = t
      BY <2>9
    <3>2. r \in R
      BY <1>3, <2>2, <3>1
    <3>3. At(R, Complete, t) = PositionsAfter(r, P, Complete)
      BY <2>1, <2>3, <3>1, <3>2, AtRecord
    <3>4. Gain(k, t) = IF r.key = k THEN Delta(r) ELSE 0
      BY <3>1, GainOfOrder
    <3>5. CASE r.key = k
      <4>1. r.operation = "DECREASE" => r.quantity <= n
        BY <2>1, <2>4, <3>1, <3>5 DEF HoldingsInv
      <4>2. Truth(PositionsAfter(r, P, Complete)[k], k, n + Delta(r), Costs(r, n, p))
        BY <2>5, <2>7, <3>5, <4>1, RecordKeepsTruth
      <4>3. PICK e : e = At(R, Complete, t)[k]
        OBVIOUS
      <4>4. Truth(e, k, Held(k, t), Costs(r, n, p))
        BY <2>6, <3>3, <3>4, <3>5, <4>2, <4>3
      <4>5. Held(k, t) # 0 => Entry(k, t) = Costs(r, n, p)
        BY <1>3, <2>1, <2>4, <2>7, <3>1, <3>5, PaidTells
      <4>6. TruthAt(e, k, t)
        BY <4>4, <4>5 DEF TruthAt, Truth
      <4> QED
        BY <1>3, <4>3, <4>6
    <3>6. CASE r.key # k
      <4>1. r.operation # "REVERSE"
        BY DEF OrdersInv
      <4>2. PositionsAfter(r, P, Complete)[k] = P[k]
        BY <3>6, <4>1 DEF PositionsAfter
      <4>3. Held(k, t) = n
        BY <2>6, <3>4, <3>6
      <4>4. \A q \in orders : ~(q.key = k /\ q.time = t)
        BY <3>1, <3>6 DEF OrdersInv
      <4> QED
        BY <2>8, <3>3, <4>2, <4>3, <4>4
    <3> QED
      BY <3>5, <3>6
  <2>10. CASE ~\E r \in orders : r.time = t
    <3>1. At(R, Complete, t) = P
      BY <1>3, <2>1, <2>3, <2>10, AtBetween
    <3>2. Gain(k, t) = 0
      BY <2>10 DEF Gain
    <3>3. Held(k, t) = n
      BY <2>6, <3>2
    <3> QED
      BY <2>10, <2>8, <3>1, <3>3
  <2> QED
    BY <2>9, <2>10
<1> QED
  BY <1>4, <1>5

-----------------------------------------------------------------------------
(* The positions the collector keeps.                                      *)

\* The positions the ledger says.
Inferred == Positions(ledger, tradeStart # NoStart)

\* The estimate e is the inferred one, may be stale, or is no longer claimed.
Keeps(e, inferred) ==
  /\ e = Missing <=> inferred = Missing
  /\ \/ e.confidence = "UNKNOWN"
     \/ /\ e.side = inferred.side /\ e.quantity = inferred.quantity
        /\ e.entry = inferred.entry /\ e.confidence = inferred.confidence

PositionsInv ==
  /\ positions \in [Keys -> Estimates]
  /\ \A k \in Keys : Keeps(positions[k], Inferred[k])

LEMMA NothingInferred ==
  ASSUME OrdersInv, NEW c
  PROVE  Positions({}, c) = NoPositions
BY HistoryStep, FS_EmptySet

LEMMA KeepsInferred ==
  ASSUME NEW e
  PROVE  Keeps(e, e)
BY DEF Keeps

LEMMA KeepsForgotten ==
  ASSUME NEW e, NEW i, Keeps(e, i), e # Missing
  PROVE  Unknown \in Estimates /\ Keeps(Unknown, i)
<1>1. Unknown.confidence = "UNKNOWN" /\ Unknown # Missing
  <2>1. Unknown.confidence = "UNKNOWN" /\ Missing.confidence = "NONE"
    BY DEF Unknown, Missing
  <2> QED
    BY <2>1
<1>2. Unknown \in Estimates
  BY DEF Unknown, Estimates, Prices, NoPrice
<1> QED
  BY <1>1, <1>2 DEF Keeps

LEMMA KeepsStale ==
  ASSUME NEW e \in Estimates, NEW i, Keeps(e, i), e # Missing
  PROVE  /\ [e EXCEPT !.status = "STALE"] \in Estimates
         /\ Keeps([e EXCEPT !.status = "STALE"], i)
<1>1. [e EXCEPT !.status = "STALE"] \in Estimates
  BY DEF Estimates
<1>2. PICK f : f = [e EXCEPT !.status = "STALE"]
  OBVIOUS
<1>3. /\ f.side = e.side /\ f.quantity = e.quantity /\ f.entry = e.entry
      /\ f.confidence = e.confidence /\ f.status = "STALE"
  BY <1>2 DEF Estimates
<1>4. f # Missing
  BY <1>3 DEF Missing
<1>5. Keeps(f, i)
  BY <1>3, <1>4 DEF Keeps
<1> QED
  BY <1>1, <1>2, <1>5

LEMMA StepKeepsPositions ==
  ASSUME AccountInv, LedgerInv, PositionsInv, [Next]_vars
  PROVE  PositionsInv'
<1>1. OrdersInv /\ ledger \subseteq orders /\ (phase = "fetch" => config = tradeStart)
  BY DEF AccountInv, LedgerInv, StoreInv
<1>2. ASSUME UNCHANGED <<positions, ledger, tradeStart>> PROVE PositionsInv'
  BY <1>2 DEF PositionsInv, Inferred
<1>3. ASSUME Reset PROVE PositionsInv'
  <2>1. positions' = NoPositions /\ ledger' = {}
    BY <1>3 DEF Reset
  <2>2. Inferred' = NoPositions
    BY <1>1, <2>1, NothingInferred DEF Inferred
  <2>3. NoPositions \in [Keys -> Estimates]
    BY DEF NoPositions, Estimates
  <2> QED
    BY <2>1, <2>2, <2>3, KeepsInferred DEF PositionsInv
<1>4. CASE BeginCycle
  BY <1>2, <1>3, <1>4 DEF BeginCycle, EnsureTradeStart, store
<1>5. CASE Fetched
  <2>1. /\ ledger' = ledger \cup Listed /\ Listed \subseteq orders
        /\ config = tradeStart /\ tradeStart' = tradeStart
    BY <1>1, <1>5, FetchFinds DEF LedgerInv
  <2>2. /\ ledger' = ledger \cup Fresh
        /\ positions' = IF ledger \cup Fresh = {} THEN positions
                        ELSE Positions(ledger \cup Fresh, config # NoStart)
    BY <1>5 DEF Fetched, RecordTradeFetch
  <2>3. CASE ledger' = {}
    <3>1. ledger' = ledger /\ positions' = positions
      BY <2>2, <2>3
    <3> QED
      BY <1>2, <2>1, <3>1
  <2>4. CASE ledger' # {}
    <3>1. positions' = Inferred'
      BY <2>1, <2>2, <2>4 DEF Inferred
    <3>2. ledger' \in SUBSET orders
      BY <1>1, <2>1
    <3>3. Positions(ledger', tradeStart' # NoStart) \in [Keys -> Estimates]
      BY <1>1, <3>2, PositionsAreEstimates
    <3> QED
      BY <3>1, <3>3, KeepsInferred DEF PositionsInv, Inferred
  <2> QED
    BY <2>3, <2>4
<1>6. CASE GapFound
  <2>1. /\ positions' = [k \in Keys |-> IF positions[k] = Missing THEN Missing ELSE Unknown]
        /\ UNCHANGED <<ledger, tradeStart>>
    BY <1>6 DEF GapFound, ForgetPositions
  <2>2. Inferred' = Inferred
    BY <2>1 DEF Inferred
  <2>3. ASSUME NEW k \in Keys
        PROVE  positions'[k] \in Estimates /\ Keeps(positions'[k], Inferred[k])
    <3>1. Keeps(positions[k], Inferred[k]) /\ positions[k] \in Estimates
      BY DEF PositionsInv
    <3>2. positions'[k] = IF positions[k] = Missing THEN Missing ELSE Unknown
      BY <2>1
    <3> QED
      BY <3>1, <3>2, KeepsForgotten
  <2> QED
    BY <2>1, <2>2, <2>3 DEF PositionsInv
<1>7. CASE FetchFails
  <2>1. /\ positions' = [k \in Keys |-> IF positions[k] = Missing THEN Missing
                                        ELSE [positions[k] EXCEPT !.status = "STALE"]]
        /\ UNCHANGED <<ledger, tradeStart>>
    BY <1>7 DEF FetchFails, MarkStale
  <2>2. Inferred' = Inferred
    BY <2>1 DEF Inferred
  <2>3. ASSUME NEW k \in Keys
        PROVE  positions'[k] \in Estimates /\ Keeps(positions'[k], Inferred[k])
    <3>1. PICK e : e = positions[k]
      OBVIOUS
    <3>2. Keeps(e, Inferred[k]) /\ e \in Estimates
      BY <3>1 DEF PositionsInv
    <3>3. positions'[k] = IF e = Missing THEN Missing ELSE [e EXCEPT !.status = "STALE"]
      BY <2>1, <3>1
    <3> QED
      BY <3>2, <3>3, KeepsStale
  <2> QED
    BY <2>1, <2>2, <2>3 DEF PositionsInv
<1>8. CASE Trade \/ Tick \/ SetPositionStart \/ SkipFetch \/ Crash \/ UNCHANGED vars
  BY <1>2, <1>8 DEF Trade, Tick, SetPositionStart, SkipFetch, Crash, vars, store
<1>9. CASE Upload
  BY <1>2, <1>9 DEF Upload
<1> QED
  BY <1>4, <1>5, <1>6, <1>7, <1>8, <1>9 DEF Next

-----------------------------------------------------------------------------
(* A gap that no later fetch closes.                                       *)

\* The start time is out of the provider's reach, or a page of orders came
\* after one that is not older than it.
GapForGood ==
  \/ tradeStart < now - Window
  \/ \E r \in orders : tradeStart <= r.time /\ Page <= Cardinality(Later(r))

\* With a start time, a position is given up only then.
GapInv ==
  tradeStart # NoStart =>
    \/ \A k \in Keys : positions[k].confidence = "UNKNOWN"
                         => Inferred[k].confidence = "UNKNOWN"
    \/ GapForGood

LEMMA GapIsForGood ==
  ASSUME OrdersInv, StoreInv, phase = "fetch", tradeStart # NoStart
  PROVE  HistoryGap <=> GapForGood
<1>1. /\ config = tradeStart /\ config \in Start /\ RequestStart = tradeStart
      /\ ledger \subseteq orders
  BY DEF StoreInv, RequestStart
<1>2. ASSUME NEW r \in InWindow
      PROVE  r \in Listed <=> ~(Page <= Cardinality(Later(r)))
  <2>1. {q \in InWindow : Before(r, q)} = Later(r)
    BY <1>1, ListedIsNewest
  <2>2. Cardinality(Later(r)) \in Nat
    BY FS_Subset, FS_CardinalityType DEF Later, OrdersInv
  <2>3. r \in Listed <=> Cardinality(Later(r)) < Page
    BY <2>1 DEF Listed
  <2> QED
    BY <2>2, <2>3, LedgerAssumption
<1>3. /\ InWindow = {r \in orders : tradeStart <= r.time}
      /\ Listed \subseteq InWindow
  BY <1>1 DEF InWindow, Listed
<1>4. InWindow # Listed
        <=> \E r \in orders : tradeStart <= r.time /\ Page <= Cardinality(Later(r))
  BY <1>2, <1>3
<1>5. (checkpoint # NoCheckpoint /\ \A r \in Listed : r.id # checkpoint)
        => InWindow # Listed
  <2> SUFFICES ASSUME checkpoint # NoCheckpoint, \A r \in Listed : r.id # checkpoint
               PROVE  InWindow # Listed
    OBVIOUS
  <2>1. PICK c \in ledger : checkpoint = c.id
    BY DEF StoreInv
  <2>2. c \in InWindow
    BY <1>1, <1>3, <2>1 DEF StoreInv
  <2> QED
    BY <2>1, <2>2
<1>6. HistoryGap <=> tradeStart < now - Window \/ InWindow # Listed
  BY <1>1, <1>5 DEF HistoryGap
<1> QED
  BY <1>4, <1>6 DEF GapForGood

LEMMA StillLess ==
  ASSUME NEW s \in Int, NEW w \in Nat, NEW t \in Nat, NEW u \in Nat,
         s < t - w, t <= u
  PROVE  s < u - w
OBVIOUS

LEMMA GapStays ==
  ASSUME OrdersInv, OrdersInv', StoreInv, GapForGood, orders \subseteq orders', now <= now',
         tradeStart' = tradeStart
  PROVE  GapForGood'
<1>1. CASE tradeStart < now - Window
  <2>1. now \in Nat /\ now' \in Nat /\ tradeStart \in Int
    BY StartIsTime, LedgerAssumption DEF OrdersInv, StoreInv, NoStart
  <2>2. Window \in Nat
    BY LedgerAssumption
  <2>3. tradeStart < now' - Window
    BY <1>1, <2>1, <2>2, StillLess
  <2> QED
    BY <2>3 DEF GapForGood
<1>2. ASSUME NEW r \in orders, tradeStart <= r.time, Page <= Cardinality(Later(r))
      PROVE  GapForGood'
  <2>1. Later(r) \subseteq Later(r)' /\ Later(r)' \in SUBSET orders'
    BY DEF Later
  <2>2. /\ Cardinality(Later(r)) \in Nat /\ Cardinality(Later(r)') \in Nat
        /\ Cardinality(Later(r)) <= Cardinality(Later(r)')
    BY <2>1, SmallerSubset DEF OrdersInv
  <2>3. Page <= Cardinality(Later(r)')
    BY <1>2, <2>2, LedgerAssumption
  <2>4. r \in orders'
    OBVIOUS
  <2> QED
    BY <1>2, <2>3, <2>4 DEF GapForGood, Later
<1> QED
  BY <1>1, <1>2 DEF GapForGood

LEMMA StepKeepsGap ==
  ASSUME AccountInv, LedgerInv, PositionsInv, GapInv, [Next]_vars
  PROVE  GapInv'
<1>1. OrdersInv /\ StoreInv /\ OrdersInv' /\ now \in Nat /\ ledger \subseteq orders
  BY StepKeepsLedger DEF AccountInv, LedgerInv, StoreInv, OrdersInv
<1>2. ASSUME UNCHANGED <<positions, ledger, tradeStart>>, orders \subseteq orders', now <= now'
      PROVE  GapInv'
  <2>1. Inferred' = Inferred
    BY <1>2 DEF Inferred
  <2> QED
    BY <1>1, <1>2, <2>1, GapStays DEF GapInv
<1>3. ASSUME Reset PROVE GapInv'
  <2>1. positions' = NoPositions /\ ledger' = {}
    BY <1>3 DEF Reset
  <2>2. Inferred' = NoPositions
    BY <1>1, <2>1, NothingInferred DEF Inferred
  <2> QED
    BY <2>1, <2>2 DEF GapInv
<1>4. CASE BeginCycle
  <2>1. now <= now' /\ orders \subseteq orders'
    BY <1>1, <1>4 DEF BeginCycle
  <2> QED
    BY <1>2, <1>3, <1>4, <2>1 DEF BeginCycle, EnsureTradeStart, store
<1>5. CASE Fetched
  <2>1. /\ config = tradeStart /\ tradeStart' = tradeStart /\ orders' = orders
        /\ now' = now
    BY <1>1, <1>5, FetchFinds
  <2>2. /\ ledger' = ledger \cup Fresh
        /\ positions' = IF ledger \cup Fresh = {} THEN positions
                        ELSE Positions(ledger \cup Fresh, config # NoStart)
    BY <1>5 DEF Fetched, RecordTradeFetch
  <2>3. CASE ledger' = {}
    <3>1. ledger' = ledger /\ positions' = positions
      BY <2>2, <2>3
    <3>2. now <= now'
      BY <1>1, <2>1
    <3> QED
      BY <1>2, <2>1, <3>1, <3>2
  <2>4. CASE ledger' # {}
    BY <2>1, <2>2, <2>4 DEF Inferred, GapInv
  <2> QED
    BY <2>3, <2>4
<1>6. CASE GapFound
  <2>1. phase = "fetch" /\ HistoryGap /\ UNCHANGED <<tradeStart, orders, now>>
    BY <1>6 DEF GapFound
  <2>2. now <= now'
    BY <1>1, <2>1
  <2>3. tradeStart # NoStart => GapForGood
    BY <1>1, <2>1, GapIsForGood
  <2> QED
    BY <1>1, <2>1, <2>2, <2>3, GapStays DEF GapInv
<1>7. CASE FetchFails
  <2>1. /\ positions' = [k \in Keys |-> IF positions[k] = Missing THEN Missing
                                        ELSE [positions[k] EXCEPT !.status = "STALE"]]
        /\ UNCHANGED <<ledger, tradeStart, orders, now>>
    BY <1>7 DEF FetchFails, MarkStale
  <2>2. Inferred' = Inferred /\ now <= now'
    BY <1>1, <2>1 DEF Inferred
  <2>3. ASSUME NEW k \in Keys PROVE positions'[k].confidence = positions[k].confidence
    <3>1. PICK e : e = positions[k]
      OBVIOUS
    <3>2. e \in Estimates
      BY <3>1 DEF PositionsInv
    <3>3. positions'[k] = IF e = Missing THEN Missing ELSE [e EXCEPT !.status = "STALE"]
      BY <2>1, <3>1
    <3>4. e # Missing => [e EXCEPT !.status = "STALE"].confidence = e.confidence
      BY <3>2 DEF Estimates
    <3> QED
      BY <3>1, <3>3, <3>4
  <2>4. GapForGood => GapForGood'
    BY <1>1, <2>1, <2>2, GapStays
  <2> QED
    BY <2>1, <2>2, <2>3, <2>4 DEF GapInv
<1>8. CASE Trade
  <2>1. orders \subseteq orders'
    BY <1>8, TradeKeepsAccount
  <2> QED
    BY <1>1, <1>2, <1>8, <2>1 DEF Trade, store
<1>9. CASE Tick \/ SetPositionStart \/ SkipFetch \/ Crash \/ UNCHANGED vars
  <2>1. now <= now' /\ orders \subseteq orders'
    BY <1>1, <1>9 DEF Tick, SetPositionStart, SkipFetch, Crash, vars
  <2> QED
    BY <1>2, <1>9, <2>1 DEF Tick, SetPositionStart, SkipFetch, Crash, vars, store
<1>10. CASE Upload
  <2>1. now <= now' /\ orders \subseteq orders'
    BY <1>1, <1>10 DEF Upload
  <2> QED
    BY <1>2, <1>10, <2>1 DEF Upload
<1> QED
  BY <1>4, <1>5, <1>6, <1>7, <1>8, <1>9, <1>10 DEF Next

-----------------------------------------------------------------------------
(* The inductive invariant.                                                *)

IInv == AccountInv /\ LedgerInv /\ PositionsInv /\ GapInv

LEMMA InitHasIInv ==
  ASSUME Init
  PROVE  IInv
<1>1. /\ now = 0 /\ orders = {} /\ ledger = {} /\ outbox = {} /\ received = {}
      /\ refused = {} /\ positions = NoPositions /\ phase = "idle"
      /\ startAt \in Start /\ tradeStart = NoStart /\ config = NoStart
      /\ stateRow = FALSE /\ baselineDone = FALSE /\ checkpoint = NoCheckpoint
      /\ fetchedAt = 0
  BY DEF Init
<1>2. AccountInv
  BY <1>1, LedgerAssumption, FS_EmptySet DEF AccountInv, OrdersInv, HoldingsInv
<1>3. StoreInv
  <2>1. fetchedAt \in 0..now
    BY <1>1
  <2>2. tradeStart \in Start /\ config \in Start /\ phase \in {"idle", "fetch"}
        /\ stateRow \in BOOLEAN /\ baselineDone \in BOOLEAN /\ ledger \subseteq orders
    BY <1>1 DEF Start
  <2>3. \A r \in ledger : tradeStart <= r.time /\ r.time <= fetchedAt
    BY <1>1
  <2> QED
    BY <1>1, <2>1, <2>2, <2>3 DEF StoreInv
<1>4. NothingOverlooked /\ GivenBefore /\ LedgerHasNoHole /\ EveryTradePosted
  BY <1>1 DEF NothingOverlooked, GivenBefore, Given, LedgerHasNoHole, EveryTradePosted
<1>5. PositionsInv
  <2>1. Inferred = NoPositions
    BY <1>1, <1>2, NothingInferred DEF Inferred, AccountInv
  <2>2. NoPositions \in [Keys -> Estimates]
    BY DEF NoPositions, Estimates
  <2> QED
    BY <1>1, <2>1, <2>2, KeepsInferred DEF PositionsInv
<1>6. GapInv
  BY <1>1 DEF GapInv
<1> QED
  BY <1>2, <1>3, <1>4, <1>5, <1>6 DEF IInv, LedgerInv

LEMMA StepKeepsIInv ==
  ASSUME IInv, [Next]_vars
  PROVE  IInv'
BY StepKeepsLedger, StepKeepsPositions, StepKeepsGap DEF IInv

\* The inductive invariant holds.
THEOREM Invariance == Spec => []IInv
<1>1. Init => IInv
  BY InitHasIInv
<1>2. IInv /\ [Next]_vars => IInv'
  BY StepKeepsIInv
<1> QED
  BY <1>1, <1>2, PTL DEF Spec

-----------------------------------------------------------------------------
(* The theorems.                                                           *)

\* The collector's database is well typed: what record_trade_fetch,
\* ensure_trade_start and the two mark_trade_positions functions write are rows
\* the schema allows, and the checkpoint names a record of the ledger.
THEOREM TypeCorrect == Spec => []TypeOK
<1>1. IInv => TypeOK
  <2> SUFFICES ASSUME IInv PROVE TypeOK
    OBVIOUS
  <2>1. OrdersInv /\ StoreInv /\ PositionsInv
    BY DEF IInv, AccountInv, LedgerInv
  <2>2. checkpoint \in {NoCheckpoint} \cup {r.id : r \in ledger}
    BY <2>1 DEF StoreInv
  <2>3. {p.record : p \in outbox} \subseteq ledger
    BY <2>1 DEF StoreInv
  <2> QED
    BY <2>1, <2>2, <2>3 DEF TypeOK, OrdersInv, StoreInv, PositionsInv
<1> QED
  BY <1>1, Invariance, PTL

\* Once ensure_trade_start has adopted a start time, neither the ledger nor the
\* outbox has anything from before it.
THEOREM StartTimeIsAdopted == Spec => []StartTimeAdopted
<1>1. IInv => StartTimeAdopted
  <2> SUFFICES ASSUME IInv, NEW r \in ledger \cup {p.record : p \in outbox}
               PROVE  r.time >= tradeStart
    BY DEF StartTimeAdopted
  <2>1. StoreInv /\ OrdersInv
    BY DEF IInv, AccountInv, LedgerInv
  <2>2. r \in ledger
    BY <2>1 DEF StoreInv
  <2>3. tradeStart <= r.time /\ tradeStart \in Int /\ r.time \in Int
    BY <2>1, <2>2, StartIsTime, LedgerAssumption DEF StoreInv, OrdersInv, NoStart
  <2> QED
    BY <2>3
<1> QED
  BY <1>1, Invariance, PTL

\* Every trade seen after the baseline is in the outbox, stored or refused.
THEOREM TradesArePosted == Spec => []EveryTradePosted
<1>1. IInv => EveryTradePosted
  BY DEF IInv, LedgerInv
<1> QED
  BY <1>1, Invariance, PTL

\* From its first record to the last fetch the ledger has every order of the
\* account: a page that does not overlap it is never added.
THEOREM LedgerIsWhole == Spec => []LedgerHasNoHole
<1>1. IInv => LedgerHasNoHole
  BY DEF IInv, LedgerInv
<1> QED
  BY <1>1, Invariance, PTL

\* No fetch queues a trade the server was already given.
THEOREM TradesArePostedOnce == Spec => PostedOnce
<1>1. ASSUME IInv, [Next]_vars
      PROVE  (Ids(outbox') \ Ids(outbox)) \cap (received \cup refused) = {}
  <2>1. OrdersInv /\ LedgerInv /\ StoreInv /\ GivenBefore
    BY <1>1 DEF IInv, AccountInv, LedgerInv
  <2>2. CASE Fetched
    <3>1. CASE ~baselineDone
      BY <2>2, <3>1, FetchPosts
    <3>2. CASE baselineDone
      <4> SUFFICES ASSUME NEW p \in outbox', p.record.id \notin Ids(outbox)
                   PROVE  p.record.id \notin Given
        BY DEF Ids, Given
      <4>1. p.record \in Fresh
        BY <2>2, <3>2, FetchPosts DEF Ids
      <4>2. p.record.time > fetchedAt
        BY <2>1, <2>2, <3>2, <4>1, FreshIsNewer
      <4>3. p.record \in orders /\ fetchedAt \in Nat
        BY <2>1, <2>2, <4>1, FetchFinds DEF StoreInv, OrdersInv
      <4>4. p.record.id = p.record.time /\ p.record.time \in Nat
        BY <2>1, <4>3 DEF OrdersInv
      <4>5. \A id \in Given : id \in Nat /\ id <= fetchedAt
        BY <2>1, <3>2 DEF GivenBefore
      <4> QED
        BY <4>2, <4>3, <4>4, <4>5
    <3> QED
      BY <3>1, <3>2
  <2>3. CASE ~Fetched
    <3>1. outbox' = outbox \/ outbox' = {}
      BY <1>1, <2>3 DEF Next, Trade, Tick, SetPositionStart, BeginCycle, EnsureTradeStart,
                       Reset, SkipFetch, GapFound, FetchFails, Upload, Crash, vars, store
    <3> QED
      BY <3>1 DEF Ids
  <2> QED
    BY <2>2, <2>3
<1> QED
  BY <1>1, Invariance, PTL DEF Spec, PostedOnce

\* With a start time and a baseline, the ledger is the orders since.
LEMMA LedgerIsComplete ==
  ASSUME IInv, tradeStart # NoStart, baselineDone
  PROVE  /\ tradeStart \in Nat /\ tradeStart # 0 /\ fetchedAt \in Nat
         /\ tradeStart <= fetchedAt /\ ledger \in SUBSET orders
         /\ \A r \in orders :
              r \in ledger <=> (tradeStart <= r.time /\ r.time <= fetchedAt)
<1>1. StoreInv /\ NothingOverlooked /\ OrdersInv
  BY DEF IInv, AccountInv, LedgerInv
<1>2. /\ tradeStart \in Nat /\ tradeStart # 0 /\ fetchedAt \in Nat /\ ledger \subseteq orders
      /\ tradeStart <= fetchedAt /\ \A r \in orders : r.time \in Nat
  BY <1>1, StartIsTime, LedgerAssumption DEF StoreInv, OrdersInv
<1>3. ASSUME NEW r \in orders, tradeStart <= r.time, r.time <= fetchedAt
      PROVE  r \in ledger
  <2>1. ~OutOfReach(r)
    BY <1>2, <1>3 DEF OutOfReach
  <2> QED
    BY <1>1, <1>3, <2>1 DEF NothingOverlooked
<1> QED
  BY <1>1, <1>2, <1>3 DEF StoreInv

\* What is inferred from such a ledger.
LEMMA InferredIsTrue ==
  ASSUME IInv, tradeStart # NoStart, baselineDone, NEW k \in Keys,
         Held(k, tradeStart - 1) = 0
  PROVE  TruthAt(Inferred[k], k, fetchedAt) /\ Held(k, fetchedAt) \in Nat
<1>1. /\ tradeStart \in Nat /\ tradeStart # 0 /\ fetchedAt \in Nat
      /\ tradeStart <= fetchedAt /\ ledger \in SUBSET orders
      /\ \A r \in orders : r \in ledger <=> (tradeStart <= r.time /\ r.time <= fetchedAt)
  BY LedgerIsComplete
<1>2. OrdersInv /\ HoldingsInv
  BY DEF IInv, AccountInv
<1>3. PICK s \in Nat, T \in Nat, R \in SUBSET orders :
        s = tradeStart /\ T = fetchedAt /\ R = ledger
  BY <1>1
<1>4. s - 1 <= T
  BY <1>1, <1>3
<1>5. TruthAt(At(R, Complete, T)[k], k, T)
  <2>1. \A t \in Nat :
          s - 1 <= t /\ t <= T => TruthAt(At(R, Complete, t)[k], k, t)
    BY <1>1, <1>2, <1>3, Replay
  <2> QED
    BY <1>4, <2>1
<1>6. At(R, Complete, T) = Positions(R, Complete)
  BY <1>1, <1>2, <1>3, AtAll
<1>7. Inferred = Positions(R, Complete)
  <2>1. (tradeStart # NoStart) = Complete
    BY DEF Complete
  <2> QED
    BY <1>3, <2>1 DEF Inferred
<1> QED
  BY <1>2, <1>3, <1>5, <1>6, <1>7, HeldIsNatural

\* A position claimed with high confidence is what the account held at the last
\* fetch, if it was flat at the start time; one without a row was not held.
THEOREM HighConfidenceIsTruth == Spec => []HighConfidenceIsTrue
<1>1. IInv => HighConfidenceIsTrue
  <2> SUFFICES ASSUME IInv, NEW k \in Keys, tradeStart # NoStart, fetchedAt # 0,
                      Held(k, tradeStart - 1) = 0
               PROVE  /\ positions[k].confidence = "HIGH" =>
                           positions[k].quantity = Held(k, fetchedAt)
                      /\ positions[k] = Missing => Held(k, fetchedAt) = 0
    BY DEF HighConfidenceIsTrue
  <2>1. baselineDone
    BY DEF IInv, LedgerInv, StoreInv
  <2>2. PICK e, i, n : e = positions[k] /\ i = Inferred[k] /\ n = Held(k, fetchedAt)
    OBVIOUS
  <2>3. Truth(i, k, n, Entry(k, fetchedAt))
    BY <2>1, <2>2, InferredIsTrue DEF TruthAt
  <2>4. Keeps(e, i)
    BY <2>2 DEF IInv, PositionsInv
  <2>5. i = Missing => n = 0
    BY <2>3, ExactlyTells DEF Truth
  <2>6. i # Missing => i.quantity = n
    BY <2>3, ExactlyTells DEF Truth, NothingHeld, Flat
  <2>7. e.confidence = "HIGH" => e # Missing
    BY DEF Missing
  <2> QED
    BY <2>2, <2>4, <2>5, <2>6, <2>7 DEF Keeps
<1> QED
  BY <1>1, Invariance, PTL

\* Positions have the same signature when as much is held at the same price.
LEMMA SignatureTells ==
  ASSUME OrdersInv, HoldingsInv, NEW k, NEW t \in Nat, NEW u \in Nat,
         NEW e, NEW f, TruthAt(e, k, t), TruthAt(f, k, u)
  PROVE  Signature(e) = Signature(f) <=> Holding(k, t) = Holding(k, u)
<1> DEFINE Told(d, n, p) == Signature(d) = IF n = 0 THEN <<"FLAT", 0, NoPrice>>
                                           ELSE <<k[2], n, p>>
<1>1. ASSUME NEW d, NEW n, NEW p, Truth(d, k, n, p) PROVE Told(d, n, p)
  <2>1. CASE n = 0
    BY <1>1, <2>1 DEF Truth, NothingHeld, Flat, Missing, Signature
  <2>2. CASE n # 0
    <3>1. d = Exactly(k, n, p)
      BY <1>1, <2>2 DEF Truth
    <3>2. d.side = k[2] /\ d.quantity = n /\ d.entry = p /\ d # Missing
      BY <3>1, ExactlyTells
    <3> QED
      BY <2>2, <3>2 DEF Signature
  <2> QED
    BY <2>1, <2>2
<1>2. PICK n, m, p, q : /\ n = Held(k, t) /\ p = Entry(k, t)
                        /\ m = Held(k, u) /\ q = Entry(k, u)
  OBVIOUS
<1>3. Told(e, n, p) /\ Told(f, m, q)
  BY <1>1, <1>2 DEF TruthAt
<1>4. (n = 0 => p = NoPrice) /\ (m = 0 => q = NoPrice)
  BY <1>2, EntryIsPrice
<1>5. Holding(k, t) = Holding(k, u) <=> n = m /\ p = q
  BY <1>2 DEF Holding
<1>6. \A x, y, o, r :
        /\ <<k[2], x, o>> = <<k[2], y, r>> <=> x = y /\ o = r
        /\ <<k[2], x, o>> = <<"FLAT", 0, NoPrice>> => x = 0
  OBVIOUS
<1> QED
  BY <1>3, <1>4, <1>5, <1>6

\* Before a fetch adds to the ledger, what the positions say is what was held
\* at the last one.
LEMMA PositionsTell ==
  ASSUME IInv, Fetched, tradeStart # NoStart, baselineDone, NEW k \in Keys,
         Held(k, tradeStart - 1) = 0
  PROVE  Signature(positions[k]) = Signature(Inferred[k])
<1>1. OrdersInv /\ StoreInv /\ phase = "fetch" /\ ~HistoryGap
  BY DEF IInv, AccountInv, LedgerInv, Fetched
<1>2. ~GapForGood
  BY <1>1, GapIsForGood
<1>3. PICK e, i, n, p : /\ e = positions[k] /\ i = Inferred[k]
                        /\ n = Held(k, fetchedAt) /\ p = Entry(k, fetchedAt)
  OBVIOUS
<1>4. Truth(i, k, n, p)
  BY <1>3, InferredIsTrue DEF TruthAt
<1>5. i.confidence # "UNKNOWN"
  BY <1>4, ExactlyTells DEF Truth, NothingHeld, Flat, Complete, Missing
<1>6. Keeps(e, i) /\ e.confidence # "UNKNOWN"
  BY <1>2, <1>3, <1>5 DEF IInv, PositionsInv, GapInv
<1> QED
  BY <1>3, <1>6 DEF Keeps, Signature

\* What a fetch makes of a complete ledger is the truth again.
LEMMA FetchTells ==
  ASSUME IInv, Fetched, tradeStart # NoStart, NEW k \in Keys,
         Held(k, tradeStart - 1) = 0, NEW R \in SUBSET orders, R = ledger'
  PROVE  /\ TruthAt(Positions(R, Complete)[k], k, now)
         /\ \A r \in R : /\ Held(k, r.time - 1) \in Nat
                         /\ TruthAt(At(R, Complete, r.time - 1)[k], k, r.time - 1)
<1>1. OrdersInv /\ HoldingsInv /\ LedgerInv /\ StoreInv
  BY DEF IInv, AccountInv, LedgerInv
<1>2. /\ tradeStart \in Nat /\ tradeStart # 0 /\ now \in Nat /\ tradeStart <= now
      /\ \A r \in orders : r.time \in Nat /\ r.time <= now
  BY <1>1, FetchFinds, StartIsTime, LedgerAssumption DEF StoreInv, OrdersInv
<1>3. /\ ledger' = ledger \cup Listed /\ config = tradeStart /\ InWindow = Listed
      /\ \A r \in ledger' : tradeStart <= r.time
  BY <1>1, FetchFinds
<1>4. \A r \in orders : r \in R <=> (tradeStart <= r.time /\ r.time <= now)
  BY <1>2, <1>3 DEF InWindow, RequestStart
<1>5. PICK s \in Nat, T \in Nat : s = tradeStart /\ T = now
  BY <1>2
<1>6. \A t \in Nat : s - 1 <= t /\ t <= T => TruthAt(At(R, Complete, t)[k], k, t)
  BY <1>1, <1>2, <1>4, <1>5, Replay
<1>7. At(R, Complete, T) = Positions(R, Complete)
  BY <1>1, <1>2, <1>5, AtAll
<1>8. ASSUME NEW r \in R
      PROVE  /\ Held(k, r.time - 1) \in Nat
             /\ TruthAt(At(R, Complete, r.time - 1)[k], k, r.time - 1)
  <2>1. PICK t : t = r.time - 1
    OBVIOUS
  <2>2. t \in Nat /\ s - 1 <= t /\ t <= T
    BY <1>2, <1>4, <1>5, <2>1
  <2>3. Held(k, t) \in Nat
    BY <1>1, <2>2, HeldIsNatural
  <2> QED
    BY <1>6, <2>1, <2>2, <2>3
<1>9. s - 1 <= T
  BY <1>2, <1>5
<1>10. TruthAt(At(R, Complete, T)[k], k, T)
  BY <1>6, <1>9
<1> QED
  BY <1>5, <1>7, <1>8, <1>10

LEMMA DoesIsChange ==
  ASSUME OrdersInv, HoldingsInv, NEW r \in orders
  PROVE  Does(r, Held(r.key, r.time - 1)) = Change(r)
<1>1. PICK k, t, n : k = r.key /\ t = r.time /\ n = Held(k, t - 1)
  OBVIOUS
<1>2. t \in Nat \ {0} /\ r.quantity \in Nat /\ r.operation \in {"INCREASE", "DECREASE"}
  <2>1. r.quantity \in Quantities /\ r.time \in 1..now /\ now \in Nat
        /\ r.operation \in {"INCREASE", "DECREASE"}
    BY DEF OrdersInv
  <2>2. r.quantity \in Nat
    BY <2>1, LedgerAssumption
  <2>3. t \in Nat \ {0}
    BY <1>1, <2>1
  <2> QED
    BY <2>1, <2>2, <2>3
<1>3. n \in Nat
  <2>1. t - 1 \in Nat
    BY <1>2
  <2> QED
    BY <1>1, <2>1, HeldIsNatural
<1>4. Held(k, t) = n + Delta(r)
  <2>1. Gain(k, t) = Delta(r)
    BY <1>1, GainOfOrder
  <2>2. Held(k, t) = Held(k, t - 1) + Gain(k, t)
    BY <1>2, HeldStep
  <2> QED
    BY <1>1, <2>1, <2>2
<1>5. CASE r.operation = "INCREASE"
  BY <1>1, <1>5 DEF Does, Change
<1>6. CASE r.operation = "DECREASE"
  <2>1. Held(k, t) = 0 <=> n = r.quantity
    BY <1>2, <1>3, <1>4, <1>6 DEF Delta
  <2> QED
    BY <1>1, <1>6, <2>1 DEF Does, Change
<1> QED
  BY <1>2, <1>5, <1>6

\* The action of a post is what the trade did to the account, and the changes of
\* its batch are the positions that differ between the last two fetches.
THEOREM PostsTellTheTruth == Spec => PostsTellTheChange
<1>1. ASSUME IInv, [Next]_vars, NEW p \in outbox' \ outbox, tradeStart # NoStart,
             \A k \in Keys : Held(k, tradeStart - 1) = 0
      PROVE  /\ p.action = Change(p.record)
             /\ p.changes = {k \in Keys : Holding(k, fetchedAt) # Holding(k, now)}
  <2>1. OrdersInv /\ HoldingsInv /\ LedgerInv /\ StoreInv
    BY <1>1 DEF IInv, AccountInv, LedgerInv
  <2>2. Fetched
    BY <1>1 DEF Next, Trade, Tick, SetPositionStart, BeginCycle, EnsureTradeStart,
                Reset, SkipFetch, GapFound, FetchFails, Upload, Crash, vars, store
  <2>3. baselineDone
    BY <1>1, <2>2, FetchPosts
  <2>4. /\ config = tradeStart /\ ledger' = ledger \cup Fresh
        /\ Fresh \subseteq orders /\ ledger \subseteq orders
    BY <2>1, <2>2, FetchFinds DEF StoreInv
  <2>5. (config # NoStart) = Complete
    BY <1>1, <2>4 DEF Complete
  <2>6. PICK R \in SUBSET orders : R = ledger \cup Fresh
    BY <2>4
  <2> DEFINE after == IF R = {} THEN positions ELSE Positions(R, Complete)
  <2>7. p \in Posts(Fresh, R, PositionChanges(positions, after))
    BY <1>1, <2>2, <2>3, <2>5, <2>6 DEF Fetched, RecordTradeFetch, Queued
  <2>8. PICK r \in Fresh :
          /\ p.record = r /\ p.action = Action(r, R, Complete)
          /\ p.changes = PositionChanges(positions, after)
    <3> HIDE DEF after
    <3> QED
      BY <2>5, <2>7 DEF Posts
  <2>9. r \in R /\ r \in orders /\ after = Positions(R, Complete)
    BY <2>4, <2>6
  <2> HIDE DEF after
  <2>10. p.action = Change(r)
    <3>1. PICK P, t, n, y : /\ P = At(R, Complete, r.time - 1) /\ t = r.time - 1
                            /\ n = Held(r.key, t) /\ y = Entry(r.key, t)
      OBVIOUS
    <3>2. r.key \in Keys
      BY <2>1, <2>9 DEF OrdersInv
    <3>3. n \in Nat /\ Truth(P[r.key], r.key, n, y)
      BY <1>1, <2>2, <2>4, <2>6, <2>9, <3>1, <3>2, FetchTells DEF TruthAt
    <3>7. n # 0 => y \in Nat
      <4>1. t \in Nat
        BY <2>1, <2>9, <3>1 DEF OrdersInv
      <4> QED
        BY <2>1, <3>1, <4>1, EntryIsPrice
    <3>4. r.operation = "DECREASE" => r.quantity <= n
      BY <2>1, <2>9, <3>1 DEF HoldingsInv
    <3>5. ApplyRecord(r, P, Complete).action = Does(r, n)
      BY <2>1, <2>9, <3>3, <3>4, <3>7, RecordKeepsTruth
    <3>6. Action(r, R, Complete) = ApplyRecord(r, P, Complete).action
      BY <2>1, <2>9, <3>1, AtRecord
    <3> QED
      BY <2>1, <2>8, <2>9, <3>1, <3>5, <3>6, DoesIsChange
  <2>11. ASSUME NEW k \in Keys
         PROVE  Signature(positions[k]) = Signature(after[k])
                  <=> Holding(k, fetchedAt) = Holding(k, now)
    <3>1. Held(k, tradeStart - 1) = 0
      BY <1>1
    <3>2. Signature(positions[k]) = Signature(Inferred[k])
      BY <1>1, <2>2, <2>3, <3>1, PositionsTell
    <3>3. TruthAt(Inferred[k], k, fetchedAt)
      BY <1>1, <2>3, <3>1, InferredIsTrue
    <3>4. TruthAt(after[k], k, now)
      BY <1>1, <2>2, <2>4, <2>6, <2>9, <3>1, FetchTells
    <3>5. fetchedAt \in Nat /\ now \in Nat
      BY <2>1 DEF StoreInv, OrdersInv
    <3> QED
      BY <2>1, <3>2, <3>3, <3>4, <3>5, SignatureTells
  <2> QED
    BY <2>8, <2>10, <2>11 DEF PositionChanges
<1>2. ASSUME IInv, [Next]_vars
      PROVE  \A p \in outbox' \ outbox :
               (/\ tradeStart # NoStart
                /\ \A k \in Keys : Held(k, tradeStart - 1) = 0) =>
                 /\ p.action = Change(p.record)
                 /\ p.changes = {k \in Keys : Holding(k, fetchedAt) # Holding(k, now)}
  BY <1>1, <1>2
<1> QED
  BY <1>2, Invariance, PTL DEF Spec, PostsTellTheChange

=============================================================================
