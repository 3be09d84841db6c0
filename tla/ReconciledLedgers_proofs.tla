---------------------- MODULE ReconciledLedgers_proofs ----------------------
(***************************************************************************)
(* Proofs about the reconciler, for ledgers of any length with any number  *)
(* of corrections, of all operations, keys, quantities and prices.         *)
(***************************************************************************)
EXTENDS ReconciledLedgers, OrderLemmas

-----------------------------------------------------------------------------
(* The ledgers.                                                            *)

FamilyInv ==
  /\ family.ids \subseteq Nat /\ family.revisions \subseteq Nat
  /\ family.times \subseteq Nat /\ family.observed \subseteq Nat
  /\ family.operations \subseteq Operations /\ family.keys \subseteq Keys
  /\ family.quantities \subseteq (Nat \ {0}) \cup {NoQuantity}
  /\ family.prices \subseteq Prices

\* What a record is made of.
Recorded(r) ==
  /\ r.id \in Nat /\ r.revision \in Nat /\ r.time \in Nat /\ r.observed \in Nat
  /\ r.operation \in family.operations /\ r.key \in family.keys
  /\ r.quantity \in family.quantities /\ r.price \in family.prices

\* A ledger is finite and has a revision of a trade once.
LedgerInv ==
  /\ FamilyInv
  /\ IsFiniteSet(ledger)
  /\ ledger \subseteq Records
  /\ \A r \in ledger : Recorded(r)
  /\ \A r, q \in ledger : r.id = q.id /\ r.revision = q.revision => r = q
  /\ Count \in Nat

LEMMA TradesAreCounted ==
  ASSUME IsFiniteSet(ledger)
  PROVE  Trades \in SUBSET ledger /\ IsFiniteSet(Trades) /\ Count \in Nat
<1>1. Trades \in SUBSET ledger
  BY DEF Trades, Effective
<1> QED
  BY <1>1, FS_Subset, FS_CardinalityType DEF Count

LEMMA InitHasLedgerInv == Init => LedgerInv
<1> SUFFICES ASSUME Init PROVE LedgerInv
  OBVIOUS
<1>1. IsFiniteSet(ledger) /\ Count \in Nat
  BY FS_EmptySet, TradesAreCounted DEF Init
<1>2. FamilyInv
  BY FamiliesAssumption DEF Init, FamilyInv, Family
<1> QED
  BY <1>1, <1>2 DEF LedgerInv, Init

\* The trades of a finite ledger are counted, in the next state too.
LEMMA FiniteLedgersAreCounted ==
  \A R : IsFiniteSet(R) => Cardinality(Effective(R)) \in Nat
<1> SUFFICES ASSUME NEW R, IsFiniteSet(R) PROVE Cardinality(Effective(R)) \in Nat
  OBVIOUS
<1>1. Effective(R) \in SUBSET R
  BY DEF Effective
<1> QED
  BY <1>1, FS_Subset, FS_CardinalityType

LEMMA ObserveKeepsLedgerInv == LedgerInv /\ Observe => LedgerInv'
<1> SUFFICES ASSUME LedgerInv, Observe PROVE LedgerInv'
  OBVIOUS
<1>1. PICK r \in Records :
        /\ \A q \in ledger : q.id # r.id \/ q.revision # r.revision
        /\ ledger' = ledger \cup {r}
  BY DEF Observe
<1>2. FamilyInv' /\ family' = family
  BY DEF LedgerInv, Observe, FamilyInv
<1>3. Recorded(r)
  BY DEF Records, Recorded, LedgerInv, FamilyInv
<1>4. IsFiniteSet(ledger')
  BY <1>1, FS_AddElement DEF LedgerInv
<1>5. \A q \in ledger' : Recorded(q)'
  BY <1>1, <1>2, <1>3 DEF LedgerInv, Recorded
<1>6. \A q, s \in ledger' : q.id = s.id /\ q.revision = s.revision => q = s
  BY <1>1 DEF LedgerInv
<1>7. ledger' \subseteq Records'
  BY <1>1, <1>2 DEF LedgerInv, Records
<1>8. Count' \in Nat
  BY <1>4, FiniteLedgersAreCounted DEF Count, Trades
<1> QED
  BY <1>2, <1>4, <1>5, <1>6, <1>7, <1>8 DEF LedgerInv

LEMMA ObserveAgainKeepsLedgerInv == LedgerInv /\ ObserveAgain => LedgerInv'
<1> SUFFICES ASSUME LedgerInv, ObserveAgain PROVE LedgerInv'
  OBVIOUS
<1>1. PICK r \in ledger, t \in family.observed :
        ledger' = (ledger \ {r}) \cup {[r EXCEPT !.observed = t]}
  BY DEF ObserveAgain
<1> DEFINE s == [r EXCEPT !.observed = t]
<1>2. FamilyInv' /\ family' = family
  BY DEF LedgerInv, ObserveAgain, FamilyInv
<1>3. /\ s \in Records /\ s.id = r.id /\ s.revision = r.revision
      /\ s.time = r.time /\ s.observed = t /\ s.operation = r.operation
      /\ s.key = r.key /\ s.quantity = r.quantity /\ s.price = r.price
  BY <1>1 DEF LedgerInv, Records
<1>4. Recorded(s) /\ Recorded(s)'
  BY <1>2, <1>3 DEF Records, Recorded, LedgerInv, FamilyInv
<1> HIDE DEF s
<1>5. ledger' = (ledger \ {r}) \cup {s}
  BY <1>1 DEF s
<1>6. IsFiniteSet(ledger')
  <2>1. IsFiniteSet(ledger \ {r})
    BY FS_Subset DEF LedgerInv
  <2> QED
    BY <1>5, <2>1, FS_AddElement
<1>7. ledger' \subseteq Records'
  BY <1>2, <1>3, <1>5 DEF LedgerInv, Records
<1>8. \A q \in ledger' : Recorded(q)'
  BY <1>2, <1>4, <1>5 DEF LedgerInv, Recorded
<1>9. \A p, q \in ledger' : p.id = q.id /\ p.revision = q.revision => p = q
  BY <1>3, <1>5 DEF LedgerInv
<1>10. Count' \in Nat
  BY <1>6, FiniteLedgersAreCounted DEF Count, Trades
<1> QED
  BY <1>2, <1>6, <1>7, <1>8, <1>9, <1>10 DEF LedgerInv

\* The ledgers are as described, whatever records come in whatever order.
THEOREM LedgersAreWellFormed == Spec => []LedgerInv
<1>1. LedgerInv /\ [Next]_<<family, ledger>> => LedgerInv'
  <2> SUFFICES ASSUME LedgerInv, [Next]_<<family, ledger>> PROVE LedgerInv'
    OBVIOUS
  <2>1. CASE UNCHANGED <<family, ledger>>
    BY <2>1 DEF LedgerInv, FamilyInv, Recorded, Records, Count, Trades
  <2> QED
    BY <2>1, ObserveKeepsLedgerInv, ObserveAgainKeepsLedgerInv DEF Next
<1> QED
  BY <1>1, InitHasLedgerInv, PTL DEF Spec

-----------------------------------------------------------------------------
(* The trades: of each the revision observed last.                         *)

\* Revision q of a trade counts rather than revision r.
Later(q, r) == \/ q.observed > r.observed
               \/ q.observed = r.observed /\ q.revision > r.revision

LEMMA LaterIsOrder ==
  ASSUME NEW q, NEW r, NEW s,
         q.observed \in Nat, r.observed \in Nat, s.observed \in Nat,
         q.revision \in Nat, r.revision \in Nat, s.revision \in Nat
  PROVE  /\ ~Later(r, r)
         /\ Later(q, r) /\ Later(r, s) => Later(q, s)
         /\ Later(q, r) \/ Later(r, q) \/ q.revision = r.revision
BY DEF Later

LEMMA OneRevisionCounts ==
  ASSUME LedgerInv, NEW r \in Trades, NEW q \in Trades, r.id = q.id
  PROVE  r = q
<1>1. r \in ledger /\ q \in ledger /\ ~Superseded(r, ledger) /\ ~Superseded(q, ledger)
  BY DEF Trades, Effective
<1>2. ~Later(q, r) /\ ~Later(r, q)
  BY <1>1 DEF Superseded, Later
<1>3. /\ r.revision \in Nat /\ q.revision \in Nat
      /\ r.observed \in Nat /\ q.observed \in Nat
  BY <1>1 DEF LedgerInv, Recorded
<1>4. r.revision = q.revision
  BY <1>2, <1>3, LaterIsOrder
<1> QED
  BY <1>1, <1>4 DEF LedgerInv

LEMMA SomeRevisionCounts ==
  ASSUME LedgerInv, NEW s \in ledger
  PROVE  \E r \in Trades : r.id = s.id
<1> DEFINE R == {r \in ledger : r.id = s.id}
           Above(r) == {q \in R : Later(q, r)}
           N == {Cardinality(Above(r)) : r \in R}
<1>1. IsFiniteSet(R) /\ s \in R
  BY FS_Subset DEF LedgerInv
<1>2. \A r \in R : r.observed \in Nat /\ r.revision \in Nat
  BY DEF LedgerInv, Recorded
<1>3. ASSUME NEW r \in R PROVE Above(r) \in SUBSET R /\ Cardinality(Above(r)) \in Nat
  <2>1. Above(r) \in SUBSET R
    OBVIOUS
  <2> HIDE DEF Above, R
  <2> QED
    BY <1>1, <2>1, FS_Subset, FS_CardinalityType
<1>4. PICK n \in N : \A m \in N : n <= m
  <2>1. N \in SUBSET Nat /\ N # {}
    <3> HIDE DEF Above, R
    <3> QED
      BY <1>1, <1>3
  <2> HIDE DEF N
  <2> QED
    BY <2>1, LeastNatural
<1>5. PICK r \in R : n = Cardinality(Above(r))
  <2> HIDE DEF R, Above
  <2> QED
    OBVIOUS
<1>6. ASSUME NEW q \in R, Later(q, r) PROVE FALSE
  <2>1. Above(q) \subseteq Above(r)
    <3>1. ASSUME NEW p \in R, Later(p, q) PROVE Later(p, r)
      BY <1>2, <1>6, <3>1, LaterIsOrder
    <3> HIDE DEF R
    <3> QED
      BY <3>1
  <2>2. q \in Above(r) /\ q \notin Above(q)
    BY <1>2, <1>6, LaterIsOrder
  <2>3. Cardinality(Above(q)) < Cardinality(Above(r))
    <3> HIDE DEF Above, R
    <3> QED
      BY <1>1, <1>3, <1>6, <2>1, <2>2, SmallerSubset
  <2>4. Cardinality(Above(q)) \in N
    <3> HIDE DEF Above, R
    <3> QED
      BY <1>6
  <2>5. n <= Cardinality(Above(q)) /\ n \in Nat /\ Cardinality(Above(q)) \in Nat
    <3> HIDE DEF Above, R, N
    <3> QED
      BY <1>3, <1>4, <1>5, <1>6, <2>4
  <2> QED
    BY <1>5, <2>3, <2>5
<1>7. ~Superseded(r, ledger)
  BY <1>6 DEF Superseded, Later
<1> QED
  BY <1>7 DEF Trades, Effective

\* Of every trade the ledger has a record of exactly one revision counts in
\* reconcile_records, none observed before another one of the trade.
THEOREM EveryTradeCountsOnce ==
  Spec => [](\A s \in ledger :
               \E r \in Trades : /\ r.id = s.id /\ ~Later(s, r)
                                 /\ \A q \in Trades : q.id = s.id => q = r)
<1>1. ASSUME LedgerInv, NEW s \in ledger
      PROVE  \E r \in Trades : /\ r.id = s.id /\ ~Later(s, r)
                               /\ \A q \in Trades : q.id = s.id => q = r
  <2>1. PICK r \in Trades : r.id = s.id
    BY <1>1, SomeRevisionCounts
  <2>2. ~Later(s, r)
    BY <1>1, <2>1 DEF Trades, Effective, Superseded, Later
  <2> QED
    BY <1>1, <2>1, <2>2, OneRevisionCounts
<1>2. LedgerInv => \A s \in ledger :
                     \E r \in Trades : /\ r.id = s.id /\ ~Later(s, r)
                                       /\ \A q \in Trades : q.id = s.id => q = r
  BY <1>1
<1> QED
  BY <1>2, LedgersAreWellFormed, PTL

-----------------------------------------------------------------------------
(* Their order.                                                            *)

LEMMA EarlierIsOrder ==
  ASSUME NEW q, NEW r, NEW s,
         q.time \in Nat, r.time \in Nat, s.time \in Nat,
         q.id \in Nat, r.id \in Nat, s.id \in Nat
  PROVE  /\ ~Earlier(r, r)
         /\ Earlier(q, r) /\ Earlier(r, s) => Earlier(q, s)
         /\ Earlier(q, r) \/ Earlier(r, q) \/ q.id = r.id
BY DEF Earlier

LEMMA RanksGrow ==
  ASSUME LedgerInv, NEW q \in Trades, NEW r \in Trades
  PROVE  /\ Rank(r) \in 1..Count
         /\ Earlier(q, r) => Rank(q) < Rank(r)
         /\ q # r => Rank(q) # Rank(r)
<1> DEFINE U(s) == {p \in Trades : Earlier(p, s)}
<1>1. IsFiniteSet(Trades) /\ Count = Cardinality(Trades) /\ Count \in Nat
  BY TradesAreCounted DEF LedgerInv, Count
<1>2. \A p \in Trades : p.time \in Nat /\ p.id \in Nat
  BY DEF Trades, Effective, LedgerInv, Recorded
<1>3. ASSUME NEW s \in Trades PROVE U(s) \in SUBSET Trades /\ s \notin U(s)
  BY <1>2, <1>3, EarlierIsOrder
<1>4. ASSUME NEW s \in Trades PROVE Cardinality(U(s)) \in Nat /\ Cardinality(U(s)) < Count
  <2>1. Trades \in SUBSET Trades /\ U(s) # Trades
    BY <1>3
  <2> HIDE DEF U
  <2> QED
    BY <1>1, <1>3, <1>4, <2>1, SmallerSubset
<1>5. ASSUME NEW s \in Trades, NEW t \in Trades, Earlier(s, t)
      PROVE  Cardinality(U(s)) < Cardinality(U(t))
  <2>1. U(s) \subseteq U(t)
    <3>1. ASSUME NEW p \in Trades, Earlier(p, s) PROVE Earlier(p, t)
      BY <1>2, <1>5, <3>1, EarlierIsOrder
    <3> QED
      BY <3>1
  <2>2. s \in U(t) /\ s \notin U(s)
    BY <1>2, <1>5, EarlierIsOrder
  <2> HIDE DEF U
  <2> QED
    BY <1>1, <1>3, <1>5, <2>1, <2>2, SmallerSubset
<1>6. \A s \in Trades : Rank(s) = Cardinality(U(s)) + 1
  BY DEF Rank
<1> HIDE DEF U
<1>7. \A s \in Trades : Rank(s) \in 1..Count
  BY <1>1, <1>4, <1>6
<1>8. \A s, t \in Trades : Earlier(s, t) => Rank(s) < Rank(t)
  BY <1>4, <1>5, <1>6
<1>9. ASSUME q # r PROVE Rank(q) # Rank(r)
  <2>1. q.id # r.id
    BY <1>9, OneRevisionCounts
  <2>2. Earlier(q, r) \/ Earlier(r, q)
    BY <1>2, <2>1, EarlierIsOrder
  <2> QED
    BY <1>7, <1>8, <2>2
<1> QED
  BY <1>7, <1>8, <1>9

\* Trade(n) is the trade of rank n.
LEMMA TradeHasRank ==
  ASSUME LedgerInv
  PROVE  /\ \A n \in 1..Count : /\ Trade(n) \in Trades /\ Rank(Trade(n)) = n
                                /\ Recorded(Trade(n))
         /\ \A r \in Trades : Rank(r) \in 1..Count /\ r = Trade(Rank(r)) /\ Recorded(r)
<1> DEFINE f == [r \in Trades |-> Rank(r)]
<1>1. IsFiniteSet(Trades) /\ Count = Cardinality(Trades) /\ Count \in Nat
  BY TradesAreCounted DEF LedgerInv, Count
<1>2. \A r \in Trades : Recorded(r)
  BY DEF Trades, Effective, LedgerInv
<1>3. \A r, q \in Trades : Rank(r) \in 1..Count /\ (Rank(q) = Rank(r) => q = r)
  BY RanksGrow
<1>4. IsFiniteSet(1..Count) /\ Cardinality(1..Count) = Count
  <2>1. PICK n \in Nat : n = Count
    BY <1>1
  <2>2. IsFiniteSet(1..n) /\ Cardinality(1..n) = n
    <3>1. 1 \in Int /\ n \in Int
      OBVIOUS
    <3>2. IsFiniteSet(1..n) /\ Cardinality(1..n) = IF 1 > n THEN 0 ELSE n - 1 + 1
      BY <3>1, FS_Interval
    <3> QED
      BY <3>2
  <2> QED
    BY <2>1, <2>2
<1>5. f \in Injection(Trades, 1..Count)
  BY <1>3 DEF Injection, IsInjective
<1>6. f \in Surjection(Trades, 1..Count)
  <2> HIDE DEF f
  <2> QED
    BY <1>1, <1>4, <1>5, FS_Injection
<1>7. ASSUME NEW n \in 1..Count PROVE \E r \in Trades : Rank(r) = n
  BY <1>6 DEF Surjection
<1>8. ASSUME NEW n \in 1..Count PROVE Trade(n) \in Trades /\ Rank(Trade(n)) = n
  BY <1>7 DEF Trade
<1>9. ASSUME NEW r \in Trades PROVE r = Trade(Rank(r))
  BY <1>3, <1>8
<1> QED
  BY <1>2, <1>3, <1>8, <1>9

\* Trade(n) is the n-th record replayed.
LEMMA ReplayedInOrder ==
  ASSUME LedgerInv
  PROVE  /\ Cardinality(Effective(ledger)) = Count
         /\ \A r \in Trades :
              Cardinality({q \in Effective(ledger) : Before(q, r)}) = Rank(r) - 1
         /\ \A n \in 1..Count : Nth(Effective(ledger), n) = Trade(n)
<1>1. Count \in Nat /\ Effective(ledger) = Trades
  BY DEF LedgerInv, Trades
<1>2. ASSUME NEW r \in Trades
      PROVE  Cardinality({q \in Effective(ledger) : Before(q, r)}) = Rank(r) - 1
  <2>1. PICK n : n = Cardinality({q \in Trades : Earlier(q, r)})
    OBVIOUS
  <2>2. {q \in Effective(ledger) : Before(q, r)} = {q \in Trades : Earlier(q, r)}
    BY <1>1 DEF Before, Earlier
  <2>3. n \in Nat
    <3>1. {q \in Trades : Earlier(q, r)} \in SUBSET Trades /\ IsFiniteSet(Trades)
      BY TradesAreCounted DEF LedgerInv
    <3> QED
      BY <2>1, <3>1, FS_Subset, FS_CardinalityType
  <2>4. Rank(r) = n + 1
    BY <2>1 DEF Rank
  <2> QED
    BY <2>1, <2>2, <2>3, <2>4
<1>3. ASSUME NEW n \in 1..Count PROVE Nth(Effective(ledger), n) = Trade(n)
  <2>1. Trade(n) \in Trades /\ Rank(Trade(n)) = n
    BY TradeHasRank
  <2>2. ASSUME NEW r \in Trades
        PROVE  Cardinality({q \in Effective(ledger) : Before(q, r)}) = n - 1 <=> r = Trade(n)
    <3>1. Rank(r) \in 1..Count /\ r = Trade(Rank(r))
      BY TradeHasRank
    <3>2. Rank(r) - 1 = n - 1 <=> Rank(r) = n
      BY <1>1, <3>1
    <3> QED
      BY <1>2, <2>1, <3>1, <3>2
  <2>3. Nth(Effective(ledger), n) = CHOOSE r \in Trades : r = Trade(n)
    BY <1>1, <2>2 DEF Nth
  <2> QED
    BY <2>1, <2>3
<1> QED
  BY <1>1, <1>2, <1>3 DEF Count, Trades

-----------------------------------------------------------------------------
(* Replaying and summing, one trade at a time.                             *)

LEMMA HistoryStep ==
  ASSUME LedgerInv, NEW c
  PROVE  /\ Positions(ledger, c) = History(ledger, c)[Count]
         /\ History(ledger, c)[0] = NoPositions
         /\ \A n \in 1..Count :
              History(ledger, c)[n] = PositionsAfter(Trade(n), History(ledger, c)[n - 1], c)
<1> DEFINE E == Effective(ledger)
           Is(h, m) == h = [n \in 0..m |-> IF n = 0 THEN NoPositions
                                          ELSE PositionsAfter(Nth(E, n), h[n - 1], c)]
           Bad == {m \in Nat : ~\E h : Is(h, m)}
<1>1. Cardinality(E) = Count /\ Count \in Nat
  BY ReplayedInOrder DEF LedgerInv
<1>2. Bad = {}
  <2>1. SUFFICES ASSUME Bad # {} PROVE FALSE
    OBVIOUS
  <2>2. PICK m \in Bad : \A l \in Bad : m <= l
    <3>1. Bad \in SUBSET Nat
      OBVIOUS
    <3> HIDE DEF Bad
    <3> QED
      BY <2>1, <3>1, LeastNatural
  <2>3. CASE m = 0
    <3>1. Is([n \in 0..0 |-> NoPositions], 0)
      OBVIOUS
    <3> QED
      BY <2>2, <2>3, <3>1
  <2>4. CASE m # 0
    <3>1. m \in Nat /\ m - 1 \in Nat /\ m - 1 \notin Bad
      <4>1. m \in Nat
        BY <2>2
      <4> HIDE DEF Bad
      <4> QED
        BY <2>2, <2>4, <4>1
    <3>2. PICK g : Is(g, m - 1)
      BY <3>1
    <3> DEFINE h == [n \in 0..m |-> IF n = m THEN PositionsAfter(Nth(E, m), g[m - 1], c)
                                    ELSE g[n]]
    <3>3. Is(h, m)
      <4> HIDE DEF E
      <4> QED
        BY <2>4, <3>1, <3>2
    <3> QED
      BY <2>2, <3>3
  <2> QED
    BY <2>3, <2>4
<1>3. History(ledger, c) = CHOOSE h : Is(h, Count)
  BY <1>1 DEF History
<1>4. Is(History(ledger, c), Count)
  <2>1. \E h : Is(h, Count)
    BY <1>1, <1>2
  <2> HIDE DEF Is
  <2> QED
    BY <1>3, <2>1
<1>5. Positions(ledger, c) = History(ledger, c)[Count]
  BY <1>1 DEF Positions
<1>6. \A n \in 1..Count : Nth(E, n) = Trade(n)
  BY ReplayedInOrder
<1> HIDE DEF E
<1>7. /\ History(ledger, c)[0] = NoPositions
      /\ \A n \in 1..Count :
           History(ledger, c)[n] = PositionsAfter(Nth(E, n), History(ledger, c)[n - 1], c)
  BY <1>1, <1>4
<1> QED
  BY <1>5, <1>6, <1>7

LEMMA SumStep ==
  ASSUME LedgerInv, NEW k
  PROVE  /\ Sum(k, 0) = 0
         /\ \A n \in 1..Count : Sum(k, n) = Sum(k, n - 1) + Gain(k, n)
<1> DEFINE Is(s, m) == s = [n \in 0..m |-> IF n = 0 THEN 0 ELSE s[n - 1] + Gain(k, n)]
           Bad == {m \in Nat : ~\E s : Is(s, m)}
<1>1. Count \in Nat
  BY DEF LedgerInv
<1>2. Bad = {}
  <2>1. SUFFICES ASSUME Bad # {} PROVE FALSE
    OBVIOUS
  <2>2. PICK m \in Bad : \A l \in Bad : m <= l
    <3>1. Bad \in SUBSET Nat
      OBVIOUS
    <3> HIDE DEF Bad
    <3> QED
      BY <2>1, <3>1, LeastNatural
  <2>3. CASE m = 0
    <3>1. Is([n \in 0..0 |-> 0], 0)
      OBVIOUS
    <3> QED
      BY <2>2, <2>3, <3>1
  <2>4. CASE m # 0
    <3>1. m \in Nat /\ m - 1 \in Nat /\ m - 1 \notin Bad
      <4>1. m \in Nat
        BY <2>2
      <4> HIDE DEF Bad
      <4> QED
        BY <2>2, <2>4, <4>1
    <3>2. PICK g : Is(g, m - 1)
      BY <3>1
    <3> DEFINE s == [n \in 0..m |-> IF n = m THEN g[m - 1] + Gain(k, m) ELSE g[n]]
    <3>3. Is(s, m)
      BY <2>4, <3>1, <3>2
    <3> QED
      BY <2>2, <3>3
  <2> QED
    BY <2>3, <2>4
<1>3. Sums(k) = CHOOSE s : Is(s, Count)
  BY DEF Sums
<1>4. Is(Sums(k), Count)
  <2>1. \E s : Is(s, Count)
    BY <1>1, <1>2
  <2> HIDE DEF Is
  <2> QED
    BY <1>3, <2>1
<1> QED
  BY <1>1, <1>4 DEF Sum

\* What is proved of the ledgers of a provider.
ProviderInv ==
  /\ LedgerInv /\ Provider

LEMMA ProvidersTrade ==
  ASSUME ProviderInv, NEW n \in 1..Count
  PROVE  /\ Trade(n).key \in Keys /\ Trade(n).key[2] \in Directed
         /\ Trade(n).operation \in {"INCREASE", "DECREASE"}
         /\ Trade(n).quantity \in Nat /\ Trade(n).quantity # 0
<1>1. Recorded(Trade(n))
  BY TradeHasRank DEF ProviderInv
<1>2. Trade(n).quantity \in (Nat \ {0}) \cup {NoQuantity} /\ Trade(n).quantity # NoQuantity
  BY <1>1 DEF ProviderInv, LedgerInv, FamilyInv, Recorded, Provider
<1> QED
  BY <1>1, <1>2 DEF ProviderInv, LedgerInv, FamilyInv, Recorded, Provider

LEMMA GainIsInteger ==
  ASSUME ProviderInv, NEW k, NEW n \in 1..Count
  PROVE  Gain(k, n) \in Int
BY ProvidersTrade DEF Gain, Delta

LEMMA SumIsInteger ==
  ASSUME ProviderInv, NEW k
  PROVE  \A n \in 0..Count : Sum(k, n) \in Int
<1> DEFINE Bad == {n \in 0..Count : Sum(k, n) \notin Int}
<1>1. SUFFICES ASSUME Bad # {} PROVE FALSE
  OBVIOUS
<1>2. LedgerInv /\ Count \in Nat
  BY DEF ProviderInv, LedgerInv
<1>3. PICK n \in Bad : \A m \in Bad : n <= m
  <2>1. Bad \in SUBSET Nat
    BY <1>2
  <2> HIDE DEF Bad
  <2> QED
    BY <1>1, <2>1, LeastNatural
<1>4. n # 0
  BY <1>2, <1>3, SumStep
<1>5. PICK m : m = n - 1
  OBVIOUS
<1>6. m \in 0..Count /\ n \in 1..Count /\ ~(n <= m)
  BY <1>2, <1>3, <1>4, <1>5
<1>7. Sum(k, m) \in Int
  <2>1. m \notin Bad
    <3> HIDE DEF Bad
    <3> QED
      BY <1>3, <1>6
  <2> QED
    BY <1>6, <2>1
<1>8. Sum(k, n) = Sum(k, m) + Gain(k, n)
  BY <1>2, <1>5, <1>6, SumStep
<1> QED
  BY <1>3, <1>6, <1>7, <1>8, GainIsInteger

\* A finite part of a sequence of integers has a least member.
LEMMA LeastOfPrefix ==
  ASSUME NEW N \in Nat, NEW s, \A n \in 0..N : s[n] \in Int
  PROVE  \A n \in 0..N : \E m \in 0..n : \A l \in 0..n : s[m] <= s[l]
<1> DEFINE Good(n) == \E m \in 0..n : \A l \in 0..n : s[m] <= s[l]
           Bad == {n \in 0..N : ~Good(n)}
<1>1. SUFFICES ASSUME Bad # {} PROVE FALSE
  OBVIOUS
<1>2. PICK n \in Bad : \A m \in Bad : n <= m
  <2>1. Bad \in SUBSET Nat
    OBVIOUS
  <2> HIDE DEF Bad
  <2> QED
    BY <1>1, <2>1, LeastNatural
<1>3. CASE n = 0
  <2>1. Good(0)
    <3>1. 0 \in 0..0 /\ \A l \in 0..0 : s[0] <= s[l]
      OBVIOUS
    <3> QED
      BY <3>1
  <2> QED
    BY <1>2, <1>3, <2>1
<1>4. CASE n # 0
  <2>1. PICK p : p = n - 1
    OBVIOUS
  <2>2. p \in 0..N /\ n \in 1..N /\ ~(n <= p) /\ n = p + 1
    BY <1>2, <1>4, <2>1
  <2>3. Good(p)
    <3>1. p \notin Bad
      <4> HIDE DEF Bad
      <4> QED
        BY <1>2, <2>2
    <3> QED
      BY <2>2, <3>1
  <2>4. PICK m \in 0..p : \A l \in 0..p : s[m] <= s[l]
    BY <2>3
  <2>5. \A l \in 0..n : l \in 0..p \/ l = n
    BY <2>2
  <2>6. m \in 0..n /\ m \in 0..N /\ n \in 0..n /\ \A l \in 0..n : l \in 0..N
    BY <2>2, <2>4
  <2>7. CASE s[m] <= s[n]
    <3>1. \A l \in 0..n : s[m] <= s[l]
      BY <2>4, <2>5, <2>7
    <3> QED
      BY <1>2, <2>6, <3>1
  <2>8. CASE ~(s[m] <= s[n])
    <3>1. ASSUME NEW l \in 0..n PROVE s[n] <= s[l]
      <4>1. s[l] \in Int /\ s[n] \in Int /\ s[m] \in Int
        BY <2>6
      <4>2. l = n \/ s[m] <= s[l]
        BY <2>4, <2>5
      <4> QED
        BY <2>8, <4>1, <4>2
    <3> QED
      BY <1>2, <2>6, <3>1
  <2> QED
    BY <2>7, <2>8
<1> QED
  BY <1>3, <1>4

\* Lowest is the lowest sum so far: it is reached, and no sum is lower.
LEMMA LowestIsReached ==
  ASSUME ProviderInv, NEW k, NEW n \in 0..Count
  PROVE  /\ \E m \in 0..n : Lowest(k, n) = Sum(k, m)
         /\ \A m \in 0..n : Lowest(k, n) <= Sum(k, m)
<1> DEFINE S == {Sum(k, m) : m \in 0..n}
<1>1. Count \in Nat
  BY DEF ProviderInv, LedgerInv
<1>2. \A m \in 0..Count : Sums(k)[m] \in Int
  BY SumIsInteger DEF Sum
<1>3. PICK m \in 0..n : \A l \in 0..n : Sum(k, m) <= Sum(k, l)
  <2>1. PICK s : s = Sums(k)
    OBVIOUS
  <2>2. \E m \in 0..n : \A l \in 0..n : s[m] <= s[l]
    BY <1>1, <1>2, <2>1, LeastOfPrefix
  <2> QED
    BY <2>1, <2>2 DEF Sum
<1>4. Lowest(k, n) = Least(S)
  BY DEF Lowest, Sum
<1>5. \E x \in S : \A y \in S : x <= y
  BY <1>3
<1>6. Least(S) \in S /\ \A y \in S : Least(S) <= y
  <2> HIDE DEF S
  <2> QED
    BY <1>5 DEF Least
<1> QED
  BY <1>4, <1>6

LEMMA LowestStep ==
  ASSUME ProviderInv, NEW k
  PROVE  /\ Lowest(k, 0) = 0
         /\ \A n \in 0..Count : Lowest(k, n) \in Int /\ Lowest(k, n) <= Sum(k, n)
         /\ \A n \in 0..Count : Lowest(k, n) <= 0
         /\ \A n \in 1..Count :
              Lowest(k, n) = IF Sum(k, n) < Lowest(k, n - 1)
                             THEN Sum(k, n) ELSE Lowest(k, n - 1)
<1>1. Count \in Nat /\ Sum(k, 0) = 0
  BY SumStep DEF ProviderInv, LedgerInv
<1>2. ASSUME NEW n \in 0..Count
      PROVE  Lowest(k, n) \in Int /\ Lowest(k, n) <= Sum(k, n) /\ Lowest(k, n) <= 0
  <2>1. PICK m \in 0..n : Lowest(k, n) = Sum(k, m)
    BY LowestIsReached
  <2>2. m \in 0..Count /\ n \in 0..n /\ 0 \in 0..n
    BY <1>1
  <2> QED
    BY <1>1, <2>1, <2>2, SumIsInteger, LowestIsReached
<1>3. Lowest(k, 0) = 0
  <2>1. 0 \in 0..Count
    BY <1>1
  <2>2. PICK m \in 0..0 : Lowest(k, 0) = Sum(k, m)
    BY <2>1, LowestIsReached
  <2> QED
    BY <1>1, <2>2
<1>4. ASSUME NEW n \in 1..Count
      PROVE  Lowest(k, n) = IF Sum(k, n) < Lowest(k, n - 1)
                            THEN Sum(k, n) ELSE Lowest(k, n - 1)
  <2>1. PICK p : p = n - 1
    OBVIOUS
  <2>2. /\ p \in 0..Count /\ n \in 0..Count /\ n \in 0..n
        /\ \A m \in 0..n : m \in 0..p \/ m = n
        /\ \A m \in 0..p : m \in 0..n
    BY <1>1, <2>1
  <2>3. PICK a \in 0..n : Lowest(k, n) = Sum(k, a)
    BY <2>2, LowestIsReached
  <2>4. PICK b \in 0..p : Lowest(k, p) = Sum(k, b)
    BY <2>2, LowestIsReached
  <2>5. Lowest(k, n) <= Sum(k, b) /\ Lowest(k, n) <= Sum(k, n)
    BY <2>2, <2>4, LowestIsReached
  <2>6. a = n \/ Lowest(k, p) <= Sum(k, a)
    BY <2>2, <2>3, LowestIsReached
  <2>7. Lowest(k, n) \in Int /\ Lowest(k, p) \in Int /\ Sum(k, n) \in Int
    BY <1>2, <2>2, SumIsInteger
  <2> QED
    BY <2>1, <2>3, <2>4, <2>5, <2>6, <2>7
<1> QED
  BY <1>2, <1>3, <1>4

-----------------------------------------------------------------------------
(* One record of a provider.                                               *)

Complete == TRUE
Incomplete == FALSE

\* The estimate of a position of which q is held, or was never heard of.
Tells(e, k, q, c) ==
  IF q = 0 THEN e \in {Missing, Flat(c)}
  ELSE /\ e.status = "ACTIVE" /\ e.side = k[2] /\ e.quantity = q
       /\ e.confidence = Confidence(q, c)

LEMMA ActiveTells ==
  ASSUME NEW k, k[2] \in Directed, NEW q \in Nat, q # 0, NEW price, NEW c,
         NEW e, e = Active(k, q, price, c)
  PROVE  Tells(e, k, q, c) /\ e # Missing
<1>1. e = [side |-> k[2], quantity |-> q, entry |-> price,
           confidence |-> Confidence(q, c), status |-> "ACTIVE"]
  BY DEF Active
<1>2. e.status = "ACTIVE" /\ Missing.status = "MISSING"
  BY <1>1 DEF Missing
<1>3. e # Missing
  BY <1>2
<1> QED
  BY <1>1, <1>2, <1>3 DEF Tells

LEMMA FlatIsNotMissing ==
  ASSUME NEW c
  PROVE  Flat(c) # Missing /\ Flat(c).status = "FLAT" /\ Flat(c).quantity = 0
<1>1. Flat(c).status = "FLAT" /\ Flat(c).quantity = 0 /\ Missing.status = "MISSING"
  BY DEF Flat, Missing
<1> QED
  BY <1>1

LEMMA RaisingTells ==
  ASSUME NEW k, k[2] \in Directed, NEW x \in Nat, x # 0, NEW c,
         NEW r, r.key = k, r.quantity = x, r.operation = "INCREASE",
         NEW q \in Nat, NEW e, Tells(e, k, q, c),
         NEW after, after = Increased(r, e, c)
  PROVE  /\ after.action = IF q = 0 THEN "OPEN" ELSE "ADD"
         /\ Tells(after.position, k, q + x, c) /\ after.position # Missing
<1>1. q + x # 0 /\ q + x \in Nat
  OBVIOUS
<1>2. CASE q = 0
  <2>1. e = Missing \/ (e # Missing /\ e.status = "FLAT")
    BY <1>2, FlatIsNotMissing DEF Tells
  <2>2. after = Outcome("OPEN", Active(k, x, r.price, c))
    <3>1. ~(r.operation = "ADD")
      OBVIOUS
    <3>2. CASE e = Missing
      <4>1. e.status = "MISSING"
        BY <3>2 DEF Missing
      <4> QED
        BY <3>1, <3>2, <4>1 DEF Increased
    <3>3. CASE e # Missing /\ e.status = "FLAT"
      BY <3>1, <3>3 DEF Increased
    <3> QED
      BY <2>1, <3>2, <3>3
  <2>3. after.action = "OPEN" /\ after.position = Active(k, x, r.price, c)
    BY <2>2 DEF Outcome
  <2>4. q + x = x
    BY <1>2
  <2> QED
    BY <1>1, <1>2, <2>3, <2>4, ActiveTells
<1>3. CASE q # 0
  <2>1. e.status = "ACTIVE" /\ e.side = k[2] /\ e.quantity = q
    BY <1>3 DEF Tells
  <2>2. e # Missing
    <3>1. Missing.status = "MISSING"
      BY DEF Missing
    <3> QED
      BY <2>1, <3>1
  <2>3. ~(NoQuantity \in {e.quantity, r.quantity})
    BY <2>1 DEF NoQuantity
  <2>4. PICK price : price = WeightedEntry(e, r)
    OBVIOUS
  <2>5. after = Outcome("ADD", Active(k, q + x, price, c))
    BY <2>1, <2>2, <2>3, <2>4 DEF Increased
  <2>6. after.action = "ADD" /\ after.position = Active(k, q + x, price, c)
    BY <2>5 DEF Outcome
  <2>7. PICK s \in Nat : s = q + x
    BY <1>1
  <2>8. Tells(after.position, k, s, c) /\ after.position # Missing
    BY <1>1, <2>6, <2>7, ActiveTells
  <2> QED
    BY <1>3, <2>6, <2>7, <2>8
<1> QED
  BY <1>2, <1>3

LEMMA LoweringTells ==
  ASSUME NEW k, k[2] \in Directed, NEW x \in Nat, x # 0, NEW c,
         NEW r, r.key = k, r.quantity = x, r.operation = "DECREASE",
         NEW q \in Nat, x <= q, NEW e, Tells(e, k, q, c),
         NEW after, after = Decreased(r, e, c)
  PROVE  /\ after.action = IF q = x THEN "CLOSE" ELSE "REDUCE"
         /\ Tells(after.position, k, q - x, c) /\ after.position # Missing
<1>1. e.status = "ACTIVE" /\ e.quantity = q
  BY DEF Tells
<1>2. ~(NoQuantity \in {e.quantity, r.quantity}) /\ ~(x > q)
  BY <1>1 DEF NoQuantity
<1>3. CASE x = q
  <2>1. after = Outcome("CLOSE", Flat(c))
    BY <1>1, <1>2, <1>3 DEF Decreased
  <2>2. after.action = "CLOSE" /\ after.position = Flat(c)
    BY <2>1 DEF Outcome
  <2> QED
    BY <1>3, <2>2, FlatIsNotMissing DEF Tells
<1>4. CASE x # q
  <2>1. after = Outcome("REDUCE", Active(k, q - x, e.entry, c))
    BY <1>1, <1>2, <1>4 DEF Decreased
  <2>2. after.action = "REDUCE" /\ after.position = Active(k, q - x, e.entry, c)
    BY <2>1 DEF Outcome
  <2>3. PICK d \in Nat : d = q - x /\ d # 0
    BY <1>4
  <2>4. Tells(after.position, k, d, c) /\ after.position # Missing
    BY <2>2, <2>3, ActiveTells
  <2> QED
    BY <1>4, <2>2, <2>3, <2>4
<1> QED
  BY <1>3, <1>4

\* A reduction by more than is held.
LEMMA ExcessIs ==
  ASSUME NEW k, NEW x \in Nat, NEW c, NEW r, r.quantity = x,
         NEW q \in Nat, q < x, NEW e, Tells(e, k, q, c),
         NEW after, after = Decreased(r, e, c)
  PROVE  after = IF c THEN Outcome("CLOSE", Flat(c)) ELSE Outcome("REDUCE", Unknown)
<1>1. CASE q = 0
  <2>1. e.status # "ACTIVE"
    <3>1. Missing.status = "MISSING"
      BY DEF Missing
    <3> QED
      BY <1>1, <3>1, FlatIsNotMissing DEF Tells
  <2> QED
    BY <2>1 DEF Decreased
<1>2. CASE q # 0
  <2>1. e.status = "ACTIVE" /\ e.quantity = q
    BY <1>2 DEF Tells
  <2>2. ~(NoQuantity \in {e.quantity, r.quantity}) /\ x > q
    BY <2>1 DEF NoQuantity
  <2> QED
    BY <2>1, <2>2 DEF Decreased
<1> QED
  BY <1>1, <1>2

\* What a record does to a position of which q is held, from a complete history.
LEMMA CompleteRecord ==
  ASSUME NEW k, k[2] \in Directed, NEW x \in Nat, x # 0,
         NEW r, r.key = k, r.quantity = x, r.operation \in {"INCREASE", "DECREASE"},
         NEW q \in Nat, NEW e, Tells(e, k, q, Complete),
         NEW after, after = IF r.operation = "INCREASE" THEN Increased(r, e, Complete)
                            ELSE Decreased(r, e, Complete),
         NEW s, s = IF r.operation = "INCREASE" THEN q + x
                    ELSE IF q <= x THEN 0 ELSE q - x
  PROVE  /\ after.action = IF r.operation = "INCREASE" THEN IF q = 0 THEN "OPEN" ELSE "ADD"
                           ELSE IF s = 0 THEN "CLOSE" ELSE "REDUCE"
         /\ Tells(after.position, k, s, Complete) /\ after.position # Missing
<1>1. CASE r.operation = "INCREASE"
  BY <1>1, RaisingTells
<1>2. CASE r.operation = "DECREASE" /\ x <= q
  <2>1. /\ after.action = IF q = x THEN "CLOSE" ELSE "REDUCE"
        /\ Tells(after.position, k, q - x, Complete) /\ after.position # Missing
    BY <1>2, LoweringTells
  <2>2. s = q - x /\ (s = 0 <=> q = x)
    BY <1>2
  <2> QED
    BY <1>2, <2>1, <2>2
<1>3. CASE r.operation = "DECREASE" /\ q < x
  <2>1. after = Decreased(r, e, Complete)
    BY <1>3
  <2>2. after = IF Complete THEN Outcome("CLOSE", Flat(Complete))
                ELSE Outcome("REDUCE", Unknown)
    BY <1>3, <2>1, ExcessIs
  <2>3. after = Outcome("CLOSE", Flat(Complete))
    BY <2>2, Zenon DEF Complete
  <2>4. after.action = "CLOSE" /\ after.position = Flat(Complete)
    BY <2>3 DEF Outcome
  <2>5. s = 0
    BY <1>3
  <2> QED
    BY <1>3, <2>4, <2>5, FlatIsNotMissing DEF Tells
<1> QED
  BY <1>1, <1>2, <1>3

\* The same of an incomplete history: less than nothing is not known.
LEMMA IncompleteRecord ==
  ASSUME NEW k, k[2] \in Directed, NEW x \in Nat, x # 0,
         NEW r, r.key = k, r.quantity = x, r.operation \in {"INCREASE", "DECREASE"},
         NEW q \in Nat, NEW e, Tells(e, k, q, Incomplete),
         NEW after, after = IF r.operation = "INCREASE" THEN Increased(r, e, Incomplete)
                            ELSE Decreased(r, e, Incomplete),
         NEW s, s = IF r.operation = "INCREASE" THEN q + x ELSE q - x
  PROVE  /\ IF s < 0 THEN after.position = Unknown
            ELSE Tells(after.position, k, s, Incomplete)
         /\ after.position # Missing
<1>1. CASE r.operation = "INCREASE"
  <2>1. ~(s < 0)
    BY <1>1
  <2> QED
    BY <1>1, <2>1, RaisingTells
<1>2. CASE r.operation = "DECREASE" /\ x <= q
  <2>1. Tells(after.position, k, q - x, Incomplete) /\ after.position # Missing
    BY <1>2, LoweringTells
  <2>2. s = q - x /\ ~(s < 0)
    BY <1>2
  <2> QED
    BY <2>1, <2>2
<1>3. CASE r.operation = "DECREASE" /\ q < x
  <2>1. after = Decreased(r, e, Incomplete)
    BY <1>3
  <2>2. after = IF Incomplete THEN Outcome("CLOSE", Flat(Incomplete))
                ELSE Outcome("REDUCE", Unknown)
    BY <1>3, <2>1, ExcessIs
  <2>3. after = Outcome("REDUCE", Unknown)
    BY <2>2, Zenon DEF Incomplete
  <2>4. after.position = Unknown
    BY <2>3 DEF Outcome
  <2>5. Unknown # Missing
    <3>1. Unknown.status = "UNKNOWN" /\ Missing.status = "MISSING"
      BY DEF Unknown, Missing
    <3> QED
      BY <3>1
  <2>6. s < 0
    BY <1>3
  <2> QED
    BY <2>4, <2>5, <2>6
<1> QED
  BY <1>1, <1>2, <1>3

\* What is unknown stays so.
LEMMA UnknownStays ==
  ASSUME NEW r, r.operation \in {"INCREASE", "DECREASE"},
         NEW after, after = IF r.operation = "INCREASE"
                            THEN Increased(r, Unknown, Incomplete)
                            ELSE Decreased(r, Unknown, Incomplete)
  PROVE  after.position = Unknown /\ after.position # Missing
<1>1. Unknown.status = "UNKNOWN" /\ Missing.status = "MISSING"
  BY DEF Unknown, Missing
<1>2. Unknown # Missing
  BY <1>1
<1>3. CASE r.operation = "INCREASE"
  <2>1. after = Outcome("ADD", Unknown)
    BY <1>1, <1>2, <1>3 DEF Increased
  <2> QED
    BY <1>2, <2>1 DEF Outcome
<1>4. CASE r.operation = "DECREASE"
  <2>1. ~Incomplete
    BY DEF Incomplete
  <2>2. after = Outcome("REDUCE", Unknown)
    BY <1>1, <1>4, <2>1 DEF Decreased
  <2> QED
    BY <1>2, <2>2 DEF Outcome
<1> QED
  BY <1>3, <1>4

-----------------------------------------------------------------------------
(* The ledger of a provider, trade by trade.                               *)

LEMMA OtherTradesLeaveNet ==
  ASSUME ProviderInv, NEW k, NEW n \in 1..Count, Trade(n).key # k
  PROVE  Sum(k, n) = Sum(k, n - 1) /\ Lowest(k, n) = Lowest(k, n - 1)
<1>1. PICK p : p = n - 1
  OBVIOUS
<1>2. p \in 0..Count /\ Count \in Nat /\ n \in 0..Count
  BY <1>1 DEF ProviderInv, LedgerInv
<1>3. Gain(k, n) = 0
  BY DEF Gain
<1>4. Sum(k, n) = Sum(k, p) + 0 /\ Sum(k, p) \in Int
  BY <1>1, <1>2, <1>3, SumStep, SumIsInteger DEF ProviderInv
<1>5. Lowest(k, p) \in Int /\ Lowest(k, p) <= Sum(k, p)
  BY <1>2, LowestStep
<1>6. Lowest(k, n) = IF Sum(k, n) < Lowest(k, p) THEN Sum(k, n) ELSE Lowest(k, p)
  BY <1>1, LowestStep
<1> QED
  BY <1>1, <1>4, <1>5, <1>6

LEMMA NetStep ==
  ASSUME ProviderInv, NEW k
  PROVE  /\ Net(k, 0) = 0
         /\ \A n \in 0..Count : Net(k, n) \in Nat
         /\ \A n \in 1..Count :
              LET r == Trade(n)  q == Net(k, n - 1)  x == r.quantity
              IN  r.key = k =>
                    Net(k, n) = IF r.operation = "INCREASE" THEN q + x
                                ELSE IF q <= x THEN 0 ELSE q - x
<1>1. Net(k, 0) = 0
  BY SumStep, LowestStep DEF Net, ProviderInv
<1>2. ASSUME NEW n \in 0..Count PROVE Net(k, n) \in Nat
  <2>1. Sum(k, n) \in Int /\ Lowest(k, n) \in Int /\ Lowest(k, n) <= Sum(k, n)
    BY SumIsInteger, LowestStep
  <2> QED
    BY <2>1 DEF Net
<1>3. ASSUME NEW n \in 1..Count, NEW r, r = Trade(n), r.key = k,
             NEW q, q = Net(k, n - 1), NEW x, x = r.quantity
      PROVE  Net(k, n) = IF r.operation = "INCREASE" THEN q + x
                         ELSE IF q <= x THEN 0 ELSE q - x
  <2>1. PICK p : p = n - 1
    OBVIOUS
  <2>2. p \in 0..Count /\ Count \in Nat /\ n \in 0..Count
    BY <2>1 DEF ProviderInv, LedgerInv
  <2>3. PICK s, l, t, m : s = Sum(k, p) /\ l = Lowest(k, p) /\ t = Sum(k, n) /\ m = Lowest(k, n)
    OBVIOUS
  <2>4. s \in Int /\ l \in Int /\ l <= s /\ q = s - l
    BY <1>3, <2>1, <2>2, <2>3, SumIsInteger, LowestStep DEF Net
  <2>5. r.operation \in {"INCREASE", "DECREASE"} /\ x \in Nat /\ x # 0
    BY <1>3, ProvidersTrade
  <2>6. t = s + IF r.operation = "INCREASE" THEN x ELSE -x
    <3>1. Gain(k, n) = IF r.operation = "INCREASE" THEN x ELSE -x
      BY <1>3 DEF Gain, Delta
    <3>2. t = s + Gain(k, n)
      BY <2>1, <2>3, SumStep DEF ProviderInv
    <3> QED
      BY <3>1, <3>2
  <2>7. m = IF t < l THEN t ELSE l
    BY <2>1, <2>3, LowestStep
  <2>8. Net(k, n) = t - m
    BY <2>3 DEF Net
  <2>9. CASE r.operation = "INCREASE"
    BY <2>4, <2>5, <2>6, <2>7, <2>8, <2>9
  <2>10. CASE r.operation = "DECREASE"
    <3>1. t = s - x
      BY <2>4, <2>5, <2>6, <2>10
    <3> QED
      BY <2>4, <2>5, <2>7, <2>8, <2>10, <3>1
  <2> QED
    BY <2>5, <2>9, <2>10
<1> QED
  BY <1>1, <1>2, <1>3

LEMMA ProviderAfter ==
  ASSUME ProviderInv, NEW n \in 1..Count, NEW P, NEW c, NEW r, r = Trade(n),
         NEW outcome, outcome = IF r.operation = "INCREASE" THEN Increased(r, P[r.key], c)
                                ELSE Decreased(r, P[r.key], c)
  PROVE  /\ ApplyRecord(r, P, c) = outcome
         /\ PositionsAfter(r, P, c)[r.key] = outcome.position
         /\ \A k \in Keys : k # r.key => PositionsAfter(r, P, c)[k] = P[k]
<1>1. r.operation \in {"INCREASE", "DECREASE"} /\ r.key \in Keys
  BY ProvidersTrade
<1>2. ApplyRecord(r, P, c) = outcome
  <2>1. CASE r.operation = "INCREASE"
    BY <2>1 DEF ApplyRecord
  <2>2. CASE r.operation = "DECREASE"
    BY <2>2 DEF ApplyRecord
  <2> QED
    BY <1>1, <2>1, <2>2
<1>3. r.operation # "REVERSE"
  BY <1>1
<1> QED
  BY <1>1, <1>2, <1>3 DEF PositionsAfter

\* Of a complete history: the position after n trades is the net of them.
TellsNet(k, n) ==
  LET e == History(ledger, Complete)[n][k]
  IN  /\ Tells(e, k, Net(k, n), Complete)
      /\ e = Missing <=> \A m \in 1..n : Trade(m).key # k

LEMMA CompleteReplay ==
  ASSUME ProviderInv, NEW k \in Keys, k[2] \in Directed
  PROVE  \A n \in 0..Count : TellsNet(k, n)
<1> DEFINE Bad == {n \in 0..Count : ~TellsNet(k, n)}
<1>1. SUFFICES ASSUME Bad # {} PROVE FALSE
  OBVIOUS
<1>2. LedgerInv /\ Count \in Nat
  BY DEF ProviderInv, LedgerInv
<1>3. PICK n \in Bad : \A m \in Bad : n <= m
  <2>1. Bad \in SUBSET Nat
    BY <1>2
  <2> HIDE DEF Bad
  <2> QED
    BY <1>1, <2>1, LeastNatural
<1>4. CASE n = 0
  <2>1. History(ledger, Complete)[0][k] = Missing
    BY <1>2, HistoryStep DEF NoPositions
  <2>2. Net(k, 0) = 0
    BY NetStep
  <2>3. \A m \in 1..0 : Trade(m).key # k
    OBVIOUS
  <2>4. TellsNet(k, 0)
    BY <2>1, <2>2, <2>3 DEF TellsNet, Tells
  <2> QED
    BY <1>3, <1>4, <2>4
<1>5. CASE n # 0
  <2>1. PICK p : p = n - 1
    OBVIOUS
  <2>2. /\ p \in 0..Count /\ n \in 1..Count /\ ~(n <= p)
        /\ \A m \in 1..n : m \in 1..p \/ m = n
        /\ \A m \in 1..p : m \in 1..n
        /\ n \in 1..n
    BY <1>2, <1>3, <1>5, <2>1
  <2>3. TellsNet(k, p)
    <3>1. p \notin Bad
      <4> HIDE DEF Bad
      <4> QED
        BY <1>3, <2>2
    <3> QED
      BY <2>2, <3>1
  <2>4. PICK P, r : P = History(ledger, Complete)[p] /\ r = Trade(n)
    OBVIOUS
  <2>5. PICK Q : Q = History(ledger, Complete)[n]
    OBVIOUS
  <2>6. Q = PositionsAfter(r, P, Complete)
    BY <1>2, <2>1, <2>2, <2>4, <2>5, HistoryStep
  <2>7. PICK q \in Nat : q = Net(k, p)
    BY <2>2, NetStep
  <2>8. Tells(P[k], k, q, Complete) /\ (P[k] = Missing <=> \A m \in 1..p : Trade(m).key # k)
    BY <2>3, <2>4, <2>7 DEF TellsNet
  <2>9. CASE r.key = k
    <3>1. PICK x : x = r.quantity
      OBVIOUS
    <3>2. r.operation \in {"INCREASE", "DECREASE"} /\ x \in Nat /\ x # 0
      BY <2>2, <2>4, <3>1, ProvidersTrade
    <3>3. PICK s : s = IF r.operation = "INCREASE" THEN q + x
                       ELSE IF q <= x THEN 0 ELSE q - x
      OBVIOUS
    <3>4. Net(k, n) = s
      BY <2>1, <2>2, <2>4, <2>7, <2>9, <3>1, <3>3, NetStep
    <3>5. PICK after : after = IF r.operation = "INCREASE" THEN Increased(r, P[k], Complete)
                               ELSE Decreased(r, P[k], Complete)
      OBVIOUS
    <3>6. Q[k] = after.position
      BY <2>2, <2>4, <2>6, <2>9, <3>5, ProviderAfter
    <3>7. Tells(after.position, k, s, Complete) /\ after.position # Missing
      <4>1. PICK e : e = P[k]
        OBVIOUS
      <4> QED
        BY <2>8, <2>9, <3>1, <3>2, <3>3, <3>5, <4>1, CompleteRecord
    <3>8. TellsNet(k, n)
      BY <2>2, <2>4, <2>5, <2>9, <3>4, <3>6, <3>7 DEF TellsNet
    <3> QED
      BY <1>3, <3>8
  <2>10. CASE r.key # k
    <3>1. Q[k] = P[k]
      BY <2>2, <2>4, <2>6, <2>10, ProviderAfter
    <3>2. Net(k, n) = q
      BY <2>1, <2>2, <2>4, <2>7, <2>10, OtherTradesLeaveNet DEF Net
    <3>3. (\A m \in 1..n : Trade(m).key # k) <=> (\A m \in 1..p : Trade(m).key # k)
      BY <2>2, <2>4, <2>10
    <3>4. TellsNet(k, n)
      BY <2>5, <2>8, <3>1, <3>2, <3>3 DEF TellsNet
    <3> QED
      BY <1>3, <3>4
  <2> QED
    BY <2>9, <2>10
<1> QED
  BY <1>4, <1>5

\* Of an incomplete history: the position is the sum until that was negative.
TellsSum(k, n) ==
  LET e == History(ledger, Incomplete)[n][k]
  IN  /\ IF Lowest(k, n) < 0 THEN e = Unknown ELSE Tells(e, k, Sum(k, n), Incomplete)
      /\ e = Missing <=> \A m \in 1..n : Trade(m).key # k

LEMMA SumAfterTrade ==
  ASSUME ProviderInv, NEW k, NEW n \in 1..Count, NEW r, r = Trade(n), r.key = k,
         NEW p, p = n - 1
  PROVE  LET s == Sum(k, p)  t == Sum(k, n)
         IN  /\ s \in Int /\ t \in Int /\ Lowest(k, p) <= 0
             /\ Lowest(k, p) < 0 => Lowest(k, n) < 0
             /\ ~(Lowest(k, p) < 0) => s \in Nat /\ (Lowest(k, n) < 0 <=> t < 0)
             /\ t = IF r.operation = "INCREASE" THEN s + r.quantity ELSE s - r.quantity
<1>1. p \in 0..Count /\ Count \in Nat /\ n \in 0..Count
  BY DEF ProviderInv, LedgerInv
<1>2. PICK s, l, t, m : s = Sum(k, p) /\ l = Lowest(k, p) /\ t = Sum(k, n) /\ m = Lowest(k, n)
  OBVIOUS
<1>3. s \in Int /\ t \in Int /\ l \in Int /\ l <= s /\ l <= 0
  BY <1>1, <1>2, SumIsInteger, LowestStep
<1>4. PICK x \in Nat : x = r.quantity
  BY ProvidersTrade
<1>5. m = IF t < l THEN t ELSE l
  BY <1>1, <1>2, LowestStep
<1>6. t = s + Gain(k, n)
  BY <1>2, SumStep DEF ProviderInv
<1>7. Gain(k, n) = IF r.operation = "INCREASE" THEN x ELSE -x
  BY <1>4 DEF Gain, Delta
<1>8. t = IF r.operation = "INCREASE" THEN s + x ELSE s - x
  BY <1>3, <1>6, <1>7
<1>9. /\ l < 0 => m < 0
      /\ ~(l < 0) => s \in Nat /\ (m < 0 <=> t < 0)
  BY <1>3, <1>5
<1> QED
  BY <1>2, <1>3, <1>4, <1>8, <1>9

LEMMA IncompleteReplay ==
  ASSUME ProviderInv, NEW k \in Keys, k[2] \in Directed
  PROVE  \A n \in 0..Count : TellsSum(k, n)
<1> DEFINE Bad == {n \in 0..Count : ~TellsSum(k, n)}
<1>1. SUFFICES ASSUME Bad # {} PROVE FALSE
  OBVIOUS
<1>2. LedgerInv /\ Count \in Nat
  BY DEF ProviderInv, LedgerInv
<1>3. PICK n \in Bad : \A m \in Bad : n <= m
  <2>1. Bad \in SUBSET Nat
    BY <1>2
  <2> HIDE DEF Bad
  <2> QED
    BY <1>1, <2>1, LeastNatural
<1>4. CASE n = 0
  <2>1. History(ledger, Incomplete)[0][k] = Missing
    BY <1>2, HistoryStep DEF NoPositions
  <2>2. Sum(k, 0) = 0 /\ ~(Lowest(k, 0) < 0)
    BY <1>2, SumStep, LowestStep
  <2>3. \A m \in 1..0 : Trade(m).key # k
    OBVIOUS
  <2>4. TellsSum(k, 0)
    BY <2>1, <2>2, <2>3 DEF TellsSum, Tells
  <2> QED
    BY <1>3, <1>4, <2>4
<1>5. CASE n # 0
  <2>1. PICK p : p = n - 1
    OBVIOUS
  <2>2. /\ p \in 0..Count /\ n \in 1..Count /\ ~(n <= p)
        /\ \A m \in 1..n : m \in 1..p \/ m = n
        /\ \A m \in 1..p : m \in 1..n
        /\ n \in 1..n
    BY <1>2, <1>3, <1>5, <2>1
  <2>3. TellsSum(k, p)
    <3>1. p \notin Bad
      <4> HIDE DEF Bad
      <4> QED
        BY <1>3, <2>2
    <3> QED
      BY <2>2, <3>1
  <2>4. PICK P, r : P = History(ledger, Incomplete)[p] /\ r = Trade(n)
    OBVIOUS
  <2>5. PICK Q : Q = History(ledger, Incomplete)[n]
    OBVIOUS
  <2>6. Q = PositionsAfter(r, P, Incomplete)
    BY <1>2, <2>1, <2>2, <2>4, <2>5, HistoryStep
  <2>7. PICK s, t : s = Sum(k, p) /\ t = Sum(k, n)
    OBVIOUS
  <2>8. /\ IF Lowest(k, p) < 0 THEN P[k] = Unknown ELSE Tells(P[k], k, s, Incomplete)
        /\ P[k] = Missing <=> \A m \in 1..p : Trade(m).key # k
    BY <2>3, <2>4, <2>7 DEF TellsSum
  <2>9. CASE r.key = k
    <3>1. PICK x : x = r.quantity
      OBVIOUS
    <3>2. r.operation \in {"INCREASE", "DECREASE"} /\ x \in Nat /\ x # 0
      BY <2>2, <2>4, <3>1, ProvidersTrade
    <3>3. /\ s \in Int /\ t \in Int /\ Lowest(k, p) <= 0
          /\ Lowest(k, p) < 0 => Lowest(k, n) < 0
          /\ ~(Lowest(k, p) < 0) => s \in Nat /\ (Lowest(k, n) < 0 <=> t < 0)
          /\ t = IF r.operation = "INCREASE" THEN s + x ELSE s - x
      BY <2>1, <2>2, <2>4, <2>7, <2>9, <3>1, SumAfterTrade
    <3>4. PICK e : e = P[k]
      OBVIOUS
    <3>5. PICK after : after = IF r.operation = "INCREASE" THEN Increased(r, e, Incomplete)
                               ELSE Decreased(r, e, Incomplete)
      OBVIOUS
    <3>6. Q[k] = after.position
      BY <2>2, <2>4, <2>6, <2>9, <3>4, <3>5, ProviderAfter
    <3>7. /\ IF Lowest(k, n) < 0 THEN after.position = Unknown
             ELSE Tells(after.position, k, t, Incomplete)
          /\ after.position # Missing
      <4>1. CASE Lowest(k, p) < 0
        <5>1. e = Unknown
          BY <2>8, <3>4, <4>1
        <5>2. after.position = Unknown /\ after.position # Missing
          BY <3>2, <3>5, <5>1, UnknownStays
        <5> QED
          BY <3>3, <4>1, <5>2
      <4>2. CASE ~(Lowest(k, p) < 0)
        <5>1. Tells(e, k, s, Incomplete) /\ s \in Nat
          BY <2>8, <3>3, <3>4, <4>2
        <5>2. /\ IF t < 0 THEN after.position = Unknown
                 ELSE Tells(after.position, k, t, Incomplete)
              /\ after.position # Missing
          BY <2>9, <3>1, <3>2, <3>3, <3>5, <5>1, IncompleteRecord
        <5> QED
          BY <3>3, <4>2, <5>2
      <4> QED
        BY <4>1, <4>2
    <3>8. TellsSum(k, n)
      BY <2>2, <2>4, <2>5, <2>7, <2>9, <3>6, <3>7 DEF TellsSum
    <3> QED
      BY <1>3, <3>8
  <2>10. CASE r.key # k
    <3>1. Q[k] = P[k]
      BY <2>2, <2>4, <2>6, <2>10, ProviderAfter
    <3>2. t = s /\ Lowest(k, n) = Lowest(k, p)
      BY <2>1, <2>2, <2>4, <2>7, <2>10, OtherTradesLeaveNet
    <3>3. (\A m \in 1..n : Trade(m).key # k) <=> (\A m \in 1..p : Trade(m).key # k)
      BY <2>2, <2>4, <2>10
    <3>4. TellsSum(k, n)
      BY <2>5, <2>7, <2>8, <3>1, <3>2, <3>3 DEF TellsSum
    <3> QED
      BY <1>3, <3>4
  <2> QED
    BY <2>9, <2>10
<1> QED
  BY <1>4, <1>5

LEMMA NeverTradedIs ==
  ASSUME LedgerInv, NEW k
  PROVE  NeverTraded(k) <=> \A m \in 1..Count : Trade(m).key # k
BY TradeHasRank DEF NeverTraded

LEMMA TellsComplete ==
  ASSUME NEW k, NEW q \in Nat, NEW e, Tells(e, k, q, Complete), e # Missing
  PROVE  /\ e.quantity = q /\ e.confidence = "HIGH"
         /\ e.status = IF q = 0 THEN "FLAT" ELSE "ACTIVE"
<1>1. CASE q = 0
  <2>1. e = Flat(Complete)
    BY <1>1 DEF Tells
  <2>2. Flat(Complete) = [side |-> "FLAT", quantity |-> 0, entry |-> NoPrice,
                          confidence |-> "HIGH", status |-> "FLAT"]
    BY Zenon DEF Flat, Complete
  <2> QED
    BY <1>1, <2>1, <2>2
<1>2. CASE q # 0
  <2>1. Confidence(q, Complete) = "HIGH"
    <3>1. q # NoQuantity
      BY DEF NoQuantity
    <3> QED
      BY <3>1, Zenon DEF Confidence, Complete
  <2> QED
    BY <1>2, <2>1 DEF Tells
<1> QED
  BY <1>1, <1>2

LEMMA TellsIncomplete ==
  ASSUME NEW k, NEW q \in Nat, NEW e, Tells(e, k, q, Incomplete), e # Missing
  PROVE  e.quantity = q /\ e.confidence = "LOW"
<1>1. CASE q = 0
  <2>1. e = Flat(Incomplete)
    BY <1>1 DEF Tells
  <2>2. Flat(Incomplete) = [side |-> "FLAT", quantity |-> 0, entry |-> NoPrice,
                            confidence |-> "LOW", status |-> "FLAT"]
    BY Zenon DEF Flat, Incomplete
  <2> QED
    BY <1>1, <2>1, <2>2
<1>2. CASE q # 0
  <2>1. Confidence(q, Incomplete) = "LOW"
    BY Zenon DEF Confidence, Incomplete
  <2> QED
    BY <1>2, <2>1 DEF Tells
<1> QED
  BY <1>1, <1>2

LEMMA CompleteInferred == LedgerInv => CompleteIsClampedSum
<1> SUFFICES ASSUME LedgerInv, Provider, NEW k \in family.keys
             PROVE  IF NeverTraded(k) THEN Inferred(k, TRUE) = Missing
                    ELSE /\ Inferred(k, TRUE).quantity = Net(k, Count)
                         /\ Inferred(k, TRUE).confidence = "HIGH"
                         /\ Inferred(k, TRUE).status =
                              IF Net(k, Count) = 0 THEN "FLAT" ELSE "ACTIVE"
  BY DEF CompleteIsClampedSum
<1>1. ProviderInv /\ k \in Keys /\ k[2] \in Directed /\ Count \in 0..Count
  BY DEF ProviderInv, LedgerInv, FamilyInv, Provider
<1>2. PICK e : e = History(ledger, Complete)[Count][k]
  OBVIOUS
<1>3. Inferred(k, TRUE) = e
  BY <1>2, HistoryStep DEF Inferred, Complete
<1>4. PICK q \in Nat : q = Net(k, Count)
  BY <1>1, NetStep
<1>5. TellsNet(k, Count)
  BY <1>1, CompleteReplay
<1>6. Tells(e, k, q, Complete) /\ (e = Missing <=> NeverTraded(k))
  BY <1>2, <1>4, <1>5, NeverTradedIs DEF TellsNet
<1>7. ASSUME e # Missing
      PROVE  /\ e.quantity = q /\ e.confidence = "HIGH"
             /\ e.status = IF q = 0 THEN "FLAT" ELSE "ACTIVE"
  BY <1>6, <1>7, TellsComplete
<1> QED
  BY <1>3, <1>4, <1>6, <1>7

LEMMA IncompleteInferred == LedgerInv => IncompleteIsSumOrUnknown
<1> SUFFICES ASSUME LedgerInv, Provider, NEW k \in family.keys
             PROVE  IF NeverTraded(k) THEN Inferred(k, FALSE) = Missing
                    ELSE IF Lowest(k, Count) < 0 THEN Inferred(k, FALSE) = Unknown
                    ELSE /\ Inferred(k, FALSE).quantity = Sum(k, Count)
                         /\ Inferred(k, FALSE).confidence = "LOW"
  BY DEF IncompleteIsSumOrUnknown
<1>1. ProviderInv /\ k \in Keys /\ k[2] \in Directed /\ Count \in 0..Count
  BY DEF ProviderInv, LedgerInv, FamilyInv, Provider
<1>2. PICK e : e = History(ledger, Incomplete)[Count][k]
  OBVIOUS
<1>3. Inferred(k, FALSE) = e
  BY <1>2, HistoryStep DEF Inferred, Incomplete
<1>4. PICK s : s = Sum(k, Count)
  OBVIOUS
<1>5. TellsSum(k, Count)
  BY <1>1, IncompleteReplay
<1>6. /\ IF Lowest(k, Count) < 0 THEN e = Unknown ELSE Tells(e, k, s, Incomplete)
      /\ e = Missing <=> NeverTraded(k)
  BY <1>2, <1>4, <1>5, NeverTradedIs DEF TellsSum
<1>7. ~(Lowest(k, Count) < 0) => s \in Nat
  <2>1. s \in Int /\ Lowest(k, Count) \in Int /\ Lowest(k, Count) <= s
    BY <1>1, <1>4, SumIsInteger, LowestStep
  <2> QED
    BY <2>1
<1> QED
  BY <1>3, <1>4, <1>6, <1>7, TellsIncomplete

LEMMA LabelsTell == LedgerInv => LabelsTellTheChange
<1> SUFFICES ASSUME LedgerInv, Provider, NEW r \in Trades, ~Corrected(r, ledger)
             PROVE  Action(r, ledger, TRUE) =
                      IF r.operation = "INCREASE"
                      THEN IF Net(r.key, Rank(r) - 1) = 0 THEN "OPEN" ELSE "ADD"
                      ELSE IF Net(r.key, Rank(r)) = 0 THEN "CLOSE" ELSE "REDUCE"
  BY DEF LabelsTellTheChange
<1>1. PICK n, k, x : n = Rank(r) /\ k = r.key /\ x = r.quantity
  OBVIOUS
<1>2. PICK p : p = n - 1
  OBVIOUS
<1>3. /\ ProviderInv /\ n \in 1..Count /\ r = Trade(n)
      /\ Cardinality({q \in Effective(ledger) : Before(q, r)}) = p
      /\ Count \in Nat
  BY <1>1, <1>2, TradeHasRank, ReplayedInOrder DEF ProviderInv, LedgerInv
<1>4. /\ k \in Keys /\ k[2] \in Directed /\ r.operation \in {"INCREASE", "DECREASE"}
      /\ x \in Nat /\ x # 0
  BY <1>1, <1>3, ProvidersTrade
<1>5. p \in 0..Count /\ n \in 0..Count
  BY <1>2, <1>3
<1>6. PICK P : P = History(ledger, Complete)[p]
  OBVIOUS
<1>7. Action(r, ledger, TRUE) = ApplyRecord(r, P, Complete).action
  BY <1>3, <1>6 DEF Action, Complete
<1>8. PICK q \in Nat : q = Net(k, p)
  BY <1>3, <1>5, NetStep
<1>9. PICK e : e = P[k]
  OBVIOUS
<1>10. Tells(e, k, q, Complete)
  <2>1. TellsNet(k, p)
    BY <1>3, <1>4, <1>5, CompleteReplay
  <2> QED
    BY <1>6, <1>8, <1>9, <2>1 DEF TellsNet
<1>11. PICK s : s = IF r.operation = "INCREASE" THEN q + x
                    ELSE IF q <= x THEN 0 ELSE q - x
  OBVIOUS
<1>12. Net(k, n) = s
  BY <1>1, <1>2, <1>3, <1>8, <1>11, NetStep
<1>13. PICK after : after = IF r.operation = "INCREASE" THEN Increased(r, e, Complete)
                            ELSE Decreased(r, e, Complete)
  OBVIOUS
<1>14. ApplyRecord(r, P, Complete) = after
  <2>1. after = IF r.operation = "INCREASE" THEN Increased(r, P[r.key], Complete)
                ELSE Decreased(r, P[r.key], Complete)
    BY <1>1, <1>9, <1>13
  <2> QED
    BY <1>3, <2>1, ProviderAfter
<1>15. after.action = IF r.operation = "INCREASE" THEN IF q = 0 THEN "OPEN" ELSE "ADD"
                      ELSE IF s = 0 THEN "CLOSE" ELSE "REDUCE"
  BY <1>1, <1>4, <1>10, <1>11, <1>13, CompleteRecord
<1> QED
  BY <1>1, <1>2, <1>7, <1>8, <1>12, <1>14, <1>15

\* From a complete history of a provider the reconciler infers, for every ledger,
\* the quantity that the trades sum up to, lifted by the deepest excess: what
\* reconcile_records and _apply_record compute trade by trade is the sum.
THEOREM CompleteHistoriesAreSummed == Spec => []CompleteIsClampedSum
BY LedgersAreWellFormed, CompleteInferred, PTL

\* From an incomplete history it infers the sum with low confidence, until a
\* reduction exceeds what the history explains, and nothing from then on.
THEOREM IncompleteHistoriesAreNotTrusted == Spec => []IncompleteIsSumOrUnknown
BY LedgersAreWellFormed, IncompleteInferred, PTL

\* The action reconcile_records labels a trade with says how the trade changed
\* the position, however long the ledger is and whatever else was corrected in it.
THEOREM LabelsAreTrue == Spec => []LabelsTellTheChange
BY LedgersAreWellFormed, LabelsTell, PTL

-----------------------------------------------------------------------------
(* Every operation: what a position can be.                                *)

Held(e, k) ==
  /\ k[2] \in Directed
  /\ e \in [side: {k[2]}, quantity: (Nat \ {0}) \cup {NoQuantity}, entry: Prices,
            confidence: {"LOW", "MEDIUM", "HIGH"}, status: {"ACTIVE"}]

Shape(e, k, c) == e = Missing \/ e = Unknown \/ e = Flat(c) \/ Held(e, k)

LEMMA ShapeTells ==
  ASSUME NEW k, NEW c, NEW e, Shape(e, k, c)
  PROVE  /\ e.status = "ACTIVE" <=> Held(e, k)
         /\ ~Held(e, k) => e.entry = NoPrice
BY DEF Shape, Held, Missing, Unknown, Flat

LEMMA ActiveHasShape ==
  ASSUME NEW k, NEW q \in (Nat \ {0}) \cup {NoQuantity}, NEW price \in Prices, NEW c,
         NEW e, e = Active(k, q, price, c)
  PROVE  Shape(e, k, c) /\ (e.entry = 0 => e.status = "ACTIVE" /\ price = 0)
<1>1. CASE k[2] \in Directed
  <2>1. e = [side |-> k[2], quantity |-> q, entry |-> price,
             confidence |-> Confidence(q, c), status |-> "ACTIVE"]
    BY <1>1 DEF Active
  <2>2. Held(e, k) /\ e.entry = price
    BY <1>1, <2>1 DEF Held, Confidence
  <2> QED
    BY <2>2 DEF Shape, Held
<1>2. CASE k[2] \notin Directed
  <2>1. e = Unknown
    BY <1>2 DEF Active
  <2>2. e.entry # 0
    BY <2>1 DEF Unknown, NoPrice
  <2> QED
    BY <2>1, <2>2 DEF Shape
<1> QED
  BY <1>1, <1>2

LEMMA EntryTells ==
  ASSUME NEW r, r.quantity \in (Nat \ {0}) \cup {NoQuantity}, r.price \in Prices,
         NEW e, e.quantity \in (Nat \ {0}) \cup {NoQuantity}, e.entry \in Prices,
         NEW price, price = WeightedEntry(e, r)
  PROVE  price \in Prices /\ (price = 0 => e.entry = 0 /\ r.price = 0)
<1>1. CASE \/ NoQuantity \in {e.quantity, r.quantity}
           \/ NoPrice \in {e.entry, r.price}
  BY <1>1 DEF WeightedEntry, Prices, NoPrice
<1>2. CASE ~(\/ NoQuantity \in {e.quantity, r.quantity}
             \/ NoPrice \in {e.entry, r.price})
  <2>1. /\ e.quantity \in Nat \ {0} /\ r.quantity \in Nat \ {0}
        /\ e.entry \in Nat /\ r.price \in Nat
    BY <1>2 DEF Prices
  <2>2. PICK q \in Nat \ {0}, x \in Nat \ {0}, p \in Nat, y \in Nat :
          q = e.quantity /\ x = r.quantity /\ p = e.entry /\ y = r.price
    BY <2>1
  <2>3. price = Average(q, p, x, y)
    BY <1>2, <2>2 DEF WeightedEntry
  <2>4. price = (q * p + x * y + (q + x - 1)) \div (q + x)
    BY <2>3 DEF Average
  <2>5. price \in Nat /\ (price = 0 <=> p = 0 /\ y = 0)
    BY <2>4, RoundedAverage
  <2> QED
    BY <2>2, <2>5 DEF Prices
<1> QED
  BY <1>1, <1>2

Nothing(e, c) == e = Unknown \/ e = Flat(c)

LEMMA NothingIsFree ==
  ASSUME NEW k, NEW c, NEW e, Nothing(e, c)
  PROVE  Shape(e, k, c) /\ e.entry # 0
BY DEF Nothing, Shape, Unknown, Flat, NoPrice

\* A position that cost nothing was had for nothing before or is new, and the
\* record added nothing that costs.
StaysFree(r, e, after) ==
  after.entry = 0 =>
    /\ after.status = "ACTIVE"
    /\ r.operation \notin {"REDUCE", "DECREASE"} => r.price = 0
    /\ \/ r.operation \in {"OPEN", "REVERSE"}
       \/ e.status # "ACTIVE"
       \/ e.entry = 0

LEMMA IncreaseKeepsShape ==
  ASSUME NEW k, NEW c, NEW r, r.key = k, r.operation \in {"ADD", "INCREASE"},
         r.quantity \in (Nat \ {0}) \cup {NoQuantity}, r.price \in Prices,
         NEW e, Shape(e, k, c), NEW after, after = Increased(r, e, c).position
  PROVE  Shape(after, k, c) /\ StaysFree(r, e, after)
<1>1. CASE Nothing(after, c)
  BY <1>1, NothingIsFree DEF StaysFree
<1>2. CASE after = Active(k, r.quantity, r.price, c) /\ e.status # "ACTIVE"
  <2>1. PICK q \in (Nat \ {0}) \cup {NoQuantity}, price \in Prices :
          q = r.quantity /\ price = r.price
    OBVIOUS
  <2>2. Shape(after, k, c) /\ (after.entry = 0 => after.status = "ACTIVE" /\ price = 0)
    <3>1. after = Active(k, q, price, c)
      BY <1>2, <2>1
    <3>2. q \in (Nat \ {0}) \cup {NoQuantity} /\ price \in Prices
      BY <2>1
    <3> QED
      BY <3>1, <3>2, ActiveHasShape
  <2> QED
    BY <1>2, <2>1, <2>2 DEF StaysFree
<1>3. ASSUME e.status = "ACTIVE", NEW sum, NEW price,
             sum = IF NoQuantity \in {e.quantity, r.quantity}
                   THEN NoQuantity ELSE e.quantity + r.quantity,
             price = WeightedEntry(e, r), after = Active(k, sum, price, c)
      PROVE  Shape(after, k, c) /\ StaysFree(r, e, after)
  <2>1. Held(e, k)
    BY <1>3, ShapeTells
  <2>2. sum \in (Nat \ {0}) \cup {NoQuantity}
    BY <1>3, <2>1 DEF Held
  <2>3. price \in Prices /\ (price = 0 => e.entry = 0 /\ r.price = 0)
    BY <1>3, <2>1, EntryTells DEF Held
  <2>4. Shape(after, k, c) /\ (after.entry = 0 => after.status = "ACTIVE" /\ price = 0)
    BY <1>3, <2>2, <2>3, ActiveHasShape
  <2> QED
    BY <2>3, <2>4 DEF StaysFree
<1>4. CASE e.status = "ACTIVE"
  <2>1. Held(e, k) /\ e # Missing
    <3>1. Missing.status = "MISSING"
      BY DEF Missing
    <3> QED
      BY <1>4, <3>1, ShapeTells
  <2>2. PICK sum, price :
          /\ sum = IF NoQuantity \in {e.quantity, r.quantity}
                   THEN NoQuantity ELSE e.quantity + r.quantity
          /\ price = WeightedEntry(e, r)
    OBVIOUS
  <2>3. Increased(r, e, c) = Outcome("ADD", Active(k, sum, price, c))
    BY <2>1, <2>2 DEF Increased, Held
  <2>4. after = Active(k, sum, price, c)
    BY <2>3 DEF Outcome
  <2> QED
    BY <1>3, <1>4, <2>2, <2>4
<1>5. CASE e.status # "ACTIVE"
  <2>1. \/ Increased(r, e, c) = Outcome("ADD", Unknown)
        \/ Increased(r, e, c) = Outcome("OPEN", Active(k, r.quantity, r.price, c))
    BY <1>5 DEF Increased
  <2>2. after = Unknown \/ after = Active(k, r.quantity, r.price, c)
    BY <2>1 DEF Outcome
  <2> QED
    BY <1>1, <1>2, <1>5, <2>2 DEF Nothing
<1> QED
  BY <1>4, <1>5

LEMMA DecreaseKeepsShape ==
  ASSUME NEW k, NEW c, NEW r, r.key = k, r.operation \in {"REDUCE", "DECREASE"},
         r.quantity \in (Nat \ {0}) \cup {NoQuantity},
         NEW e, Shape(e, k, c), NEW after, after = Decreased(r, e, c).position
  PROVE  Shape(after, k, c) /\ StaysFree(r, e, after)
<1>1. CASE Nothing(after, c)
  BY <1>1, NothingIsFree DEF StaysFree
<1>2. ASSUME e.status = "ACTIVE", NEW left \in (Nat \ {0}) \cup {NoQuantity},
             NEW price, price = e.entry, after = Active(k, left, price, c)
      PROVE  Shape(after, k, c) /\ StaysFree(r, e, after)
  <2>1. price \in Prices
    BY <1>2, ShapeTells DEF Held
  <2>2. Shape(after, k, c) /\ (after.entry = 0 => after.status = "ACTIVE" /\ price = 0)
    BY <1>2, <2>1, ActiveHasShape
  <2> QED
    BY <1>2, <2>2 DEF StaysFree
<1>3. \/ Decreased(r, e, c) = Outcome("CLOSE", Flat(c))
      \/ Decreased(r, e, c) = Outcome("REDUCE", Unknown)
      \/ \E left \in (Nat \ {0}) \cup {NoQuantity} :
           /\ e.status = "ACTIVE"
           /\ Decreased(r, e, c) = Outcome("REDUCE", Active(k, left, e.entry, c))
  <2>1. CASE e.status # "ACTIVE"
    BY <2>1 DEF Decreased
  <2>2. CASE e.status = "ACTIVE" /\ NoQuantity \in {e.quantity, r.quantity}
    <3>1. Decreased(r, e, c) = Outcome("REDUCE", Active(k, NoQuantity, e.entry, c))
      BY <2>2 DEF Decreased
    <3> QED
      BY <2>2, <3>1
  <2>3. CASE e.status = "ACTIVE" /\ ~(NoQuantity \in {e.quantity, r.quantity})
    <3>1. e.quantity \in Nat \ {0} /\ r.quantity \in Nat \ {0}
      BY <2>3, ShapeTells DEF Held
    <3>2. CASE r.quantity >= e.quantity
      BY <2>3, <3>1, <3>2 DEF Decreased
    <3>3. CASE r.quantity < e.quantity
      <4>1. PICK left \in Nat \ {0} : left = e.quantity - r.quantity
        BY <3>1, <3>3
      <4>2. Decreased(r, e, c) = Outcome("REDUCE", Active(k, left, e.entry, c))
        BY <2>3, <3>1, <3>3, <4>1 DEF Decreased
      <4> QED
        BY <2>3, <4>1, <4>2
    <3> QED
      BY <3>1, <3>2, <3>3
  <2> QED
    BY <2>1, <2>2, <2>3
<1>4. \/ Nothing(after, c)
      \/ \E left \in (Nat \ {0}) \cup {NoQuantity} :
           e.status = "ACTIVE" /\ after = Active(k, left, e.entry, c)
  BY <1>3 DEF Outcome, Nothing
<1> QED
  BY <1>1, <1>2, <1>4

LEMMA RecordKeepsShape ==
  ASSUME LedgerInv, NEW r, Recorded(r), NEW P, NEW c, Shape(P[r.key], r.key, c),
         NEW after, after = ApplyRecord(r, P, c).position
  PROVE  Shape(after, r.key, c) /\ StaysFree(r, P[r.key], after)
<1>1. PICK k, e : k = r.key /\ e = P[r.key]
  OBVIOUS
<1>2. /\ r.operation \in Operations /\ r.quantity \in (Nat \ {0}) \cup {NoQuantity}
      /\ r.price \in Prices
  BY DEF LedgerInv, FamilyInv, Recorded
<1>3. ASSUME after = Active(k, r.quantity, r.price, c), r.operation \in {"OPEN", "REVERSE"}
      PROVE  Shape(after, k, c) /\ StaysFree(r, e, after)
  <2>1. PICK q \in (Nat \ {0}) \cup {NoQuantity}, price \in Prices :
          q = r.quantity /\ price = r.price
    BY <1>2
  <2>2. Shape(after, k, c) /\ (after.entry = 0 => after.status = "ACTIVE" /\ price = 0)
    <3>1. after = Active(k, q, price, c)
      BY <1>3, <2>1
    <3>2. q \in (Nat \ {0}) \cup {NoQuantity} /\ price \in Prices
      BY <2>1
    <3> QED
      BY <3>1, <3>2, ActiveHasShape
  <2> QED
    BY <1>3, <2>1, <2>2 DEF StaysFree
<1>4. ASSUME Nothing(after, c) PROVE Shape(after, k, c) /\ StaysFree(r, e, after)
  BY <1>4, NothingIsFree DEF StaysFree
<1>5. CASE r.operation = "OPEN"
  <2>1. after = Active(k, r.quantity, r.price, c)
    BY <1>1, <1>5 DEF ApplyRecord, Outcome
  <2> QED
    BY <1>1, <1>3, <1>5, <2>1
<1>6. CASE r.operation \in {"ADD", "INCREASE"}
  <2>1. after = Increased(r, e, c).position
    BY <1>1, <1>6 DEF ApplyRecord
  <2> QED
    BY <1>1, <1>2, <1>6, <2>1, IncreaseKeepsShape
<1>7. CASE r.operation \in {"REDUCE", "DECREASE"}
  <2>1. after = Decreased(r, e, c).position
    BY <1>1, <1>7 DEF ApplyRecord
  <2> QED
    BY <1>1, <1>2, <1>7, <2>1, DecreaseKeepsShape
<1>8. CASE r.operation = "CLOSE"
  <2>1. after = Flat(c)
    BY <1>8 DEF ApplyRecord, Outcome
  <2> QED
    BY <1>1, <1>4, <2>1 DEF Nothing
<1>9. CASE r.operation = "REVERSE"
  <2>1. after = Unknown \/ after = Active(k, r.quantity, r.price, c)
    BY <1>1, <1>9 DEF ApplyRecord, Reversed, Outcome
  <2> QED
    BY <1>1, <1>3, <1>4, <1>9, <2>1 DEF Nothing
<1> QED
  BY <1>2, <1>5, <1>6, <1>7, <1>8, <1>9 DEF Operations

LEMMA FreeOnwards ==
  ASSUME LedgerInv, NEW k, NEW c, NEW n \in 1..Count, NEW p, p = n - 1,
         History(ledger, c)[n][k].status = "ACTIVE",
         Trade(n).key = k /\ Trade(n).operation \notin {"REDUCE", "DECREASE"} =>
           Trade(n).price = 0,
         \/ Free(k, p, c)
         \/ /\ Trade(n).key = k
            /\ \/ Trade(n).operation \in {"OPEN", "REVERSE"}
               \/ History(ledger, c)[p][k].status # "ACTIVE"
  PROVE  Free(k, n, c)
<1>1. Count \in Nat
  BY DEF LedgerInv
<1>2. CASE Free(k, p, c)
  <2>1. PICK m \in 1..p : FreeSince(k, m, p, c)
    BY <1>2 DEF Free
  <2>2. m \in 1..n /\ \A l \in m..n : l \in m..p \/ l = n
    BY <1>1, <2>1
  <2>3. FreeSince(k, m, n, c)
    BY <2>1, <2>2 DEF FreeSince
  <2> QED
    BY <2>2, <2>3 DEF Free
<1>3. CASE ~Free(k, p, c)
  <2>1. n \in 1..n /\ \A l \in n..n : l = n
    BY <1>1
  <2>2. FreeSince(k, n, n, c)
    BY <1>3, <2>1 DEF FreeSince
  <2> QED
    BY <2>1, <2>2 DEF Free
<1> QED
  BY <1>2, <1>3

\* Every position has a shape, and one that cost nothing was had for nothing.
Sane(k, n, c) ==
  LET e == History(ledger, c)[n][k]
  IN  Shape(e, k, c) /\ (e.entry = 0 => Free(k, n, c))

LEMMA AllSane ==
  ASSUME LedgerInv, NEW c
  PROVE  \A n \in 0..Count : \A k \in Keys : Sane(k, n, c)
<1> DEFINE Good(n) == \A k \in Keys : Sane(k, n, c)
           Bad == {n \in 0..Count : ~Good(n)}
<1>1. SUFFICES ASSUME Bad # {} PROVE FALSE
  OBVIOUS
<1>2. Count \in Nat
  BY DEF LedgerInv
<1>3. PICK n \in Bad : \A m \in Bad : n <= m
  <2>1. Bad \in SUBSET Nat
    BY <1>2
  <2> HIDE DEF Bad
  <2> QED
    BY <1>1, <2>1, LeastNatural
<1>4. CASE n = 0
  <2>1. ASSUME NEW k \in Keys PROVE Sane(k, 0, c)
    <3>1. History(ledger, c)[0][k] = Missing
      BY HistoryStep DEF NoPositions
    <3>2. Missing.entry # 0
      BY DEF Missing, NoPrice
    <3> QED
      BY <3>1, <3>2 DEF Sane, Shape
  <2> QED
    BY <1>3, <1>4, <2>1
<1>5. CASE n # 0
  <2>1. PICK p : p = n - 1
    OBVIOUS
  <2>2. p \in 0..Count /\ n \in 1..Count /\ ~(n <= p)
    BY <1>2, <1>3, <1>5, <2>1
  <2>3. Good(p)
    <3>1. p \notin Bad
      <4> HIDE DEF Bad
      <4> QED
        BY <1>3, <2>2
    <3> QED
      BY <2>2, <3>1
  <2>4. PICK P, Q, r : /\ P = History(ledger, c)[p] /\ Q = History(ledger, c)[n]
                       /\ r = Trade(n)
    OBVIOUS
  <2>5. Q = PositionsAfter(r, P, c)
    BY <2>1, <2>2, <2>4, HistoryStep
  <2>6. Recorded(r) /\ r.key \in Keys
    <3>1. Recorded(r)
      BY <2>2, <2>4, TradeHasRank
    <3> QED
      BY <3>1 DEF LedgerInv, FamilyInv, Recorded
  <2>7. ASSUME NEW k \in Keys PROVE Sane(k, n, c)
    <3>1. PICK e, after : e = P[k] /\ after = Q[k]
      OBVIOUS
    <3>2. Shape(e, k, c) /\ (e.entry = 0 => Free(k, p, c))
      BY <2>3, <2>4, <3>1 DEF Sane
    <3>3. CASE k = r.key
      <4>1. after = ApplyRecord(r, P, c).position
        BY <2>5, <2>6, <3>1, <3>3 DEF PositionsAfter
      <4>2. Shape(after, k, c) /\ StaysFree(r, e, after)
        BY <2>6, <3>1, <3>2, <3>3, <4>1, RecordKeepsShape
      <4>3. ASSUME after.entry = 0 PROVE Free(k, n, c)
        <5>1. /\ after.status = "ACTIVE"
              /\ r.operation \notin {"REDUCE", "DECREASE"} => r.price = 0
              /\ \/ r.operation \in {"OPEN", "REVERSE"}
                 \/ e.status # "ACTIVE"
                 \/ e.entry = 0
          BY <4>2, <4>3 DEF StaysFree
        <5> QED
          BY <2>1, <2>2, <2>4, <3>1, <3>2, <3>3, <5>1, FreeOnwards
      <4> QED
        BY <2>4, <3>1, <4>2, <4>3 DEF Sane
    <3>4. CASE k # r.key
      <4>1. after = e \/ after = Flat(c)
        BY <2>5, <3>1, <3>4 DEF PositionsAfter
      <4>2. CASE after = Flat(c)
        <5>1. Shape(after, k, c) /\ after.entry # 0
          BY <4>2, NothingIsFree DEF Nothing
        <5> QED
          BY <2>4, <3>1, <5>1 DEF Sane
      <4>3. CASE after = e
        <5>1. ASSUME e.entry = 0 PROVE Free(k, n, c)
          <6>1. e.status = "ACTIVE" /\ Free(k, p, c)
            BY <3>2, <5>1, ShapeTells DEF NoPrice
          <6> QED
            BY <2>1, <2>2, <2>4, <3>1, <3>4, <4>3, <6>1, FreeOnwards
        <5> QED
          BY <2>4, <3>1, <3>2, <4>3, <5>1 DEF Sane
      <4> QED
        BY <4>1, <4>2, <4>3
    <3> QED
      BY <3>3, <3>4
  <2> QED
    BY <1>3, <2>7
<1> QED
  BY <1>4, <1>5

-----------------------------------------------------------------------------
(* What the server takes.                                                  *)

LEMMA ShapeIsAcceptable ==
  ASSUME NEW k, NEW c, NEW p, Shape(p, k, c), p # Missing, p.entry # 0
  PROVE  \A v \in Sent(p) : Acceptable(k, v)
<1>1. p = Unknown \/ p = Flat(c) \/ Held(p, k)
  BY DEF Shape
<1>2. /\ p.status \in {"ACTIVE", "FLAT", "UNKNOWN"}
      /\ p.status = "ACTIVE" => Held(p, k)
      /\ p.status = "FLAT" => p.side = "FLAT" /\ p.quantity = 0
      /\ p.status = "UNKNOWN" => p.side = "UNKNOWN" /\ p.quantity = NoQuantity
  BY <1>1 DEF Unknown, Flat, Held
<1>3. Held(p, k) => /\ p.side = k[2] /\ p.side \in Directed
                    /\ p.quantity = NoQuantity \/ p.quantity > 0
  BY DEF Held
<1>4. Unknown.status = "UNKNOWN" /\ Unknown.side = "UNKNOWN" /\ Unknown.entry # 0
      /\ Unknown.quantity = NoQuantity
  BY DEF Unknown, NoPrice
<1>5. ASSUME NEW mark \in BOOLEAN, NEW v, v = ValuePosition(p, mark)
      PROVE  Acceptable(k, v) /\ Acceptable(k, Stale(v)) /\ Acceptable(k, Forget(v))
  <2>1. /\ v.estimate = p /\ v.mark = mark
        /\ v.notional => p.status = "ACTIVE" /\ p.quantity # NoQuantity /\ mark
        /\ v.pnl => p.status = "ACTIVE" /\ p.quantity # NoQuantity /\ mark /\ p.entry # NoPrice
    BY <1>5 DEF ValuePosition
  <2>2. Acceptable(k, v)
    BY <1>2, <1>3, <2>1 DEF Acceptable
  <2>3. Acceptable(k, Stale(v))
    <3>1. PICK s : s = Stale(v)
      OBVIOUS
    <3>2. PICK e : e = [p EXCEPT !.status = "STALE"]
      OBVIOUS
    <3>3. s.estimate = e /\ s.mark = v.mark /\ s.notional = v.notional /\ s.pnl = v.pnl
      BY <1>5, <2>1, <3>1, <3>2 DEF Stale, ValuePosition
    <3>4. /\ e.status = "STALE" /\ e.side = p.side /\ e.entry = p.entry
          /\ e.quantity = p.quantity
      BY <1>1, <3>2 DEF Unknown, Flat, Held
    <3> QED
      BY <1>2, <1>3, <2>1, <3>1, <3>3, <3>4 DEF Acceptable
  <2>4. Acceptable(k, Forget(v))
    <3>1. PICK s : s = Forget(v)
      OBVIOUS
    <3>2. s.estimate = Unknown /\ s.notional = FALSE /\ s.pnl = FALSE
      BY <1>5, <3>1 DEF Forget, ValuePosition
    <3> QED
      BY <1>4, <3>1, <3>2 DEF Acceptable
  <2> QED
    BY <2>2, <2>3, <2>4
<1> QED
  BY <1>5 DEF Sent

LEMMA PositionsAreAcceptable ==
  ASSUME LedgerInv, NEW c, NEW k \in Keys
  PROVE  LET p == Positions(ledger, c)[k]
         IN  \/ p = Missing
             \/ p.entry = 0 /\ Free(k, Count, c)
             \/ \A v \in Sent(p) : Acceptable(k, v)
<1>1. PICK p : p = Positions(ledger, c)[k]
  OBVIOUS
<1>2. p = History(ledger, c)[Count][k]
  BY <1>1, HistoryStep
<1>3. Count \in 0..Count
  BY DEF LedgerInv
<1>4. Shape(p, k, c) /\ (p.entry = 0 => Free(k, Count, c))
  BY <1>2, <1>3, AllSane DEF Sane
<1>5. p # Missing /\ p.entry # 0 => \A v \in Sent(p) : Acceptable(k, v)
  BY <1>4, ShapeIsAcceptable
<1> QED
  BY <1>1, <1>4, <1>5

\* For every ledger of any operations UploadedPosition takes each position the
\* collector sends, as it was inferred or marked after a failure; it could only
\* refuse the entry price zero of a position for which nothing was paid.
THEOREM PositionsAreTaken == Spec => []ServerAcceptsPositions
<1>1. LedgerInv => ServerAcceptsPositions
  <2>1. ASSUME LedgerInv
        PROVE  \A c : \A k \in Keys :
                 \/ Positions(ledger, c)[k] = Missing
                 \/ Positions(ledger, c)[k].entry = 0 /\ Free(k, Count, c)
                 \/ \A v \in Sent(Positions(ledger, c)[k]) : Acceptable(k, v)
    BY <2>1, PositionsAreAcceptable
  <2> QED
    BY <2>1 DEF ServerAcceptsPositions
<1> QED
  BY <1>1, LedgersAreWellFormed, PTL


=============================================================================
