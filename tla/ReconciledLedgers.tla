-------------------------- MODULE ReconciledLedgers --------------------------
(***************************************************************************)
(* Every ledger, whatever records it has and in whatever order they came,  *)
(* against what the positions inferred from it should be.  A family says   *)
(* of which records the ledgers are made: the provider only raises and     *)
(* lowers positions, other ledgers have every operation of a record.       *)
(***************************************************************************)
EXTENDS TradeReconciler

CONSTANT Families

\* A quantity is positive or not known, as the records of the provider say.
Family ==
  [ids: SUBSET Nat, revisions: SUBSET Nat, times: SUBSET Nat, observed: SUBSET Nat,
   operations: SUBSET Operations, keys: SUBSET Keys,
   quantities: SUBSET ((Nat \ {0}) \cup {NoQuantity}), prices: SUBSET Prices]

ASSUME FamiliesAssumption == \A f \in Families : f \in Family

VARIABLES family, ledger

Records ==
  [id: family.ids, revision: family.revisions, time: family.times,
   observed: family.observed, operation: family.operations, key: family.keys,
   quantity: family.quantities, price: family.prices]

Init == family \in Families /\ ledger = {}

\* A record comes: a trade, of any time, or another revision of one.  The ledger has
\* a revision of a trade once.
Observe ==
  /\ UNCHANGED family
  /\ \E r \in Records :
       /\ \A q \in ledger : q.id # r.id \/ q.revision # r.revision
       /\ ledger' = ledger \cup {r}

\* A revision the ledger has was seen again, and counts as observed then.
ObserveAgain ==
  /\ UNCHANGED family
  /\ \E r \in ledger, t \in family.observed :
       /\ t > r.observed
       /\ ledger' = (ledger \ {r}) \cup {[r EXCEPT !.observed = t]}

Next == Observe \/ ObserveAgain
Spec == Init /\ [][Next]_<<family, ledger>>

-----------------------------------------------------------------------------
(* What a provider's ledger says of key k: every trade raises or lowers    *)
(* the position by its quantity.                                           *)

Provider == /\ family.operations \subseteq {"INCREASE", "DECREASE"}
            /\ NoQuantity \notin family.quantities
            /\ \A k \in family.keys : k[2] \in Directed

Delta(r) == IF r.operation = "INCREASE" THEN r.quantity ELSE -r.quantity

\* The trades, each as it was observed last, in the order of their times, and at
\* one time in that of their ids.
Trades == Effective(ledger)
Count == Cardinality(Trades)
Earlier(q, r) == \/ q.time < r.time
                 \/ q.time = r.time /\ q.id < r.id
Rank(r) == Cardinality({q \in Trades : Earlier(q, r)}) + 1
Trade(n) == CHOOSE r \in Trades : Rank(r) = n
Gain(k, n) == IF Trade(n).key = k THEN Delta(Trade(n)) ELSE 0

\* The sum of the first n trades of k, and the lowest of the sums up to it.
Sums(k) == LET s[n \in 0..Count] == IF n = 0 THEN 0 ELSE s[n - 1] + Gain(k, n) IN s
Sum(k, n) == Sums(k)[n]
Least(S) == CHOOSE x \in S : \A y \in S : x <= y
Lowest(k, n) == LET s == Sums(k) IN Least({s[m] : m \in 0..n})

\* What is held after n trades of an account that was flat, when a reduction
\* that is too large ends the position.
Net(k, n) == Sum(k, n) - Lowest(k, n)

NeverTraded(k) == \A r \in Trades : r.key # k

Inferred(k, complete) == Positions(ledger, complete)[k]

\* From an account known to be flat at the start (positionStartAt), reductions
\* never go below zero and never make the position unknown: the quantity is the
\* sum, lifted by the deepest excess (docs/data-sources.md:36).
CompleteIsClampedSum ==
  Provider => \A k \in family.keys :
    LET p == Inferred(k, TRUE)
    IN  IF NeverTraded(k) THEN p = Missing
        ELSE /\ p.quantity = Net(k, Count) /\ p.confidence = "HIGH"
             /\ p.status = IF Net(k, Count) = 0 THEN "FLAT" ELSE "ACTIVE"

\* With an incomplete history the quantity is the sum as long as the records
\* explain one another, and unknown for good once they do not.
IncompleteIsSumOrUnknown ==
  Provider => \A k \in family.keys :
    LET p == Inferred(k, FALSE)
    IN  IF NeverTraded(k) THEN p = Missing
        ELSE IF Lowest(k, Count) < 0 THEN p = Unknown
        ELSE p.quantity = Sum(k, Count) /\ p.confidence = "LOW"

\* The label of a trade says what it did to the position (complete history).
LabelsTellTheChange ==
  Provider => \A r \in {e \in Trades : ~Corrected(e, ledger)} :
    Action(r, ledger, TRUE) =
      IF r.operation = "INCREASE"
      THEN IF Net(r.key, Rank(r) - 1) = 0 THEN "OPEN" ELSE "ADD"
      ELSE IF Net(r.key, Rank(r)) = 0 THEN "CLOSE" ELSE "REDUCE"

-----------------------------------------------------------------------------
\* UploadedPosition of the server, as far as it is about what an estimate of the
\* collector has; that a symbol fits its pattern and length is not told.
Acceptable(k, v) ==
  LET p == v.estimate
  IN  /\ CASE p.status = "ACTIVE" -> /\ p.side = k[2] /\ p.side \in Directed
                                     /\ p.quantity = NoQuantity \/ p.quantity > 0
           [] p.status = "FLAT" -> p.side = "FLAT" /\ p.quantity = 0
           [] p.status = "UNKNOWN" -> p.side = "UNKNOWN" /\ p.quantity = NoQuantity
           [] p.status = "STALE" -> TRUE
           [] OTHER -> FALSE
      /\ p.entry # 0
      /\ v.notional => p.quantity # NoQuantity /\ v.mark
      /\ v.pnl => /\ p.quantity # NoQuantity /\ p.entry # NoPrice /\ v.mark
                  /\ p.side \in Directed

\* What is sent of a position: as it was inferred, or marked after a failure.
Sent(p) == LET v == {ValuePosition(p, mark) : mark \in BOOLEAN}
           IN  v \cup {Stale(u) : u \in v} \cup {Forget(u) : u \in v}

\* The m-th trade opened position k, or opened it anew; it was held from then on,
\* and all that was bought for it cost nothing.
FreeSince(k, m, n, complete) ==
  LET h == History(ledger, complete)
  IN  /\ Trade(m).key = k
      /\ Trade(m).operation \in {"OPEN", "REVERSE"} \/ h[m - 1][k].status # "ACTIVE"
      /\ \A l \in m..n :
           /\ h[l][k].status = "ACTIVE"
           /\ Trade(l).key = k /\ Trade(l).operation \notin {"REDUCE", "DECREASE"}
                => Trade(l).price = 0
Free(k, n, complete) == \E m \in 1..n : FreeSince(k, m, n, complete)

\* Whatever a ledger holds, priced or not, stale or forgotten, the server's
\* validation takes the positions the collector sends: one that it refused would
\* block the whole snapshot.  It refuses one only if it was had for nothing.
ServerAcceptsPositions ==
  \A complete \in BOOLEAN :
    LET inferred == Positions(ledger, complete)
    IN  \A k \in Keys : \/ inferred[k] = Missing
                        \/ inferred[k].entry = 0 /\ Free(k, Count, complete)
                        \/ \A v \in Sent(inferred[k]) : Acceptable(k, v)

=============================================================================
