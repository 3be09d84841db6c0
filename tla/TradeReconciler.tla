--------------------------- MODULE TradeReconciler ---------------------------
(***************************************************************************)
(* How the collector infers positions from a ledger of trade records: the  *)
(* pure functions of trade_reconciler.py.  A record says by how much a     *)
(* position was increased or decreased, not what the position is.          *)
(*                                                                         *)
(* Quantities and prices are natural numbers - prices as multiples of the  *)
(* last digit that is kept -, or NoQuantity and NoPrice where the code has *)
(* None.  Leverage, which the provider never has, is left out.             *)
(***************************************************************************)
EXTENDS Integers, FiniteSets

CONSTANT Keys       \* <<symbol, position side>>

NoQuantity == -1
NoPrice == -1
Prices == {NoPrice} \cup Nat
Operations ==
  {"OPEN", "ADD", "INCREASE", "REDUCE", "DECREASE", "CLOSE", "REVERSE"}
Directed == {"LONG", "SHORT"}

Missing == [side |-> "NONE", quantity |-> NoQuantity, entry |-> NoPrice,
            confidence |-> "NONE", status |-> "MISSING"]

Confidence(q, complete) == IF ~complete THEN "LOW"
                           ELSE IF q # NoQuantity THEN "HIGH" ELSE "MEDIUM"

Unknown == [side |-> "UNKNOWN", quantity |-> NoQuantity, entry |-> NoPrice,
            confidence |-> "UNKNOWN", status |-> "UNKNOWN"]

Flat(complete) ==
  [side |-> "FLAT", quantity |-> 0, entry |-> NoPrice,
   confidence |-> IF complete THEN "HIGH" ELSE "LOW", status |-> "FLAT"]

\* Mutant of Active: the side is not looked at.
ActiveAnySide(k, q, price, complete) ==
  [side |-> k[2], quantity |-> q, entry |-> price,
   confidence |-> Confidence(q, complete), status |-> "ACTIVE"]

\* A position held on the side of key k; only a directed key can be held.
Active(k, q, price, complete) ==
  IF k[2] \in Directed
  THEN [side |-> k[2], quantity |-> q, entry |-> price,
        confidence |-> Confidence(q, complete), status |-> "ACTIVE"]
  ELSE Unknown

\* What a piece costs when q pieces at p and x pieces at y are one position.
\* The last digit is rounded up: like Decimal, whose precision is relative, an
\* average is zero only if both prices are.
Average(q, p, x, y) == (q * p + x * y + (q + x - 1)) \div (q + x)

\* The entry price of a position after more was bought.
WeightedEntry(current, r) ==
  IF \/ NoQuantity \in {current.quantity, r.quantity}
     \/ NoPrice \in {current.entry, r.price}
  THEN NoPrice
  ELSE Average(current.quantity, current.entry, r.quantity, r.price)

-----------------------------------------------------------------------------
(* One record.  Each operator gives the action the event is labelled with, *)
(* and the position of the record's key after it.                          *)

Outcome(action, position) == [action |-> action, position |-> position]

\* ADD and INCREASE.
Increased(r, current, complete) ==
  LET held == current.status = "ACTIVE" /\ current.side = r.key[2]
      sum == IF NoQuantity \in {current.quantity, r.quantity}
             THEN NoQuantity ELSE current.quantity + r.quantity
  IN  CASE current = Missing /\ r.operation = "ADD" -> Outcome("ADD", Unknown)
        [] \/ current = Missing /\ r.operation = "INCREASE"
           \/ current.status = "FLAT" ->
             Outcome("OPEN", Active(r.key, r.quantity, r.price, complete))
        [] held -> Outcome("ADD", Active(r.key, sum, WeightedEntry(current, r), complete))
        [] OTHER -> Outcome("ADD", Unknown)

\* Mutants of Decreased: an excess makes the position unknown although the
\* history is complete; an excess closes it although it is not.
DecreasedIncomplete(r, current, complete) ==
  IF current.status = "ACTIVE" /\ r.quantity <= current.quantity
  THEN IF r.quantity = current.quantity THEN Outcome("CLOSE", Flat(complete))
       ELSE Outcome("REDUCE", Active(r.key, current.quantity - r.quantity,
                                current.entry, complete))
  ELSE Outcome("REDUCE", Unknown)
DecreasedClamped(r, current, complete) ==
  IF current.status = "ACTIVE" /\ r.quantity < current.quantity
  THEN Outcome("REDUCE", Active(r.key, current.quantity - r.quantity,
                                current.entry, complete))
  ELSE Outcome("CLOSE", Flat(complete))

\* REDUCE and DECREASE.  With a complete history nothing can be reduced below
\* zero; with an incomplete one a reduction too large says it is incomplete.
Decreased(r, current, complete) ==
  LET excess == IF complete THEN Outcome("CLOSE", Flat(complete))
                            ELSE Outcome("REDUCE", Unknown)
  IN  CASE current.status # "ACTIVE" -> excess
        [] current.status = "ACTIVE"
             /\ NoQuantity \in {current.quantity, r.quantity} ->
             Outcome("REDUCE", Active(r.key, NoQuantity, current.entry, complete))
        [] OTHER ->
             IF r.quantity > current.quantity THEN excess
             ELSE IF r.quantity = current.quantity
             THEN Outcome("CLOSE", Flat(complete))
             ELSE Outcome("REDUCE", Active(r.key, current.quantity - r.quantity,
                                           current.entry, complete))

\* The positions a REVERSE of key k ends: the active ones of the same symbol.
Opposite(k, positions) ==
  {j \in Keys \ {k} : j[1] = k[1] /\ positions[j].status = "ACTIVE"}

Reversed(r, positions, complete) ==
  Outcome("REVERSE",
          IF r.key[2] \in Directed /\ Opposite(r.key, positions) # {}
          THEN Active(r.key, r.quantity, r.price, complete) ELSE Unknown)

ApplyRecord(r, positions, complete) ==
  LET current == positions[r.key]
  IN  CASE r.operation = "OPEN" ->
             Outcome("OPEN", Active(r.key, r.quantity, r.price, complete))
        [] r.operation \in {"ADD", "INCREASE"} -> Increased(r, current, complete)
        [] r.operation \in {"REDUCE", "DECREASE"} -> Decreased(r, current, complete)
        [] r.operation = "CLOSE" -> Outcome("CLOSE", Flat(complete))
        [] r.operation = "REVERSE" -> Reversed(r, positions, complete)

\* The positions after the record, those a REVERSE ends included.
PositionsAfter(r, positions, complete) ==
  [j \in Keys |->
     IF j = r.key THEN ApplyRecord(r, positions, complete).position
     ELSE IF /\ r.operation = "REVERSE" /\ r.key[2] \in Directed
             /\ j \in Opposite(r.key, positions)
     THEN Flat(complete)
     ELSE positions[j]]

-----------------------------------------------------------------------------
(* A ledger.                                                               *)

\* Of the revisions of a record the one observed last counts.
Superseded(r, R) ==
  \E q \in R : /\ q.id = r.id
               /\ \/ q.observed > r.observed
                  \/ q.observed = r.observed /\ q.revision > r.revision
Effective(R) == {r \in R : ~Superseded(r, R)}
Corrected(r, R) == \E q \in R : q.id = r.id /\ q.revision # r.revision

\* Mutant of Before: the newest record is replayed first.
After(q, r) == r.time < q.time \/ (q.time = r.time /\ r.id < q.id)

\* Records are replayed in the order of time, ties in the order of their ids.
Before(q, r) == q.time < r.time \/ (q.time = r.time /\ q.id < r.id)
Nth(R, n) == CHOOSE r \in R : Cardinality({q \in R : Before(q, r)}) = n - 1

NoPositions == [k \in Keys |-> Missing]

\* The positions after each record of the ledger R.
History(R, complete) ==
  LET E == Effective(R)
      h[n \in 0..Cardinality(E)] ==
        IF n = 0 THEN NoPositions
        ELSE PositionsAfter(Nth(E, n), h[n - 1], complete)
  IN  h

Positions(R, complete) ==
  History(R, complete)[Cardinality(Effective(R))]

\* The label of each effective record.
Action(r, R, complete) ==
  LET n == Cardinality({q \in Effective(R) : Before(q, r)})
  IN  IF Corrected(r, R) THEN "CORRECTION"
      ELSE ApplyRecord(r, History(R, complete)[n], complete).action

\* What a position is worth at a mark price that is there or not; a value is
\* there or not.
ValuePosition(p, mark) ==
  LET valued == p.status = "ACTIVE" /\ p.quantity # NoQuantity /\ mark
  IN  [estimate |-> p, mark |-> mark, notional |-> valued,
       pnl |-> valued /\ p.entry # NoPrice]

\* mark_trade_positions_unknown and mark_trade_positions_stale, for one position.
Forget(v) == [v EXCEPT !.estimate = Unknown, !.notional = FALSE, !.pnl = FALSE]
Stale(v) == [v EXCEPT !.estimate.status = "STALE"]

\* Mutant of Signature: the entry price is not looked at.
SignatureWithoutPrice(p) == IF p = Missing THEN <<"FLAT", 0, NoPrice>>
                            ELSE <<p.side, p.quantity, NoPrice>>

\* What two ledgers' positions differ in, for the notification of a batch.
Signature(p) == IF p = Missing THEN <<"FLAT", 0, NoPrice>>
                ELSE <<p.side, p.quantity, p.entry>>
PositionChanges(before, after) ==
  {k \in Keys : Signature(before[k]) # Signature(after[k])}

=============================================================================
