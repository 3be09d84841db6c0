---------------------------- MODULE MCTradeLedger ----------------------------
(***************************************************************************)
(* One key; a page of three orders in a window of three moments, both too  *)
(* small for what five moments can hold: every kind of history gap occurs, *)
(* and a page still has room for an order and for two whose effects on the *)
(* quantity cancel.  Keys meet only in the page, which one key fills too.  *)
(***************************************************************************)
EXTENDS TradeLedger

\* Each moment has its price; it rises and falls.
MCPrices == [t \in 1..EndOfTime |-> IF t % 2 = 1 THEN {12} ELSE {24}]
MCOneKey == {<<"BTC", "LONG">>}

=============================================================================
