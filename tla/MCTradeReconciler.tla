-------------------------- MODULE MCTradeReconciler --------------------------
(***************************************************************************)
(* Ledgers for TLC.  Of the provider: trades at the same time and at       *)
(* different times; trades with a correction that moves them, observed     *)
(* before or after what it corrects.  Of trades that cost nothing.  Of     *)
(* every operation, side and quantity a record may have.                   *)
(***************************************************************************)
EXTENDS ReconciledLedgers

MCKeys == {<<"BTC", "LONG">>, <<"BTC", "SHORT">>, <<"BTC", "UNKNOWN">>}

Provided ==
  [ids |-> 1..4, revisions |-> {1}, times |-> {1, 2}, observed |-> {1},
   operations |-> {"INCREASE", "DECREASE"}, keys |-> {<<"BTC", "LONG">>},
   quantities |-> {1, 2}, prices |-> {1}]

MCFamilies ==
  {Provided,
   [Provided EXCEPT !.ids = 1..2, !.revisions = {1, 2}, !.observed = {1, 2}],
   [Provided EXCEPT !.ids = 1..3, !.revisions = {1, 2}, !.quantities = {1}],
   [Provided EXCEPT !.times = {1}, !.operations = {"OPEN", "INCREASE", "DECREASE"},
                    !.prices = {0, 1}],
   [Provided EXCEPT !.ids = 1..3, !.times = {1}, !.operations = Operations,
                    !.keys = MCKeys, !.quantities = {1, 2, NoQuantity}]}

=============================================================================
