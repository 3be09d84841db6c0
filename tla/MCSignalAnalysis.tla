--------------------------- MODULE MCSignalAnalysis ---------------------------
(***************************************************************************)
(* Posts 1 and 3 are the trades of a batch.  Post 2, which the crawler may *)
(* bring, arrives between them.  Post 4 is a trade that changed nothing.   *)
(***************************************************************************)
EXTENDS SignalAnalysis

MCPosts == 1..4
MCFewPosts == 1..3
MCRules == {1, 2}
MCOneRule == {1}
TradesAround ==
  [p \in Posts |-> CASE p \in {1, 3} -> "trades" [] p = 2 -> "none"
                     [] p = 4 -> "quiet"]
WantMost == {<<1, 1>>, <<2, 1>>, <<3, 2>>, <<4, 1>>, <<4, 2>>}
WantFew == MCFewPosts \X Rules

=============================================================================
