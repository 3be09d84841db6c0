------------------------- MODULE MCServerCrawler -------------------------
(* Instance of ServerCrawler for TLC. *)
EXTENDS ServerCrawler

Site(platform, collectors, posts) ==
  [platform |-> platform, collectors |-> collectors, limit |-> 2, posts |-> posts]

\* More posts than a page shows; a page in the other order; a second collector.
MCSites == {Site("x", 1, 3), Site("binance_square", 1, 2), Site("x", 2, 2)}

=============================================================================
