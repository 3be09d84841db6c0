------------------------ MODULE MCCollectorDelivery ------------------------
(***************************************************************************)
(* Two subscriptions whose posts have the same external ids.  In the first *)
(* instance they are on two platforms, so that a verdict about an id could *)
(* go to the wrong row; in the second on one, so that the server finds the *)
(* same post twice.                                                        *)
(***************************************************************************)
EXTENDS CollectorDelivery

MCSubs == {1, 2}
MCIds == 1..2
MCManyIds == 1..3
MCPlatforms == {"x", "square"}
TwoPlatforms == [s \in MCSubs |-> IF s = 1 THEN "x" ELSE "square"]
OnePlatform == [s \in MCSubs |-> "x"]
MCMalformed == {<<"square", 1>>}
MCMalformedX == {<<"x", 2>>}

=============================================================================
