--------------------------- MODULE MCCollectorCycle ---------------------------
(***************************************************************************)
(* Two platforms, with trade subscription 1 and the ordinary one, 2; or one *)
(* platform, shared by trade subscription 1 and one or two ordinary ones.  *)
(***************************************************************************)
EXTENDS CollectorCycle

MCSubs == {1, 2}
MCThreeSubs == {1, 2, 3}
MCPlatforms == {1, 2}
MCOnePlatform == {1}
SamePlatform == [s \in Subs |-> 1]
OwnPlatform == [s \in Subs |-> s]
MCInterval == [s \in Subs |-> IF s = 3 THEN 1 ELSE s]

=============================================================================
