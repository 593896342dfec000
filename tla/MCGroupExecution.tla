------------------------- MODULE MCGroupExecution -------------------------
(***************************************************************************)
(* Instances of GroupExecution for TLC.                                    *)
(***************************************************************************)
EXTENDS GroupExecution

BridgeDirectBridge == <<"bridge", "direct", "bridge">>

OneEach == [i \in Positions |-> 1]
=============================================================================
