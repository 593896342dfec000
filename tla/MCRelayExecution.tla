------------------------- MODULE MCRelayExecution -------------------------
(***************************************************************************)
(* Instances of RelayExecution for TLC.                                    *)
(***************************************************************************)
EXTENDS RelayExecution
=============================================================================
