---------------------------- MODULE MCScanStage ----------------------------
(***************************************************************************)
(* Instances of ScanStage for TLC.                                         *)
(***************************************************************************)
EXTENDS ScanStage

MCWallets == <<"w">>
=============================================================================
