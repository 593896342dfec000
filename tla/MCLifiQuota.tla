---------------------------- MODULE MCLifiQuota ----------------------------
(***************************************************************************)
(* Instances of LifiQuota for TLC.                                         *)
(***************************************************************************)
EXTENDS LifiQuota
=============================================================================
