-------------------------- MODULE MCRoutePlanning --------------------------
(***************************************************************************)
(* Instances of RoutePlanning for TLC.                                     *)
(***************************************************************************)
EXTENDS RoutePlanning, TLC

BothTargets == <<"near", "far">>
OneTarget == <<"near">>
Values == "a" :> 10 @@ "b" :> 20
=============================================================================
