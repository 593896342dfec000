-------------------------- MODULE MCDirectDeposit --------------------------
(***************************************************************************)
(* Instances of DirectDeposit for TLC.                                     *)
(***************************************************************************)
EXTENDS DirectDeposit

AllKinds == {"plain", "ethereum", "celo", "scroll"}
NonGasKinds == {"plain", "celo", "scroll"}

Anywhere == Points

\* Everywhere but between the commit of a position's outcome and that of its
\* group.
BeforeOutcome == {"entry", "sign", "send", "receipt", "seen", "settle"}
=============================================================================
