---------------------------- MODULE MCQuoteJobs ----------------------------
(***************************************************************************)
(* Instances of QuoteJobs for TLC.                                         *)
(***************************************************************************)
EXTENDS QuoteJobs
=============================================================================
