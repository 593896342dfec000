---------------------------- MODULE MCCollection ----------------------------
EXTENDS Collection

MCChain(a) == IF a = "native2" THEN 2 ELSE 1
Entry_(s, relay, via) == [status |-> s, relay |-> relay, via |-> via]
MCOffers(a) ==
  CASE a = "token1" -> {Entry_("ready", FALSE, 2), Entry_("retry", FALSE, 0)}
    [] a = "native1" -> {Entry_("ready", FALSE, 2), Entry_("ready", TRUE, 0)}
    [] OTHER -> {Entry_("ready", FALSE, 1)}
=============================================================================
