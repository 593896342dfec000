---------------------------- MODULE MCRouteLegs ----------------------------
EXTENDS RouteLegs

Entry(s, a, w) == [shape |-> s, auto |-> a, weth |-> w]
MCEntries == {Entry("bridge", TRUE, FALSE), Entry("bridge", FALSE, FALSE),
              Entry("hop", TRUE, TRUE), Entry("hop", FALSE, FALSE),
              Entry("swap", TRUE, FALSE), Entry("canonical", TRUE, FALSE),
              Entry("unwrap", TRUE, FALSE)}
=============================================================================
