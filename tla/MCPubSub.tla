------------------------------ MODULE MCPubSub ------------------------------
(***************************************************************************)
(* PubSub for TLC.                                                         *)
(***************************************************************************)
EXTENDS PubSub

CONSTANTS c1, c2, s1, s2

Scenario(iu, m, cr, q, se) ==
  [Up |-> iu, First |-> s1, Messages |-> m, Crashes |-> cr, Quiet |-> q, Serial |-> se]

Orderly == Scenario({s1}, 3, 0, TRUE, TRUE)
Racing  == Scenario({s1}, 2, 0, FALSE, FALSE)
Crashes == Scenario({s1, s2}, 2, 1, TRUE, TRUE)
MCScenarios == {Orderly, Racing, Crashes}
MCCrashes == {Crashes}
\* A commit while EXISTS is handled; one while SUBSCRIBE is; two subscribers.
MCOverlap == {Scenario({s1}, 2, 0, TRUE, FALSE)}
MCEarly   == {Scenario({s1}, 2, 0, FALSE, TRUE)}
MCTwo     == {Scenario({s1}, 2, 0, TRUE, TRUE)}
=============================================================================
