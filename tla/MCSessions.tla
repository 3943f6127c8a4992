----------------------------- MODULE MCSessions -----------------------------
(***************************************************************************)
(* Sessions for TLC.                                                       *)
(***************************************************************************)
EXTENDS Sessions

CONSTANT c1

Scenario(rq, el, cr, cc, iu, co, fu) ==
  [Requests |-> rq, MaxElections |-> el, MaxCrashes |-> cr, MaxClientCrashes |-> cc,
   InitiallyUp |-> iu, Coordinator |-> co, FreeUsers |-> fu]

\* A former follower becomes coordinator before its syncListener has run.
Expire == Scenario(2, 2, 0, 1, {1, 2}, 2, TRUE)
\* A server crashes: the one of the client, which moves to another, or the
\* coordinator, and requests are sent again to a new one.
Failover == Scenario(3, 1, 1, 0, {1, 2, 3}, 2, FALSE)

\* A client dies with its server.
Orphan == Scenario(2, 1, 1, 1, {1, 2, 3}, 2, FALSE)

MCOrphan == {Orphan}
MCExpire == {Expire}
MCFailover == {Failover}
MCScenarios == {Expire, Failover}
=============================================================================
