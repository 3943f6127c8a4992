----------------------------- MODULE MCElection -----------------------------
(* Instances of Election for TLC.  The names are numbers, in the order in     *)
(* which their strings compare; server 2 has the longest log.                 *)
EXTENDS Election

MCServers4 == <<1, 2, 3, 4>>
MCZXID4 == [s \in 1..4 |-> IF s = 2 THEN 1 ELSE 0]

\* main: a crash at any moment, and a message lost on a broken connection.
LossyMain ==
  [Main |-> TRUE, OneAtATime |-> FALSE, InitiallyUp |-> 1..4,
   MaxBoots |-> 0, MaxCrashes |-> 1, MaxLost |-> 1]

\* zabFailureTest: a server enters and one crashes, one after the other.
Rejoin ==
  [Main |-> FALSE, OneAtATime |-> TRUE, InitiallyUp |-> 1..3,
   MaxBoots |-> 1, MaxCrashes |-> 1, MaxLost |-> 0]

\* main, when no message is lost.
Ring == [LossyMain EXCEPT !.MaxLost = 0]

MCElections == {LossyMain, Rejoin}
MCRing      == {Ring}
=============================================================================
