----------------------------- MODULE MCZabSync -----------------------------
(***************************************************************************)
(* ZabSync for TLC: three servers, of which 3 is the first coordinator;    *)
(* r1 is sent from the first coordinator and r2 from a server that may     *)
(* succeed it.                                                             *)
(***************************************************************************)
EXTENDS ZabSync

CONSTANTS r1, r2

MCRequest1 == {r1}
MCRequest2 == {r1, r2}
MCOrigin1  == [r \in MCRequest1 |-> 2]
MCOrigin2  == [r \in MCRequest2 |-> IF r = r1 THEN 3 ELSE 2]
=============================================================================
