--------------------------- MODULE MCZabBroadcast ---------------------------
(***************************************************************************)
(* Three servers: the coordinator s1 and the followers s2 and s3.  One     *)
(* request comes from a follower and one from the coordinator, so that     *)
(* proposals overlap and one of the senders is the coordinator itself.     *)
(***************************************************************************)
EXTENDS ZabBroadcast

CONSTANTS s1, s2, s3, r1, r2

MCServer  == {s1, s2, s3}
MCRequest2 == {r1, r2}
MCOrigin2  == [r \in MCRequest2 |-> IF r = r1 THEN s2 ELSE s1]
=============================================================================
