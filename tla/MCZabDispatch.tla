--------------------------- MODULE MCZabDispatch ---------------------------
(***************************************************************************)
(* ZabDispatch for TLC: a coordinator with two followers and three writes, *)
(* one of them its own.                                                    *)
(***************************************************************************)
EXTENDS ZabDispatch

CONSTANTS f1, f2, r1, r2, r3

MCFollower == {f1, f2}
MCRequest2 == {r1, r2}
MCRequest3 == {r1, r2, r3}
MCOwn      == {r1}
=============================================================================
