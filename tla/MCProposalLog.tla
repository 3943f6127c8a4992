---------------------------- MODULE MCProposalLog ----------------------------
(***************************************************************************)
(* ProposalLog for TLC: records of four and five bytes.                    *)
(***************************************************************************)
EXTENDS ProposalLog

MCSizes4 == <<1, 2, 1, 1>>
MCSizes6 == <<1, 1, 1, 1, 1, 1>>
=============================================================================
