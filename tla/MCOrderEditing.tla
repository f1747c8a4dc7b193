--------------------------- MODULE MCOrderEditing ---------------------------
(***************************************************************************)
(* Instances of OrderEditing for TLC: the calls of one requester, in       *)
(* sequence or overlapping.                                                *)
(***************************************************************************)
EXTENDS OrderEditing

CONSTANTS w1, w2
=============================================================================
