------------------------- MODULE MCAccountConnection -------------------------
(***************************************************************************)
(* AccountConnection with one account.                                     *)
(***************************************************************************)
EXTENDS AccountConnection
=============================================================================
