----------------------------- MODULE MCOnuOrder -----------------------------
(***************************************************************************)
(* A small instance of OnuOrder: the slots are interchangeable.            *)
(***************************************************************************)
EXTENDS OnuOrder, TLC

MCSymmetry == Permutations(Slots)
=============================================================================
