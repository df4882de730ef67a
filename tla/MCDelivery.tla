----------------------------- MODULE MCDelivery -----------------------------
(***************************************************************************)
(* The worker of module Delivery with links that TLC may exchange for one  *)
(* another.                                                                *)
(***************************************************************************)
EXTENDS Delivery, TLC

LinkSymmetry == Permutations(Links)
=============================================================================
