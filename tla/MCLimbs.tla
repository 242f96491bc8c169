------------------------------- MODULE MCLimbs -------------------------------
(***************************************************************************)
(* Limbs of four bits, and a prime a little below a word of eight as the   *)
(* modulus of the code is below one of 128.                                *)
(***************************************************************************)
EXTENDS LimbField
=============================================================================
