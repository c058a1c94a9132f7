------------------------------ MODULE MCBulker ------------------------------
(***************************************************************************)
(* Bulker on small instances.                                              *)
(***************************************************************************)
EXTENDS Bulker

\* A message without payload, one that fits with another, one that is too long.
SmallSizes == {0, 2, 5}
=============================================================================
