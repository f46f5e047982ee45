------------------------------ MODULE MCUplink ------------------------------
(***************************************************************************)
(* Uplink with its threads and tokens as model values.                     *)
(***************************************************************************)
EXTENDS Uplink, TLC

Symmetry == Permutations(Users) \union Permutations(Tokens)
=============================================================================
