----------------------------- MODULE MCChannel -----------------------------
(***************************************************************************)
(* Channel with its threads and items as model values, in the shape the    *)
(* program gives it: several gateways, one device, one closer.             *)
(***************************************************************************)
EXTENDS Channel
=============================================================================
