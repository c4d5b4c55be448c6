------------------------------ MODULE MCMarket ------------------------------
(* One process with its scheduler, one console. *)
EXTENDS Market, TLC
=============================================================================
