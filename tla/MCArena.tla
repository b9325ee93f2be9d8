------------------------------ MODULE MCArena -------------------------------
(* Model-checking instances of Arena.                                      *)
EXTENDS Arena
=============================================================================
