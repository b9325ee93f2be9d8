--------------------------- MODULE MCRandomAccess ---------------------------
(* Model-checking instances of RandomAccess.                               *)
EXTENDS RandomAccess, TLC

CONSTANTS f1, f2

(* An empty file, which cannot be mapped, and one that is not empty.       *)
Lengths == (f1 :> 0) @@ (f2 :> 1)

=============================================================================
