------------------------- MODULE MCBackgroundThread -------------------------
(* The instance of BackgroundThread that TLC checks.                       *)
EXTENDS BackgroundThread
=============================================================================
