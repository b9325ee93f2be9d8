----------------------------- MODULE MCSkipList -----------------------------
(* The instance of SkipList that TLC checks: SkipList.cfg gives the values. *)
EXTENDS SkipList
=============================================================================
