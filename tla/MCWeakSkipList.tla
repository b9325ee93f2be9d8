--------------------------- MODULE MCWeakSkipList ---------------------------
(* Model-checking instance of WeakSkipList.                                *)
EXTENDS WeakSkipList, TLC

(* Readers are only names.                                                 *)
ReaderSymmetry == Permutations(Readers)
=============================================================================
