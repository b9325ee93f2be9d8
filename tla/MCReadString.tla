---------------------------- MODULE MCReadString ----------------------------
(* Model-checking instance of ReadString, and of WriteString inside it.    *)
EXTENDS ReadString, TLC

NameSymmetry == Permutations(Writers) \cup Permutations(Readers) \cup Permutations(Inodes)
=============================================================================
