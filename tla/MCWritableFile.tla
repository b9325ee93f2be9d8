--------------------------- MODULE MCWritableFile ---------------------------
(* Model-checking instances of WritableFile.                               *)
EXTENDS WritableFile, TLC

(* Inodes are only names; so are writers.                                  *)
WriterSymmetry == Permutations(Writers) \cup Permutations(Inodes)
=============================================================================
