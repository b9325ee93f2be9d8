----------------------------- MODULE MCFileLock -----------------------------
(* Model-checking instances of FileLock.                                   *)
EXTENDS FileLock, TLC

CONSTANTS p1, p2, p3, c1, c2, c3, c4

(* Two processes open the database from one thread each and compete with   *)
(* a third one, whose two threads compete with each other as well.         *)
Mixed == (c1 :> p1) @@ (c2 :> p2) @@ (c3 :> p3) @@ (c4 :> p3)
=============================================================================
