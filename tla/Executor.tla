------------------------------ MODULE Executor ------------------------------
(***************************************************************************)
(* What Env::Schedule gives its callers in PosixEnv (db/Env.h:51-56, the   *)
(* doc "run function(arg) once in a background thread", and the one     *)
(* thread PosixEnv starts for it): the accepted items are run once each,   *)
(* one at a time, in the order in which they were accepted.                *)
(***************************************************************************)
EXTENDS Naturals, Sequences

CONSTANT Items    (* calls of Schedule, each with its function and arg     *)

VARIABLES
  pending,        (* accepted and not yet started, oldest first            *)
  running,        (* the items whose function is being run                 *)
  finished        (* the items whose function has returned                 *)

vars == <<pending, running, finished>>

Accepted == {pending[n] : n \in 1..Len(pending)} \cup running \cup finished

Init == pending = <<>> /\ running = {} /\ finished = {}

Accept(i) ==
  /\ i \notin Accepted
  /\ pending' = Append(pending, i)
  /\ UNCHANGED <<running, finished>>

Start ==
  /\ running = {}
  /\ pending # <<>>
  /\ running' = {Head(pending)}
  /\ pending' = Tail(pending)
  /\ UNCHANGED finished

Finish ==
  /\ running # {}
  /\ finished' = finished \cup running
  /\ running' = {}
  /\ UNCHANGED pending

Next == (\E i \in Items : Accept(i)) \/ Start \/ Finish

Spec == Init /\ [][Next]_vars
=============================================================================
