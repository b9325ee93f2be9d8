------------------------------ MODULE Cleanups ------------------------------
(***************************************************************************)
(* The functions an Iterator of db/Iterator.cpp runs when it is destroyed: *)
(* the first is kept in the iterator, the others in a list behind it.      *)
(***************************************************************************)
EXTENDS Integers, Sequences

(* A mutant: cleanup_.next is not handed on to the new node.               *)
RegisterAlone(cleanups, function) ==
  IF cleanups = <<>> THEN <<function>> ELSE <<Head(cleanups), function>>

RegisterCleanup(cleanups, function) ==
  IF cleanups = <<>> THEN <<function>>
  ELSE <<Head(cleanups), function>> \o Tail(cleanups)

(* What ~Iterator runs after these have been registered in this order.     *)
Destroyed(functions) ==
  LET cleanups[n \in 0..Len(functions)] ==
        IF n = 0 THEN <<>> ELSE RegisterCleanup(cleanups[n - 1], functions[n])
  IN cleanups[Len(functions)]

(* Every registered function is run as often as it was registered: the     *)
(* first one first, the others from the last to the second.                *)
RunsEach(functions) ==
  Destroyed(functions) =
    [i \in 1..Len(functions) |->
       IF i = 1 THEN functions[1] ELSE functions[Len(functions) + 2 - i]]
=============================================================================
