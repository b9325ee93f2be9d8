----------------------------- MODULE LaggingSet -----------------------------
(***************************************************************************)
(* What is left of KeySet, the promise of SkipList, on a machine that      *)
(* reorders memory accesses: the keys form a log in the order of the calls *)
(* of Insert, and each reader answers from a prefix of that log.  The      *)
(* prefix may lag behind, also behind Inserts that have returned, but it   *)
(* never shrinks, and a reader that synchronizes with another thread gets  *)
(* at least the prefix of that thread.                                     *)
(***************************************************************************)
EXTENDS Naturals, Sequences

CONSTANTS
  Keys,      (* the keys that may be inserted or asked for                 *)
  Readers,   (* the threads that call Contains                             *)
  None       (* the argument of a thread that is between two calls         *)

VARIABLES
  log,       (* the keys, in the order of the calls of Insert              *)
  inserting, (* an Insert is under way                                     *)
  view,      (* the length of the prefix each reader answers from          *)
  phase,     (* how far each reader's current call has got                 *)
  arg        (* the key each reader's current call was given               *)

vars == <<log, inserting, view, phase, arg>>

Prefix(n) == {log[i] : i \in 1..n}

Init ==
  /\ log = <<>>
  /\ inserting = FALSE
  /\ view = [r \in Readers |-> 0]
  /\ phase = [r \in Readers |-> "idle"]
  /\ arg = [r \in Readers |-> None]

CallInsert(k) ==
  /\ ~inserting
  /\ k \notin Prefix(Len(log))
  /\ log' = Append(log, k)
  /\ inserting' = TRUE
  /\ UNCHANGED <<view, phase, arg>>

ReturnInsert ==
  /\ inserting
  /\ inserting' = FALSE
  /\ UNCHANGED <<log, view, phase, arg>>

CallContains(r, k) ==
  /\ phase[r] = "idle"
  /\ phase' = [phase EXCEPT ![r] = "called"]
  /\ arg' = [arg EXCEPT ![r] = k]
  /\ UNCHANGED <<log, inserting, view>>

(* The reader learns of some more Inserts, or of none, and decides.        *)
Decide(r) ==
  /\ phase[r] = "called"
  /\ \E n \in view[r]..Len(log) :
       /\ view' = [view EXCEPT ![r] = n]
       /\ phase' = [phase EXCEPT ![r] = IF arg[r] \in Prefix(n) THEN "yes" ELSE "no"]
  /\ UNCHANGED <<log, inserting, arg>>

ReturnContains(r) ==
  /\ phase[r] \in {"yes", "no"}
  /\ phase' = [phase EXCEPT ![r] = "idle"]
  /\ arg' = [arg EXCEPT ![r] = None]
  /\ UNCHANGED <<log, inserting, view>>

(* After a synchronization with the writer a reader knows all Inserts,     *)
(* after one with a reader all that one knows.                             *)
CatchUp(r) ==
  /\ ~inserting /\ phase[r] = "idle"
  /\ view' = [view EXCEPT ![r] = Len(log)]
  /\ UNCHANGED <<log, inserting, phase, arg>>

Learn(q, r) ==
  /\ phase[q] = "idle" /\ phase[r] = "idle"
  /\ view[q] > view[r]
  /\ view' = [view EXCEPT ![r] = view[q]]
  /\ UNCHANGED <<log, inserting, phase, arg>>

Next ==
  \/ \E k \in Keys : CallInsert(k)
  \/ ReturnInsert
  \/ \E r \in Readers :
       \/ \E k \in Keys : CallContains(r, k)
       \/ Decide(r) \/ ReturnContains(r) \/ CatchUp(r)
       \/ \E q \in Readers : Learn(q, r)

Spec == Init /\ [][Next]_vars
=============================================================================
