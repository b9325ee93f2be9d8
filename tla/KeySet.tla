------------------------------- MODULE KeySet -------------------------------
(***************************************************************************)
(* What SkipList<Key, Comparator> promises its callers (db/SkipList.h,     *)
(* the comments of Insert and Contains): a set of keys, one thread that    *)
(* inserts, and any number of threads that ask, concurrently and without a *)
(* lock, whether a key is in the set.  Every call takes effect at one      *)
(* instant between its invocation and its return.                          *)
(***************************************************************************)
CONSTANTS
  Keys,      (* the keys that may be inserted or asked for                 *)
  Readers,   (* the threads that call Contains                             *)
  Writer,    (* the thread that calls Insert                               *)
  None       (* the argument of a thread that is between two calls         *)

VARIABLES
  set,       (* the keys in the list                                       *)
  phase,     (* how far each thread's current call has got                 *)
  arg,       (* the key each thread's current call was given               *)
  answer     (* what each reader's last Contains returned                  *)

vars == <<set, phase, arg, answer>>

Threads == Readers \cup {Writer}

Init ==
  /\ set = {}
  /\ phase = [t \in Threads |-> "idle"]
  /\ arg = [t \in Threads |-> None]
  /\ answer = [r \in Readers |-> "no"]

(* A thread enters Insert(k) or Contains(k).                               *)
Call(t, k) ==
  /\ phase[t] = "idle"
  /\ t = Writer => k \notin set
  /\ phase' = [phase EXCEPT ![t] = "called"]
  /\ arg' = [arg EXCEPT ![t] = k]
  /\ UNCHANGED <<set, answer>>

(* The instant at which a key becomes visible to every later Contains.     *)
TakeEffect ==
  /\ phase[Writer] = "called"
  /\ set' = set \cup {arg[Writer]}
  /\ phase' = [phase EXCEPT ![Writer] = "done"]
  /\ UNCHANGED <<arg, answer>>

(* The instant at which Contains decides.                                  *)
Decide(r) ==
  /\ phase[r] = "called"
  /\ phase' = [phase EXCEPT ![r] = IF arg[r] \in set THEN "yes" ELSE "no"]
  /\ UNCHANGED <<set, arg, answer>>

ReturnInsert ==
  /\ phase[Writer] = "done"
  /\ phase' = [phase EXCEPT ![Writer] = "idle"]
  /\ arg' = [arg EXCEPT ![Writer] = None]
  /\ UNCHANGED <<set, answer>>

ReturnContains(r) ==
  /\ phase[r] \in {"yes", "no"}
  /\ answer' = [answer EXCEPT ![r] = phase[r]]
  /\ phase' = [phase EXCEPT ![r] = "idle"]
  /\ arg' = [arg EXCEPT ![r] = None]
  /\ UNCHANGED set

Next ==
  \/ \E t \in Threads, k \in Keys : Call(t, k)
  \/ TakeEffect
  \/ ReturnInsert
  \/ \E r \in Readers : Decide(r) \/ ReturnContains(r)

Spec == Init /\ [][Next]_vars
=============================================================================
