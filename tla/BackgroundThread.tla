-------------------------- MODULE BackgroundThread --------------------------
(***************************************************************************)
(* PosixEnv::Schedule and PosixEnv::BGThread of db/Env_posix.cpp: a deque  *)
(* of items, guarded by a mutex, that callers fill and one background      *)
(* thread drains; a condition variable on which that thread waits for the  *)
(* deque to fill.  The functions run outside the mutex and may themselves  *)
(* call Schedule.                                                          *)
(*                                                                         *)
(* Every pthread call and every access to the deque is an action, so that  *)
(* the threads interleave at each of them.  The mutex and the condition    *)
(* variable behave as POSIX says: wait releases the mutex and joins the    *)
(* waiters atomically, signal moves one waiter (if any) back to competing  *)
(* for the mutex, and a wait may also end without a signal.                *)
(***************************************************************************)
EXTENDS Naturals, Sequences

CONSTANTS
  Items,      (* what is scheduled: one item per call of Schedule          *)
  Callers,    (* threads of the program that call Schedule                 *)
  Workers,    (* the threads pthread_create can hand out                   *)
  None

ASSUME BackgroundAssumption ==
  /\ Callers \cap Workers = {}
  /\ Workers # {}
  /\ None \notin Items \cup Callers \cup Workers

Threads == Callers \cup Workers

VARIABLES
  mu,         (* the thread that holds mu_, or None                        *)
  started,    (* started_bgthread_                                         *)
  queue,      (* queue_                                                    *)
  call,       (* where each thread is inside Schedule, or "out"            *)
  arg,        (* the item each thread's Schedule was given                 *)
  bg,         (* where each worker is inside BGThread                      *)
  item,       (* the item each worker has taken from the queue             *)
  asked,      (* the items Schedule has been called with                   *)
  finished    (* the items whose function has returned                     *)

vars == <<mu, started, queue, call, arg, bg, item, asked, finished>>

Init ==
  /\ mu = None
  /\ started = FALSE
  /\ queue = <<>>
  /\ call = [t \in Threads |-> "out"]
  /\ arg = [t \in Threads |-> None]
  /\ bg = [w \in Workers |-> "unborn"]
  /\ item = [w \in Workers |-> None]
  /\ asked = {}
  /\ finished = {}

-----------------------------------------------------------------------------
(* Mutants of the definitions below, each a plausible slip in the code.    *)

(* started_bgthread_ is never set.                                         *)
StartThreadAlways(t) ==
  /\ call[t] = "start"
  /\ IF \E w \in Workers : bg[w] = "unborn"
     THEN \E w \in Workers : bg[w] = "unborn" /\ bg' = [bg EXCEPT ![w] = "lock"]
     ELSE UNCHANGED bg
  /\ call' = [call EXCEPT ![t] = "signal"]
  /\ UNCHANGED <<mu, started, queue, arg, item, asked, finished>>

(* The test before the signal is the wrong way round.                      *)
SignalUnlessEmpty(t) ==
  /\ call[t] = "signal"
  /\ IF queue # <<>> /\ \E w \in Workers : bg[w] = "wait"
     THEN \E w \in Workers : bg[w] = "wait" /\ bg' = [bg EXCEPT ![w] = "lock"]
     ELSE UNCHANGED bg
  /\ call' = [call EXCEPT ![t] = "push"]
  /\ UNCHANGED <<mu, started, queue, arg, item, asked, finished>>

-----------------------------------------------------------------------------
(* Schedule(function, arg).  A worker can call it only from a function.    *)
ScheduleCall(t, i) ==
  /\ call[t] = "out"
  /\ t \in Workers => bg[t] = "run"
  /\ i \notin asked
  /\ call' = [call EXCEPT ![t] = "lock"]
  /\ arg' = [arg EXCEPT ![t] = i]
  /\ asked' = asked \cup {i}
  /\ UNCHANGED <<mu, started, queue, bg, item, finished>>

ScheduleLock(t) ==
  /\ call[t] = "lock"
  /\ mu = None
  /\ mu' = t
  /\ call' = [call EXCEPT ![t] = "start"]
  /\ UNCHANGED <<started, queue, arg, bg, item, asked, finished>>

(* Start the background thread if necessary.                               *)
StartThread(t) ==
  /\ call[t] = "start"
  /\ IF started
     THEN UNCHANGED bg
     ELSE \E w \in Workers : bg[w] = "unborn" /\ bg' = [bg EXCEPT ![w] = "lock"]
  /\ started' = TRUE
  /\ call' = [call EXCEPT ![t] = "signal"]
  /\ UNCHANGED <<mu, queue, arg, item, asked, finished>>

(* If the queue is empty the background thread may be waiting.             *)
Signal(t) ==
  /\ call[t] = "signal"
  /\ IF queue = <<>> /\ \E w \in Workers : bg[w] = "wait"
     THEN \E w \in Workers : bg[w] = "wait" /\ bg' = [bg EXCEPT ![w] = "lock"]
     ELSE UNCHANGED bg
  /\ call' = [call EXCEPT ![t] = "push"]
  /\ UNCHANGED <<mu, started, queue, arg, item, asked, finished>>

Push(t) ==
  /\ call[t] = "push"
  /\ queue' = Append(queue, arg[t])
  /\ call' = [call EXCEPT ![t] = "unlock"]
  /\ UNCHANGED <<mu, started, arg, bg, item, asked, finished>>

ScheduleUnlock(t) ==
  /\ call[t] = "unlock"
  /\ mu' = None
  /\ call' = [call EXCEPT ![t] = "out"]
  /\ arg' = [arg EXCEPT ![t] = None]
  /\ UNCHANGED <<started, queue, bg, item, asked, finished>>

-----------------------------------------------------------------------------
(* BGThread.  A thread comes to "lock" at the top of the loop and when its *)
(* wait has ended: in both cases it needs the mutex to look at the queue.  *)
BGLock(w) ==
  /\ bg[w] = "lock"
  /\ mu = None
  /\ mu' = w
  /\ bg' = [bg EXCEPT ![w] = "check"]
  /\ UNCHANGED <<started, queue, call, arg, item, asked, finished>>

BGWait(w) ==
  /\ bg[w] = "check"
  /\ queue = <<>>
  /\ mu' = None
  /\ bg' = [bg EXCEPT ![w] = "wait"]
  /\ UNCHANGED <<started, queue, call, arg, item, asked, finished>>

SpuriousWakeup(w) ==
  /\ bg[w] = "wait"
  /\ bg' = [bg EXCEPT ![w] = "lock"]
  /\ UNCHANGED <<mu, started, queue, call, arg, item, asked, finished>>

BGTake(w) ==
  /\ bg[w] = "check"
  /\ queue # <<>>
  /\ item' = [item EXCEPT ![w] = Head(queue)]
  /\ queue' = Tail(queue)
  /\ bg' = [bg EXCEPT ![w] = "unlock"]
  /\ UNCHANGED <<mu, started, call, arg, asked, finished>>

BGUnlock(w) ==
  /\ bg[w] = "unlock"
  /\ mu' = None
  /\ bg' = [bg EXCEPT ![w] = "run"]
  /\ UNCHANGED <<started, queue, call, arg, item, asked, finished>>

(* The function returns, from wherever its calls of Schedule have led it.  *)
BGReturn(w) ==
  /\ bg[w] = "run"
  /\ call[w] = "out"
  /\ finished' = finished \cup {item[w]}
  /\ item' = [item EXCEPT ![w] = None]
  /\ bg' = [bg EXCEPT ![w] = "lock"]
  /\ UNCHANGED <<mu, started, queue, call, arg, asked>>

-----------------------------------------------------------------------------
ScheduleStep(t) ==
  ScheduleLock(t) \/ StartThread(t) \/ Signal(t) \/ Push(t) \/ ScheduleUnlock(t)

BGStep(w) == BGLock(w) \/ BGWait(w) \/ BGTake(w) \/ BGUnlock(w) \/ BGReturn(w)

Next ==
  \/ \E t \in Threads : ScheduleStep(t) \/ \E i \in Items : ScheduleCall(t, i)
  \/ \E w \in Workers : BGStep(w) \/ SpuriousWakeup(w)

Spec == Init /\ [][Next]_vars

(* A thread that is inside Schedule, or inside BGThread and not waiting,   *)
(* keeps running, and every scheduled function returns.  A thread that     *)
(* asks for the mutex again and again finds it free again and again, so it *)
(* is not overtaken forever: strong fairness.  No fairness is asked of     *)
(* spurious wakeups: the program may not rely on them.                     *)
Fairness ==
  /\ \A t \in Threads : WF_vars(ScheduleStep(t)) /\ SF_vars(ScheduleLock(t))
  /\ \A w \in Workers : WF_vars(BGStep(w)) /\ SF_vars(BGLock(w))

FairSpec == Spec /\ Fairness

-----------------------------------------------------------------------------
(* Properties.                                                             *)

(* The variables of PosixEnv and of its threads keep their shapes.         *)
TypeOK ==
  /\ mu \in Threads \cup {None}
  /\ started \in BOOLEAN
  /\ queue \in Seq(Items)
  /\ call \in [Threads -> {"out", "lock", "start", "signal", "push", "unlock"}]
  /\ arg \in [Threads -> Items \cup {None}]
  /\ bg \in [Workers -> {"unborn", "lock", "check", "wait", "unlock", "run"}]
  /\ item \in [Workers -> Items \cup {None}]
  /\ asked \subseteq Items
  /\ finished \subseteq asked

(* A thread is between a lock and the unlock that follows it.              *)
InSchedule(t) == call[t] \in {"start", "signal", "push", "unlock"}
InLoop(w) == bg[w] \in {"check", "unlock"}

(* mu_ is held by exactly the thread that is in a critical section, and    *)
(* never across the call of a scheduled function: a function that calls    *)
(* Schedule (Env_posix.cpp:587-588) does not find its own thread holding   *)
(* the mutex.                                                              *)
MutexHeld ==
  \A t \in Threads : mu = t <=> InSchedule(t) \/ (t \in Workers /\ InLoop(t))

(* No wakeup is lost: while the background thread waits the queue is       *)
(* empty, although Schedule signals before it pushes (Env_posix.cpp:560-   *)
(* 570) and only if it found the queue empty.                              *)
NoLostWakeup == (\E w \in Workers : bg[w] = "wait") => queue = <<>>

(* The items run once each, one at a time, in the order of the pushes,     *)
(* whichever threads schedule them and however the first calls of Schedule *)
(* race to start the background thread.                                    *)
Running == {item[w] : w \in Workers} \ {None}

Abstract == INSTANCE Executor WITH pending <- queue, running <- Running

ImplementsExecutor == Abstract!Spec

(* Every item Schedule was called with is run to its end.                  *)
EveryItemRuns == \A i \in Items : i \in asked ~> i \in finished
=============================================================================
