----------------------- MODULE BackgroundThreadProofs -----------------------
(***************************************************************************)
(* Proofs about BackgroundThread, for any number of callers, any items and *)
(* however many threads pthread_create could hand out.                     *)
(***************************************************************************)
EXTENDS BackgroundThread, TLAPS

(* The items in a queue.                                                   *)
Elements(q) == {q[n] : n \in 1..Len(q)}

(* At most one thread runs BGThread, and none before Schedule starts it.   *)
OneWorker ==
  /\ \A v, w \in Workers : bg[v] # "unborn" /\ bg[w] # "unborn" => v = w
  /\ ~started => \A w \in Workers : bg[w] = "unborn"

(* A worker calls Schedule only from the function it runs, and holds an    *)
(* item from the moment it takes it to the moment the function returns.    *)
WorkerInv ==
  \A w \in Workers :
    /\ call[w] # "out" => bg[w] = "run"
    /\ bg[w] \in {"unlock", "run"} <=> item[w] # None

(* A thread about to push has woken the background thread, if it waited.   *)
SignalInv ==
  \A t \in Threads, w \in Workers : call[t] = "push" => bg[w] # "wait"

(* The items in calls of Schedule that have not pushed yet are distinct    *)
(* and new.                                                                *)
Accepted == Elements(queue) \cup Running \cup finished

Bringing(t) == call[t] \in {"lock", "start", "signal", "push"}

ItemsInv ==
  /\ Accepted \subseteq asked
  /\ \A t \in Threads :
       Bringing(t) => arg[t] \in asked /\ arg[t] \notin Accepted
  /\ \A t, u \in Threads : Bringing(t) /\ Bringing(u) /\ arg[t] = arg[u] => t = u

IInv ==
  /\ TypeOK
  /\ MutexHeld
  /\ NoLostWakeup
  /\ OneWorker
  /\ WorkerInv
  /\ SignalInv
  /\ ItemsInv

-----------------------------------------------------------------------------
(* Pushing adds one item to a queue.                                       *)
LEMMA ElementsAppend ==
  ASSUME NEW S, NEW q \in Seq(S), NEW e \in S
  PROVE  Elements(Append(q, e)) = Elements(q) \cup {e}
<1>1. Len(Append(q, e)) = Len(q) + 1 /\ Len(q) \in Nat
  OBVIOUS
<1>2. \A n \in 1..Len(q) : Append(q, e)[n] = q[n]
  OBVIOUS
<1>3. Append(q, e)[Len(q) + 1] = e
  OBVIOUS
<1>4. 1..(Len(q) + 1) = 1..Len(q) \cup {Len(q) + 1}
  BY <1>1
<1>5. QED
  BY <1>1, <1>2, <1>3, <1>4 DEF Elements

(* The first item and the rest make up the queue.                          *)
LEMMA ElementsTail ==
  ASSUME NEW S, NEW q \in Seq(S), q # <<>>
  PROVE  Elements(q) = {Head(q)} \cup Elements(Tail(q))
<1>1. Len(q) \in Nat \ {0} /\ Len(Tail(q)) = Len(q) - 1 /\ Head(q) = q[1]
  OBVIOUS
<1>2. \A n \in 1..(Len(q) - 1) : Tail(q)[n] = q[n + 1]
  OBVIOUS
<1>3. ASSUME NEW n \in 1..Len(q) PROVE n = 1 \/ (n - 1 \in 1..(Len(q) - 1) /\ q[n] = Tail(q)[n - 1])
  BY <1>1, <1>2
<1> DEFINE t == Tail(q)
           h == Head(q)
<1> HIDE DEF t, h
<1>4. ASSUME NEW n \in 1..(Len(q) - 1) PROVE n + 1 \in 1..Len(q) /\ t[n] = q[n + 1]
  BY <1>1, <1>2 DEF t
<1>5. ASSUME NEW n \in 1..Len(q) PROVE q[n] = h \/ \E m \in 1..Len(t) : q[n] = t[m]
  BY <1>1, <1>3 DEF t, h
<1>6. Len(t) = Len(q) - 1 /\ h = q[1] /\ 1 \in 1..Len(q)
  BY <1>1 DEF t, h
<1>7. Elements(q) = {h} \cup Elements(t)
  BY <1>4, <1>5, <1>6 DEF Elements
<1>8. QED
  BY <1>7 DEF t, h

(* Nobody has called Schedule yet.                                         *)
LEMMA InitIInv == Init => IInv
<1> SUFFICES ASSUME Init PROVE IInv
  OBVIOUS
<1> USE BackgroundAssumption DEF Init, Threads
<1>1. TypeOK
  <2>1. queue \in Seq(Items)
    OBVIOUS
  <2>2. QED
    BY <2>1 DEF TypeOK
<1>2. MutexHeld
  BY DEF MutexHeld, InSchedule, InLoop
<1>3. NoLostWakeup /\ OneWorker /\ WorkerInv /\ SignalInv
  BY DEF NoLostWakeup, OneWorker, WorkerInv, SignalInv
<1>4. Accepted = {}
  BY DEF Accepted, Elements, Running
<1>5. ItemsInv
  BY <1>4 DEF ItemsInv, Bringing
<1>6. QED
  BY <1>1, <1>2, <1>3, <1>5 DEF IInv

(* A call brings an item that no call has brought before.                  *)
LEMMA ScheduleCallIInv ==
  ASSUME IInv, NEW t \in Threads, NEW i \in Items, ScheduleCall(t, i)
  PROVE  IInv'
<1> USE BackgroundAssumption DEF Threads
<1>1. /\ call[t] = "out" /\ i \notin asked
      /\ t \in Workers => bg[t] = "run"
      /\ call' = [call EXCEPT ![t] = "lock"]
      /\ arg' = [arg EXCEPT ![t] = i]
      /\ asked' = asked \cup {i}
      /\ UNCHANGED <<mu, started, queue, bg, item, finished>>
  BY DEF ScheduleCall
<1>2. /\ call'[t] = "lock" /\ arg'[t] = i
      /\ \A u \in Threads \ {t} : call'[u] = call[u] /\ arg'[u] = arg[u]
  BY <1>1 DEF IInv, TypeOK
<1>3. TypeOK'
  BY <1>1 DEF IInv, TypeOK
<1>4. MutexHeld'
  BY <1>1, <1>2 DEF IInv, MutexHeld, InSchedule, InLoop
<1>5. NoLostWakeup' /\ OneWorker'
  BY <1>1 DEF IInv, NoLostWakeup, OneWorker
<1>6. WorkerInv' /\ SignalInv'
  BY <1>1, <1>2 DEF IInv, WorkerInv, SignalInv
<1>7. ItemsInv'
  <2>1. Accepted' = Accepted
    BY <1>1 DEF Accepted, Running
  <2>2. \A u \in Threads \ {t} : Bringing(u)' <=> Bringing(u)
    BY <1>2 DEF Bringing
  <2>3. \A u \in Threads \ {t} : Bringing(u) => arg[u] # i
    BY <1>1 DEF IInv, ItemsInv
  <2>4. QED
    BY <1>1, <1>2, <2>1, <2>2, <2>3 DEF IInv, ItemsInv
<1>8. QED
  BY <1>3, <1>4, <1>5, <1>6, <1>7 DEF IInv

(* Only a thread that finds the mutex free takes it.                       *)
LEMMA ScheduleLockIInv ==
  ASSUME IInv, NEW t \in Threads, ScheduleLock(t)
  PROVE  IInv'
<1> USE BackgroundAssumption DEF Threads
<1>1. /\ call[t] = "lock" /\ mu = None /\ mu' = t
      /\ call' = [call EXCEPT ![t] = "start"]
      /\ UNCHANGED <<started, queue, arg, bg, item, asked, finished>>
  BY DEF ScheduleLock
<1>2. call'[t] = "start" /\ \A u \in Threads \ {t} : call'[u] = call[u]
  BY <1>1 DEF IInv, TypeOK
<1>3. TypeOK'
  BY <1>1 DEF IInv, TypeOK
<1>4. MutexHeld'
  BY <1>1, <1>2 DEF IInv, MutexHeld, InSchedule, InLoop
<1>5. NoLostWakeup' /\ OneWorker'
  BY <1>1 DEF IInv, NoLostWakeup, OneWorker
<1>6. WorkerInv' /\ SignalInv'
  BY <1>1, <1>2 DEF IInv, WorkerInv, SignalInv
<1>7. ItemsInv'
  <2>1. Accepted' = Accepted /\ \A u \in Threads : Bringing(u)' <=> Bringing(u)
    BY <1>1, <1>2 DEF Accepted, Running, Bringing
  <2>2. QED
    BY <1>1, <2>1 DEF IInv, ItemsInv
<1>8. QED
  BY <1>3, <1>4, <1>5, <1>6, <1>7 DEF IInv

(* The first call to get here, and no other, starts a thread.              *)
LEMMA StartThreadIInv ==
  ASSUME IInv, NEW t \in Threads, StartThread(t)
  PROVE  IInv'
<1> USE BackgroundAssumption DEF Threads
<1>1. /\ call[t] = "start" /\ started' = TRUE
      /\ call' = [call EXCEPT ![t] = "signal"]
      /\ UNCHANGED <<mu, queue, arg, item, asked, finished>>
  BY DEF StartThread
<1>2. call'[t] = "signal" /\ \A u \in Threads \ {t} : call'[u] = call[u]
  BY <1>1 DEF IInv, TypeOK
<1>3. /\ bg' \in [Workers -> {"unborn", "lock", "check", "wait", "unlock", "run"}]
      /\ \A w \in Workers : bg'[w] = bg[w] \/ (bg[w] = "unborn" /\ bg'[w] = "lock")
  BY DEF StartThread, IInv, TypeOK
<1>4. TypeOK'
  BY <1>1, <1>3 DEF IInv, TypeOK
<1>5. MutexHeld'
  BY <1>1, <1>2, <1>3 DEF IInv, MutexHeld, InSchedule, InLoop
<1>6. NoLostWakeup'
  BY <1>1, <1>3 DEF IInv, NoLostWakeup
<1>7. OneWorker'
  <2>1. CASE started
    BY <1>1, <2>1 DEF StartThread, IInv, OneWorker
  <2>2. CASE ~started
    <3>1. PICK w \in Workers : bg' = [bg EXCEPT ![w] = "lock"]
      BY <2>2 DEF StartThread
    <3>2. \A v \in Workers \ {w} : bg'[v] = "unborn"
      BY <2>2, <3>1 DEF IInv, OneWorker, TypeOK
    <3>3. QED
      BY <1>1, <3>2 DEF OneWorker
  <2>3. QED
    BY <2>1, <2>2
<1>8. WorkerInv' /\ SignalInv'
  BY <1>1, <1>2, <1>3 DEF IInv, WorkerInv, SignalInv
<1>9. ItemsInv'
  <2>1. Accepted' = Accepted /\ \A u \in Threads : Bringing(u)' <=> Bringing(u)
    BY <1>1, <1>2 DEF Accepted, Running, Bringing
  <2>2. QED
    BY <1>1, <2>1 DEF IInv, ItemsInv
<1>10. QED
  BY <1>4, <1>5, <1>6, <1>7, <1>8, <1>9 DEF IInv

(* After the signal the background thread does not wait: either it was     *)
(* woken or the queue was not empty, and then it was not waiting.          *)
LEMMA SignalIInv ==
  ASSUME IInv, NEW t \in Threads, Signal(t)
  PROVE  IInv'
<1> USE BackgroundAssumption DEF Threads
<1>1. /\ call[t] = "signal"
      /\ call' = [call EXCEPT ![t] = "push"]
      /\ UNCHANGED <<mu, started, queue, arg, item, asked, finished>>
  BY DEF Signal
<1>2. call'[t] = "push" /\ \A u \in Threads \ {t} : call'[u] = call[u]
  BY <1>1 DEF IInv, TypeOK
<1>3. /\ bg' \in [Workers -> {"unborn", "lock", "check", "wait", "unlock", "run"}]
      /\ \A w \in Workers : bg'[w] = bg[w] \/ (bg[w] = "wait" /\ bg'[w] = "lock")
  BY DEF Signal, IInv, TypeOK
<1>4. \A w \in Workers : bg'[w] # "wait"
  <2>1. CASE queue # <<>>
    BY <1>3, <2>1 DEF IInv, NoLostWakeup
  <2>2. CASE queue = <<>> /\ \E w \in Workers : bg[w] = "wait"
    <3>1. PICK w \in Workers : bg[w] = "wait" /\ bg' = [bg EXCEPT ![w] = "lock"]
      BY <2>2 DEF Signal
    <3>2. \A v \in Workers \ {w} : bg[v] = "unborn"
      BY <3>1 DEF IInv, OneWorker
    <3>3. QED
      BY <1>3, <3>1, <3>2 DEF IInv, TypeOK
  <2>3. CASE \A w \in Workers : bg[w] # "wait"
    BY <1>3, <2>3
  <2>4. QED
    BY <2>1, <2>2, <2>3
<1>5. TypeOK'
  BY <1>1, <1>3 DEF IInv, TypeOK
<1>6. MutexHeld'
  BY <1>1, <1>2, <1>3 DEF IInv, MutexHeld, InSchedule, InLoop
<1>7. NoLostWakeup' /\ SignalInv'
  BY <1>4 DEF NoLostWakeup, SignalInv
<1>8. OneWorker'
  BY <1>1, <1>3 DEF IInv, OneWorker
<1>9. WorkerInv'
  BY <1>1, <1>2, <1>3 DEF IInv, WorkerInv
<1>10. ItemsInv'
  <2>1. Accepted' = Accepted /\ \A u \in Threads : Bringing(u)' <=> Bringing(u)
    BY <1>1, <1>2 DEF Accepted, Running, Bringing
  <2>2. QED
    BY <1>1, <2>1 DEF IInv, ItemsInv
<1>11. QED
  BY <1>5, <1>6, <1>7, <1>8, <1>9, <1>10 DEF IInv

(* The item pushed was new, and nobody waits for it unwoken.               *)
LEMMA PushIInv ==
  ASSUME IInv, NEW t \in Threads, Push(t)
  PROVE  IInv'
<1> USE BackgroundAssumption DEF Threads
<1>1. /\ call[t] = "push" /\ queue' = Append(queue, arg[t])
      /\ call' = [call EXCEPT ![t] = "unlock"]
      /\ UNCHANGED <<mu, started, arg, bg, item, asked, finished>>
  BY DEF Push
<1>2. call'[t] = "unlock" /\ \A u \in Threads \ {t} : call'[u] = call[u]
  BY <1>1 DEF IInv, TypeOK
<1>3. Bringing(t) /\ queue \in Seq(Items) /\ arg[t] \in Items
  BY <1>1 DEF Bringing, IInv, ItemsInv, TypeOK
<1>4. queue' \in Seq(Items) /\ Elements(queue') = Elements(queue) \cup {arg[t]}
  BY <1>1, <1>3, ElementsAppend
<1>5. TypeOK'
  BY <1>1, <1>4 DEF IInv, TypeOK
<1>6. MutexHeld'
  BY <1>1, <1>2 DEF IInv, MutexHeld, InSchedule, InLoop
<1>7. NoLostWakeup' /\ SignalInv' /\ OneWorker'
  BY <1>1, <1>2 DEF IInv, SignalInv, NoLostWakeup, OneWorker
<1>8. WorkerInv'
  BY <1>1, <1>2 DEF IInv, WorkerInv
<1>9. ItemsInv'
  <2>1. Accepted' = Accepted \cup {arg[t]}
    BY <1>1, <1>4 DEF Accepted, Running
  <2>2. \A u \in Threads : Bringing(u)' <=> u # t /\ Bringing(u)
    BY <1>1, <1>2 DEF Bringing
  <2>3. \A u \in Threads : u # t /\ Bringing(u) => arg[u] # arg[t]
    BY <1>3 DEF IInv, ItemsInv
  <2>4. Accepted' \subseteq asked'
    BY <1>1, <1>3, <2>1 DEF IInv, ItemsInv
  <2>5. \A u \in Threads : Bringing(u)' => arg'[u] \in asked' /\ arg'[u] \notin Accepted'
    BY <1>1, <2>1, <2>2, <2>3 DEF IInv, ItemsInv
  <2>6. QED
    BY <1>1, <2>2, <2>4, <2>5 DEF IInv, ItemsInv
<1>10. QED
  BY <1>5, <1>6, <1>7, <1>8, <1>9 DEF IInv

(* Schedule gives the mutex back.                                          *)
LEMMA ScheduleUnlockIInv ==
  ASSUME IInv, NEW t \in Threads, ScheduleUnlock(t)
  PROVE  IInv'
<1> USE BackgroundAssumption DEF Threads
<1>1. /\ call[t] = "unlock" /\ mu' = None
      /\ call' = [call EXCEPT ![t] = "out"]
      /\ arg' = [arg EXCEPT ![t] = None]
      /\ UNCHANGED <<started, queue, bg, item, asked, finished>>
  BY DEF ScheduleUnlock
<1>2. /\ call'[t] = "out"
      /\ \A u \in Threads \ {t} : call'[u] = call[u] /\ arg'[u] = arg[u]
  BY <1>1 DEF IInv, TypeOK
<1>3. mu = t
  BY <1>1 DEF IInv, MutexHeld, InSchedule
<1>4. t \in Workers => bg[t] = "run"
  BY <1>1 DEF IInv, WorkerInv
<1>5. TypeOK'
  BY <1>1 DEF IInv, TypeOK
<1>6. MutexHeld'
  BY <1>1, <1>2, <1>3, <1>4 DEF IInv, MutexHeld, InSchedule, InLoop
<1>7. NoLostWakeup' /\ OneWorker'
  BY <1>1 DEF IInv, NoLostWakeup, OneWorker
<1>8. WorkerInv' /\ SignalInv'
  BY <1>1, <1>2 DEF IInv, WorkerInv, SignalInv
<1>9. ItemsInv'
  <2>1. Accepted' = Accepted
    BY <1>1 DEF Accepted, Running
  <2>2. \A u \in Threads : Bringing(u)' <=> Bringing(u)
    BY <1>1, <1>2 DEF Bringing
  <2>3. \A u \in Threads : Bringing(u) => arg'[u] = arg[u]
    BY <1>1, <1>2 DEF Bringing
  <2>4. QED
    BY <1>1, <2>1, <2>2, <2>3 DEF IInv, ItemsInv
<1>10. QED
  BY <1>5, <1>6, <1>7, <1>8, <1>9 DEF IInv

(* What the steps of BGThread that neither take nor finish an item share.  *)
LEMMA WorkerStep ==
  ASSUME IInv, NEW w \in Workers,
         NEW from \in {"lock", "check", "wait", "unlock"},
         NEW to \in {"lock", "check", "wait", "run"},
         bg[w] = from, bg' = [bg EXCEPT ![w] = to],
         from = "unlock" <=> to = "run",
         mu' \in Threads \cup {None},
         UNCHANGED <<started, queue, call, arg, item, asked, finished>>
  PROVE  TypeOK' /\ OneWorker' /\ WorkerInv' /\ ItemsInv'
<1> USE BackgroundAssumption DEF Threads
<1>1. TypeOK'
  BY DEF IInv, TypeOK
<1>2. bg'[w] = to /\ \A v \in Workers \ {w} : bg'[v] = bg[v]
  BY DEF IInv, TypeOK
<1>3. OneWorker'
  BY <1>2 DEF IInv, OneWorker
<1>4. WorkerInv'
  BY <1>2 DEF IInv, WorkerInv
<1>5. Accepted' = Accepted /\ \A t \in Threads : Bringing(t)' <=> Bringing(t)
  BY DEF Accepted, Running, Bringing
<1>6. ItemsInv'
  BY <1>5 DEF IInv, ItemsInv
<1>7. QED
  BY <1>1, <1>3, <1>4, <1>6

(* The background thread takes the mutex only when it is free.             *)
LEMMA BGLockIInv ==
  ASSUME IInv, NEW w \in Workers, BGLock(w)
  PROVE  IInv'
<1> USE BackgroundAssumption DEF Threads
<1>1. /\ bg[w] = "lock" /\ mu = None /\ mu' = w
      /\ bg' = [bg EXCEPT ![w] = "check"]
      /\ UNCHANGED <<started, queue, call, arg, item, asked, finished>>
  BY DEF BGLock
<1>2. bg'[w] = "check" /\ \A v \in Workers \ {w} : bg'[v] = bg[v]
  BY <1>1 DEF IInv, TypeOK
<1>3. MutexHeld'
  BY <1>1, <1>2 DEF IInv, MutexHeld, InSchedule, InLoop
<1>4. NoLostWakeup' /\ SignalInv'
  BY <1>1, <1>2 DEF IInv, NoLostWakeup, SignalInv
<1>5. QED
  BY <1>1, <1>3, <1>4, WorkerStep DEF IInv

(* It waits only when the queue is empty, and then nobody is about to push *)
(* without a signal: whoever pushes holds the mutex.                       *)
LEMMA BGWaitIInv ==
  ASSUME IInv, NEW w \in Workers, BGWait(w)
  PROVE  IInv'
<1> USE BackgroundAssumption DEF Threads
<1>1. /\ bg[w] = "check" /\ queue = <<>> /\ mu' = None
      /\ bg' = [bg EXCEPT ![w] = "wait"]
      /\ UNCHANGED <<started, queue, call, arg, item, asked, finished>>
  BY DEF BGWait
<1>2. bg'[w] = "wait" /\ \A v \in Workers \ {w} : bg'[v] = bg[v]
  BY <1>1 DEF IInv, TypeOK
<1>3. mu = w /\ call[w] = "out"
  BY <1>1 DEF IInv, MutexHeld, InLoop, WorkerInv, TypeOK
<1>4. \A t \in Threads : ~InSchedule(t)
  BY <1>3 DEF IInv, MutexHeld, InSchedule
<1>5. MutexHeld'
  BY <1>1, <1>2, <1>3 DEF IInv, MutexHeld, InSchedule, InLoop
<1>6. NoLostWakeup' /\ SignalInv'
  BY <1>1, <1>4 DEF NoLostWakeup, SignalInv, InSchedule
<1>7. QED
  BY <1>1, <1>5, <1>6, WorkerStep DEF IInv

(* A wait may end without a signal: it is as if the thread were woken.     *)
LEMMA SpuriousWakeupIInv ==
  ASSUME IInv, NEW w \in Workers, SpuriousWakeup(w)
  PROVE  IInv'
<1> USE BackgroundAssumption DEF Threads
<1>1. /\ bg[w] = "wait" /\ mu' = mu
      /\ bg' = [bg EXCEPT ![w] = "lock"]
      /\ UNCHANGED <<started, queue, call, arg, item, asked, finished>>
  BY DEF SpuriousWakeup
<1>2. bg'[w] = "lock" /\ \A v \in Workers \ {w} : bg'[v] = bg[v]
  BY <1>1 DEF IInv, TypeOK
<1>3. MutexHeld'
  BY <1>1, <1>2 DEF IInv, MutexHeld, InSchedule, InLoop
<1>4. NoLostWakeup' /\ SignalInv'
  BY <1>1, <1>2 DEF IInv, NoLostWakeup, SignalInv
<1>5. mu' \in Threads \cup {None}
  BY <1>1 DEF IInv, TypeOK
<1>6. QED
  BY <1>1, <1>3, <1>4, <1>5, WorkerStep DEF IInv

(* The mutex is given back before the function runs.                       *)
LEMMA BGUnlockIInv ==
  ASSUME IInv, NEW w \in Workers, BGUnlock(w)
  PROVE  IInv'
<1> USE BackgroundAssumption DEF Threads
<1>1. /\ bg[w] = "unlock" /\ mu' = None
      /\ bg' = [bg EXCEPT ![w] = "run"]
      /\ UNCHANGED <<started, queue, call, arg, item, asked, finished>>
  BY DEF BGUnlock
<1>2. bg'[w] = "run" /\ \A v \in Workers \ {w} : bg'[v] = bg[v]
  BY <1>1 DEF IInv, TypeOK
<1>3. mu = w /\ call[w] = "out"
  BY <1>1 DEF IInv, MutexHeld, InLoop, WorkerInv, TypeOK
<1>4. MutexHeld'
  BY <1>1, <1>2, <1>3 DEF IInv, MutexHeld, InSchedule, InLoop
<1>5. NoLostWakeup' /\ SignalInv'
  BY <1>1, <1>2 DEF IInv, NoLostWakeup, SignalInv
<1>6. QED
  BY <1>1, <1>4, <1>5, WorkerStep DEF IInv

(* One worker holds all the items there are to hold.                       *)
LEMMA RunningIs ==
  ASSUME IInv, NEW w \in Workers, bg[w] # "unborn"
  PROVE  /\ Running = {item[w]} \ {None}
         /\ \A v \in Workers \ {w} : bg[v] = "unborn" /\ item[v] = None
<1>1. \A v \in Workers \ {w} : bg[v] = "unborn"
  BY DEF IInv, OneWorker
<1>2. \A v \in Workers \ {w} : item[v] = None
  BY <1>1 DEF IInv, WorkerInv
<1>3. QED
  BY <1>1, <1>2 DEF Running

(* The oldest item moves from the queue to the one worker there is.        *)
LEMMA BGTakeIInv ==
  ASSUME IInv, NEW w \in Workers, BGTake(w)
  PROVE  IInv' /\ Running = {} /\ Running' = {Head(queue)}
<1> USE BackgroundAssumption DEF Threads
<1>1. /\ bg[w] = "check" /\ queue # <<>> /\ queue' = Tail(queue)
      /\ item' = [item EXCEPT ![w] = Head(queue)]
      /\ bg' = [bg EXCEPT ![w] = "unlock"]
      /\ UNCHANGED <<mu, started, call, arg, asked, finished>>
  BY DEF BGTake
<1>2. /\ bg'[w] = "unlock" /\ item'[w] = Head(queue)
      /\ \A v \in Workers \ {w} : bg'[v] = bg[v] /\ item'[v] = item[v]
  BY <1>1 DEF IInv, TypeOK
<1>3. queue \in Seq(Items) /\ Head(queue) \in Items /\ queue' \in Seq(Items)
  BY <1>1 DEF IInv, TypeOK
<1>4. call[w] = "out" /\ item[w] = None
  BY <1>1 DEF IInv, TypeOK, WorkerInv
<1>5. Running = {} /\ \A v \in Workers \ {w} : bg[v] = "unborn" /\ item[v] = None
  BY <1>1, <1>4, RunningIs
<1>6. Running' = {Head(queue)}
  BY <1>2, <1>3, <1>5 DEF Running
<1>7. TypeOK'
  BY <1>1, <1>3 DEF IInv, TypeOK
<1>8. MutexHeld'
  BY <1>1, <1>2 DEF IInv, MutexHeld, InSchedule, InLoop
<1>9. NoLostWakeup' /\ SignalInv' /\ OneWorker'
  BY <1>1, <1>2, <1>5 DEF IInv, NoLostWakeup, SignalInv, OneWorker
<1>10. WorkerInv'
  BY <1>1, <1>2, <1>3, <1>4 DEF IInv, WorkerInv
<1>11. ItemsInv'
  <2>1. Accepted' = Accepted
    BY <1>1, <1>3, <1>5, <1>6, ElementsTail DEF Accepted
  <2>2. \A t \in Threads : Bringing(t)' <=> Bringing(t)
    BY <1>1 DEF Bringing
  <2>3. QED
    BY <1>1, <2>1, <2>2 DEF IInv, ItemsInv
<1>12. QED
  BY <1>5, <1>6, <1>7, <1>8, <1>9, <1>10, <1>11 DEF IInv

(* A function that has returned leaves its worker without an item.         *)
LEMMA BGReturnIInv ==
  ASSUME IInv, NEW w \in Workers, BGReturn(w)
  PROVE  IInv' /\ Running = {item[w]} /\ Running' = {}
<1> USE BackgroundAssumption DEF Threads
<1>1. /\ bg[w] = "run" /\ call[w] = "out"
      /\ finished' = finished \cup {item[w]}
      /\ item' = [item EXCEPT ![w] = None]
      /\ bg' = [bg EXCEPT ![w] = "lock"]
      /\ UNCHANGED <<mu, started, queue, call, arg, asked>>
  BY DEF BGReturn
<1>2. /\ bg'[w] = "lock" /\ item'[w] = None
      /\ \A v \in Workers \ {w} : bg'[v] = bg[v] /\ item'[v] = item[v]
  BY <1>1 DEF IInv, TypeOK
<1>3. item[w] # None
  BY <1>1 DEF IInv, WorkerInv
<1>4. Running = {item[w]} /\ \A v \in Workers \ {w} : bg[v] = "unborn" /\ item[v] = None
  BY <1>1, <1>3, RunningIs
<1>5. Running' = {}
  BY <1>2, <1>4 DEF Running
<1>6. item[w] \in asked
  BY <1>4 DEF IInv, ItemsInv, Accepted
<1>7. TypeOK'
  BY <1>1, <1>6 DEF IInv, TypeOK
<1>8. MutexHeld'
  BY <1>1, <1>2 DEF IInv, MutexHeld, InSchedule, InLoop
<1>9. NoLostWakeup' /\ SignalInv' /\ OneWorker'
  BY <1>1, <1>2, <1>4 DEF IInv, NoLostWakeup, SignalInv, OneWorker
<1>10. WorkerInv'
  BY <1>1, <1>2 DEF IInv, WorkerInv
<1>11. ItemsInv'
  <2>1. Accepted' = Accepted
    BY <1>1, <1>4, <1>5 DEF Accepted
  <2>2. \A t \in Threads : Bringing(t)' <=> Bringing(t)
    BY <1>1 DEF Bringing
  <2>3. QED
    BY <1>1, <2>1, <2>2 DEF IInv, ItemsInv
<1>12. QED
  BY <1>4, <1>5, <1>7, <1>8, <1>9, <1>10, <1>11 DEF IInv

(* Every step of every thread preserves the invariant.                     *)
LEMMA NextIInv == IInv /\ [Next]_vars => IInv'
<1> SUFFICES ASSUME IInv, [Next]_vars PROVE IInv'
  OBVIOUS
<1>1. ASSUME NEW t \in Threads, ScheduleStep(t) PROVE IInv'
  BY <1>1, ScheduleLockIInv, StartThreadIInv, SignalIInv, PushIInv,
     ScheduleUnlockIInv DEF ScheduleStep
<1>2. ASSUME NEW t \in Threads, NEW i \in Items, ScheduleCall(t, i) PROVE IInv'
  BY <1>2, ScheduleCallIInv
<1>3. ASSUME NEW w \in Workers, BGStep(w) PROVE IInv'
  BY <1>3, BGLockIInv, BGWaitIInv, BGTakeIInv, BGUnlockIInv, BGReturnIInv DEF BGStep
<1>4. ASSUME NEW w \in Workers, SpuriousWakeup(w) PROVE IInv'
  BY <1>4, SpuriousWakeupIInv
<1>5. CASE UNCHANGED vars
  <2>1. Accepted' = Accepted
    BY <1>5 DEF vars, Accepted, Running
  <2>2. ItemsInv'
    BY <1>5, <2>1 DEF IInv, vars, ItemsInv, Bringing
  <2>3. TypeOK' /\ MutexHeld' /\ NoLostWakeup' /\ OneWorker' /\ WorkerInv' /\ SignalInv'
    BY <1>5 DEF IInv, vars, TypeOK, MutexHeld, InSchedule, InLoop, NoLostWakeup,
       OneWorker, WorkerInv, SignalInv
  <2>4. QED
    BY <2>2, <2>3 DEF IInv
<1>6. QED
  BY <1>1, <1>2, <1>3, <1>4, <1>5 DEF Next

(* The invariant holds in every state of every behaviour.                  *)
THEOREM Invariance == Spec => []IInv
<1>1. QED
  BY InitIInv, NextIInv, PTL DEF Spec

(* While the background thread waits for the queue to fill, it is empty.   *)
THEOREM WakeupsKept == Spec => []NoLostWakeup
<1>1. IInv => NoLostWakeup
  BY DEF IInv
<1>2. QED
  BY <1>1, Invariance, PTL

(* The mutex is held exactly by the thread in a critical section: no       *)
(* scheduled function runs under it.                                       *)
THEOREM MutexCorrect == Spec => []MutexHeld
<1>1. IInv => MutexHeld
  BY DEF IInv
<1>2. QED
  BY <1>1, Invariance, PTL

-----------------------------------------------------------------------------
(* What the abstract executor calls accepted is what is called so here.    *)
LEMMA SameAccepted == Abstract!Accepted = Accepted
BY DEF Abstract!Accepted, Accepted, Elements

(* A push is an acceptance.                                                *)
LEMMA PushRefines ==
  ASSUME IInv, NEW t \in Threads, Push(t)
  PROVE  \E i \in Items : Abstract!Accept(i)
<1>1. arg[t] \in Items /\ arg[t] \notin Accepted
  BY DEF Push, Bringing, IInv, ItemsInv, TypeOK
<1>2. queue' = Append(queue, arg[t]) /\ Running' = Running /\ finished' = finished
  BY DEF Push, Running
<1>3. Abstract!Accept(arg[t])
  BY <1>1, <1>2, SameAccepted DEF Abstract!Accept
<1>4. QED
  BY <1>1, <1>3

(* Every step is a step of the executor or invisible to it.                *)
LEMMA StepRefines == IInv /\ [Next]_vars => [Abstract!Next]_(Abstract!vars)
<1> SUFFICES ASSUME IInv, [Next]_vars PROVE [Abstract!Next]_(Abstract!vars)
  OBVIOUS
<1>1. ASSUME UNCHANGED <<queue, item, finished>> PROVE UNCHANGED Abstract!vars
  BY <1>1 DEF Abstract!vars, Running
<1>2. ASSUME NEW t \in Threads, Push(t) PROVE Abstract!Next
  BY <1>2, PushRefines DEF Abstract!Next
<1>3. ASSUME NEW t \in Threads, ScheduleStep(t), ~Push(t)
      PROVE  UNCHANGED <<queue, item, finished>>
  BY <1>3 DEF ScheduleStep, ScheduleLock, StartThread, Signal, ScheduleUnlock
<1>4. ASSUME NEW t \in Threads, NEW i \in Items, ScheduleCall(t, i)
      PROVE  UNCHANGED <<queue, item, finished>>
  BY <1>4 DEF ScheduleCall
<1>5. ASSUME NEW w \in Workers, BGTake(w) PROVE Abstract!Start
  <2>1. queue # <<>> /\ queue' = Tail(queue) /\ finished' = finished
    BY <1>5 DEF BGTake
  <2>2. QED
    BY <1>5, <2>1, BGTakeIInv DEF Abstract!Start
<1>6. ASSUME NEW w \in Workers, BGReturn(w) PROVE Abstract!Finish
  <2>1. finished' = finished \cup {item[w]} /\ queue' = queue
    BY <1>6 DEF BGReturn
  <2>2. QED
    BY <1>6, <2>1, BGReturnIInv DEF Abstract!Finish
<1>7. ASSUME NEW w \in Workers, BGLock(w) \/ BGWait(w) \/ BGUnlock(w) \/ SpuriousWakeup(w)
      PROVE  UNCHANGED <<queue, item, finished>>
  BY <1>7 DEF BGLock, BGWait, BGUnlock, SpuriousWakeup
<1>8. CASE UNCHANGED vars
  BY <1>1, <1>8 DEF vars
<1>9. QED
  BY <1>1, <1>2, <1>3, <1>4, <1>5, <1>6, <1>7, <1>8 DEF Next, BGStep, Abstract!Next

(* For any callers the scheduled items run once each, one at a time, in    *)
(* the order of the pushes.                                                *)
THEOREM RunsInOrder == Spec => ImplementsExecutor
<1>1. Init => Abstract!Init
  BY DEF Init, Abstract!Init, Running
<1>2. QED
  BY <1>1, StepRefines, Invariance, PTL DEF Spec, ImplementsExecutor, Abstract!Spec

-----------------------------------------------------------------------------
(* The mutex and the condition variable never hold everybody up.  An item  *)
(* Schedule was called with is still being brought, or it was accepted.    *)
NothingForgotten ==
  \A i \in asked : i \in Accepted \/ \E t \in Threads : Bringing(t) /\ arg[t] = i

(* Once the first Schedule has started it, a background thread exists.     *)
StartedInv ==
  /\ started => \E w \in Workers : bg[w] # "unborn"
  /\ \A t \in Threads : call[t] \in {"signal", "push", "unlock"} => started
  /\ queue # <<>> => started

ProgressInv == IInv /\ NothingForgotten /\ StartedInv

(* A thread's next step in Schedule, or in BGThread, has only to be taken: *)
(* it is not for the mutex, which another one holds, nor for a wakeup.     *)
GoesOnInSchedule(t) ==
  /\ call[t] # "out"
  /\ call[t] = "lock" => mu = None
  /\ call[t] = "start" => started \/ \E w \in Workers : bg[w] = "unborn"

GoesOnInLoop(w) ==
  /\ bg[w] \notin {"unborn", "wait"}
  /\ bg[w] = "lock" => mu = None
  /\ bg[w] = "run" => call[w] = "out"

SomebodyGoesOn ==
  asked # finished =>
    (\E t \in Threads : GoesOnInSchedule(t)) \/ (\E w \in Workers : GoesOnInLoop(w))

(* A step that changes neither what was asked for nor the queue nor the    *)
(* items keeps track of them all, if nobody stops bringing an item.        *)
LEMMA NothingForgottenKept ==
  ASSUME NothingForgotten, UNCHANGED <<queue, item, finished, asked, arg>>,
         \A t \in Threads : Bringing(t) => Bringing(t)'
  PROVE  NothingForgotten'
<1>1. Accepted' = Accepted
  BY DEF Accepted, Running
<1>2. QED
  BY <1>1 DEF NothingForgotten

LEMMA ScheduleCallProgress ==
  ASSUME ProgressInv, NEW t \in Threads, NEW i \in Items, ScheduleCall(t, i)
  PROVE  NothingForgotten' /\ StartedInv'
<1>1. /\ call[t] = "out" /\ asked' = asked \cup {i}
      /\ call' = [call EXCEPT ![t] = "lock"] /\ arg' = [arg EXCEPT ![t] = i]
      /\ UNCHANGED <<started, queue, bg, item, finished>>
  BY DEF ScheduleCall
<1>2. TypeOK /\ NothingForgotten /\ StartedInv
  BY DEF ProgressInv, IInv
<1>3. /\ call'[t] = "lock" /\ arg'[t] = i
      /\ \A u \in Threads \ {t} : call'[u] = call[u] /\ arg'[u] = arg[u]
  BY <1>1, <1>2 DEF TypeOK
<1>4. Accepted' = Accepted
  BY <1>1 DEF Accepted, Running
<1>5. \A u \in Threads : Bringing(u) => Bringing(u)' /\ arg'[u] = arg[u]
  BY <1>1, <1>3 DEF Bringing
<1>6. Bringing(t)'
  BY <1>3 DEF Bringing
<1>7. NothingForgotten'
  BY <1>1, <1>2, <1>3, <1>4, <1>5, <1>6 DEF NothingForgotten
<1>8. StartedInv'
  BY <1>1, <1>2, <1>3 DEF StartedInv
<1>9. QED
  BY <1>7, <1>8

LEMMA ScheduleStepProgress ==
  ASSUME ProgressInv, NEW t \in Threads, ScheduleStep(t)
  PROVE  NothingForgotten' /\ StartedInv'
<1>1. TypeOK /\ NothingForgotten /\ StartedInv
  BY DEF ProgressInv, IInv
<1>2. ASSUME ScheduleLock(t) PROVE NothingForgotten' /\ StartedInv'
  <2>1. /\ call[t] = "lock" /\ call' = [call EXCEPT ![t] = "start"]
        /\ UNCHANGED <<started, queue, arg, bg, item, asked, finished>>
    BY <1>2 DEF ScheduleLock
  <2>2. call'[t] = "start" /\ \A u \in Threads \ {t} : call'[u] = call[u]
    BY <1>1, <2>1 DEF TypeOK
  <2>3. \A u \in Threads : Bringing(u) => Bringing(u)'
    BY <2>2 DEF Bringing
  <2>4. NothingForgotten'
    BY <1>1, <2>1, <2>3, NothingForgottenKept
  <2>5. StartedInv'
    BY <1>1, <2>1, <2>2 DEF StartedInv
  <2>6. QED
    BY <2>4, <2>5
<1>3. ASSUME StartThread(t) PROVE NothingForgotten' /\ StartedInv'
  <2>1. /\ call[t] = "start" /\ call' = [call EXCEPT ![t] = "signal"] /\ started' = TRUE
        /\ UNCHANGED <<queue, arg, item, asked, finished>>
    BY <1>3 DEF StartThread
  <2>2. call'[t] = "signal" /\ \A u \in Threads \ {t} : call'[u] = call[u]
    BY <1>1, <2>1 DEF TypeOK
  <2>3. \A u \in Threads : Bringing(u) => Bringing(u)'
    BY <2>2 DEF Bringing
  <2>4. NothingForgotten'
    BY <1>1, <2>1, <2>3, NothingForgottenKept
  <2>5. \E w \in Workers : bg'[w] # "unborn"
    <3>1. CASE started
      BY <1>1, <1>3, <3>1 DEF StartThread, StartedInv
    <3>2. CASE ~started
      <4>1. PICK w \in Workers : bg' = [bg EXCEPT ![w] = "lock"]
        BY <1>3, <3>2 DEF StartThread
      <4>2. bg'[w] = "lock"
        BY <1>1, <4>1 DEF TypeOK
      <4>3. QED
        BY <4>2
    <3>3. QED
      BY <3>1, <3>2
  <2>6. StartedInv'
    BY <1>1, <2>1, <2>5 DEF StartedInv
  <2>7. QED
    BY <2>4, <2>6
<1>4. ASSUME Signal(t) PROVE NothingForgotten' /\ StartedInv'
  <2>1. /\ call[t] = "signal" /\ call' = [call EXCEPT ![t] = "push"]
        /\ UNCHANGED <<started, queue, arg, item, asked, finished>>
    BY <1>4 DEF Signal
  <2>2. call'[t] = "push" /\ \A u \in Threads \ {t} : call'[u] = call[u]
    BY <1>1, <2>1 DEF TypeOK
  <2>3. \A u \in Threads : Bringing(u) => Bringing(u)'
    BY <2>2 DEF Bringing
  <2>4. NothingForgotten'
    BY <1>1, <2>1, <2>3, NothingForgottenKept
  <2>5. \A w \in Workers : bg[w] # "unborn" => bg'[w] # "unborn"
    <3>1. CASE bg' = bg
      BY <3>1
    <3>2. ASSUME NEW v \in Workers, bg' = [bg EXCEPT ![v] = "lock"]
          PROVE  \A w \in Workers : bg[w] # "unborn" => bg'[w] # "unborn"
      BY <1>1, <3>2 DEF TypeOK
    <3>3. QED
      BY <1>4, <3>1, <3>2 DEF Signal
  <2>6. StartedInv'
    BY <1>1, <2>1, <2>2, <2>5 DEF StartedInv
  <2>7. QED
    BY <2>4, <2>6
<1>5. ASSUME Push(t) PROVE NothingForgotten' /\ StartedInv'
  <2>1. /\ call[t] = "push" /\ call' = [call EXCEPT ![t] = "unlock"]
        /\ queue' = Append(queue, arg[t])
        /\ UNCHANGED <<started, arg, bg, item, asked, finished>>
    BY <1>5 DEF Push
  <2>2. call'[t] = "unlock" /\ \A u \in Threads \ {t} : call'[u] = call[u]
    BY <1>1, <2>1 DEF TypeOK
  <2>3. arg[t] \in Items
    BY <1>1, <2>1 DEF ProgressInv, IInv, ItemsInv, Bringing, TypeOK
  <2>4. Elements(queue') = Elements(queue) \cup {arg[t]}
    BY <1>1, <2>1, <2>3, ElementsAppend DEF TypeOK
  <2>5. Accepted' = Accepted \cup {arg[t]}
    BY <2>1, <2>4 DEF Accepted, Running
  <2>6. \A u \in Threads \ {t} : Bringing(u) => Bringing(u)'
    BY <2>2 DEF Bringing
  <2>7. NothingForgotten'
    BY <1>1, <2>1, <2>5, <2>6 DEF NothingForgotten
  <2>8. StartedInv'
    BY <1>1, <2>1, <2>2 DEF StartedInv
  <2>9. QED
    BY <2>7, <2>8
<1>6. ASSUME ScheduleUnlock(t) PROVE NothingForgotten' /\ StartedInv'
  <2>1. /\ call[t] = "unlock" /\ call' = [call EXCEPT ![t] = "out"]
        /\ arg' = [arg EXCEPT ![t] = None]
        /\ UNCHANGED <<started, queue, bg, item, asked, finished>>
    BY <1>6 DEF ScheduleUnlock
  <2>2. /\ call'[t] = "out"
        /\ \A u \in Threads \ {t} : call'[u] = call[u] /\ arg'[u] = arg[u]
    BY <1>1, <2>1 DEF TypeOK
  <2>3. Accepted' = Accepted
    BY <2>1 DEF Accepted, Running
  <2>4. \A u \in Threads : Bringing(u) => Bringing(u)' /\ arg'[u] = arg[u]
    BY <2>1, <2>2 DEF Bringing
  <2>5. NothingForgotten'
    BY <1>1, <2>1, <2>3, <2>4 DEF NothingForgotten
  <2>6. StartedInv'
    BY <1>1, <2>1, <2>2 DEF StartedInv
  <2>7. QED
    BY <2>5, <2>6
<1>7. QED
  BY <1>2, <1>3, <1>4, <1>5, <1>6 DEF ScheduleStep

LEMMA BGStepProgress ==
  ASSUME ProgressInv, NEW w \in Workers, BGStep(w) \/ SpuriousWakeup(w)
  PROVE  NothingForgotten' /\ StartedInv'
<1>1. IInv /\ TypeOK /\ NothingForgotten /\ StartedInv
  BY DEF ProgressInv, IInv
<1>2. UNCHANGED <<started, call, arg, asked>>
  BY DEF BGStep, BGLock, BGWait, BGTake, BGUnlock, BGReturn, SpuriousWakeup
<1>3. \A v \in Workers : bg[v] # "unborn" => bg'[v] # "unborn"
  <2>1. \E s \in {"lock", "check", "wait", "unlock", "run"} : bg' = [bg EXCEPT ![w] = s]
    BY DEF BGStep, BGLock, BGWait, BGTake, BGUnlock, BGReturn, SpuriousWakeup
  <2>2. QED
    BY <1>1, <2>1 DEF TypeOK
<1>4. queue' = queue \/ queue # <<>>
  BY DEF BGStep, BGLock, BGWait, BGTake, BGUnlock, BGReturn, SpuriousWakeup
<1>5. StartedInv'
  BY <1>1, <1>2, <1>3, <1>4 DEF StartedInv
<1>6. Accepted' = Accepted
  <2>1. CASE BGTake(w)
    <3>1. Running = {} /\ Running' = {Head(queue)}
      BY <1>1, <2>1, BGTakeIInv
    <3>2. queue # <<>> /\ queue' = Tail(queue) /\ finished' = finished
      BY <2>1 DEF BGTake
    <3>3. Elements(queue) = {Head(queue)} \cup Elements(queue')
      BY <1>1, <3>2, ElementsTail DEF TypeOK
    <3>4. QED
      BY <3>1, <3>2, <3>3 DEF Accepted
  <2>2. CASE BGReturn(w)
    <3>1. Running = {item[w]} /\ Running' = {}
      BY <1>1, <2>2, BGReturnIInv
    <3>2. finished' = finished \cup {item[w]} /\ queue' = queue
      BY <2>2 DEF BGReturn
    <3>3. QED
      BY <3>1, <3>2 DEF Accepted
  <2>3. CASE BGLock(w) \/ BGWait(w) \/ BGUnlock(w) \/ SpuriousWakeup(w)
    <3>1. UNCHANGED <<queue, item, finished>>
      BY <2>3 DEF BGLock, BGWait, BGUnlock, SpuriousWakeup
    <3>2. QED
      BY <3>1 DEF Accepted, Running
  <2>4. QED
    BY <2>1, <2>2, <2>3 DEF BGStep
<1>7. NothingForgotten'
  BY <1>1, <1>2, <1>6 DEF NothingForgotten, Bringing
<1>8. QED
  BY <1>5, <1>7

LEMMA InitProgress == Init => ProgressInv
<1> SUFFICES ASSUME Init PROVE ProgressInv
  OBVIOUS
<1>1. NothingForgotten /\ StartedInv
  BY DEF Init, NothingForgotten, StartedInv
<1>2. QED
  BY <1>1, InitIInv DEF ProgressInv

LEMMA NextProgress == ProgressInv /\ [Next]_vars => ProgressInv'
<1> SUFFICES ASSUME ProgressInv, [Next]_vars PROVE NothingForgotten' /\ StartedInv'
  BY NextIInv DEF ProgressInv
<1>1. CASE Next
  BY <1>1, ScheduleCallProgress, ScheduleStepProgress, BGStepProgress DEF Next
<1>2. CASE UNCHANGED vars
  <2>1. UNCHANGED <<queue, item, finished, asked, arg, call, started, bg>>
    BY <1>2 DEF vars
  <2>2. NothingForgotten'
    BY <2>1, NothingForgottenKept DEF ProgressInv, Bringing
  <2>3. StartedInv'
    BY <2>1 DEF ProgressInv, StartedInv
  <2>4. QED
    BY <2>2, <2>3
<1>3. QED
  BY <1>1, <1>2

(* Whoever holds the mutex gives it back without waiting for anybody.      *)
LEMMA HolderGoesOn ==
  ASSUME ProgressInv, mu # None
  PROVE  (\E t \in Threads : GoesOnInSchedule(t)) \/ (\E w \in Workers : GoesOnInLoop(w))
<1>1. /\ mu \in Threads /\ MutexHeld
      /\ ~started => \A w \in Workers : bg[w] = "unborn"
  BY DEF ProgressInv, IInv, TypeOK, OneWorker
<1>2. CASE InSchedule(mu)
  <2>1. started \/ \E w \in Workers : bg[w] = "unborn"
    BY <1>1, BackgroundAssumption
  <2>2. GoesOnInSchedule(mu)
    BY <1>2, <2>1 DEF InSchedule, GoesOnInSchedule
  <2>3. QED
    BY <1>1, <2>2
<1>3. CASE mu \in Workers /\ InLoop(mu)
  BY <1>3 DEF InLoop, GoesOnInLoop
<1>4. QED
  BY <1>1, <1>2, <1>3 DEF MutexHeld

LEMMA ProgressInvGoesOn == ProgressInv => SomebodyGoesOn
<1> SUFFICES ASSUME ProgressInv, asked # finished,
                    \A t \in Threads : ~GoesOnInSchedule(t),
                    \A w \in Workers : ~GoesOnInLoop(w)
             PROVE  FALSE
  BY DEF SomebodyGoesOn
<1>1. /\ TypeOK /\ MutexHeld /\ NoLostWakeup /\ WorkerInv
      /\ NothingForgotten /\ StartedInv /\ Workers \subseteq Threads
  BY DEF ProgressInv, IInv, Threads
<1>2. mu = None
  BY HolderGoesOn
<1>3. \A t \in Threads : call[t] = "out"
  <2> SUFFICES ASSUME NEW t \in Threads, call[t] # "out" PROVE FALSE
    OBVIOUS
  <2>1. ~InSchedule(t)
    BY <1>1, <1>2, BackgroundAssumption DEF MutexHeld, Threads
  <2>2. call[t] = "lock"
    BY <1>1, <2>1 DEF TypeOK, InSchedule
  <2>3. QED
    BY <1>2, <2>2 DEF GoesOnInSchedule
<1>4. \A w \in Workers : bg[w] \in {"unborn", "wait"}
  <2> SUFFICES ASSUME NEW w \in Workers, bg[w] \notin {"unborn", "wait"} PROVE FALSE
    OBVIOUS
  <2>1. bg[w] # "run" \/ call[w] = "out"
    BY <1>1, <1>3
  <2>2. QED
    BY <1>2, <2>1 DEF GoesOnInLoop
<1>5. PICK i \in asked : i \notin finished
  BY <1>1 DEF TypeOK
<1>6. i \in Elements(queue)
  <2>1. ~ \E t \in Threads : Bringing(t) /\ arg[t] = i
    BY <1>3 DEF Bringing
  <2>2. \A w \in Workers : item[w] = None
    BY <1>1, <1>4 DEF WorkerInv
  <2>3. Running = {}
    BY <2>2 DEF Running
  <2>4. QED
    BY <1>1, <1>5, <2>1, <2>3 DEF NothingForgotten, Accepted
<1>7. queue # <<>>
  BY <1>6 DEF Elements
<1>8. \E w \in Workers : bg[w] = "wait"
  BY <1>1, <1>4, <1>7 DEF StartedInv
<1>9. QED
  BY <1>1, <1>7, <1>8 DEF NoLostWakeup

(* As long as a scheduled item has not been run, some thread can go on,    *)
(* without a spurious wakeup and without the mutex of another: neither the *)
(* callers and the background thread, nor the functions that call Schedule *)
(* themselves, ever wait for each other in a circle (PosixEnv::Schedule    *)
(* and BGThread, db/Env_posix.cpp:550-590).                                *)
THEOREM NobodyStuck == Spec => []SomebodyGoesOn
<1>1. QED
  BY InitProgress, NextProgress, ProgressInvGoesOn, PTL DEF Spec
=============================================================================
