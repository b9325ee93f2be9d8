--------------------------- MODULE FileLockProofs ---------------------------
(***************************************************************************)
(* Proofs about FileLock, for any processes and any threads in them.       *)
(***************************************************************************)
EXTENDS FileLock, TLAPS

(* At most one thread of a process is past the Insert and before the       *)
(* Remove.                                                                 *)
OneOwner ==
  \A c, d \in Clients :
    ProcessOf[c] = ProcessOf[d] /\ Owner(c) /\ Owner(d) => c = d

IInv == TypeOK /\ TableExact /\ OneOwner

-----------------------------------------------------------------------------
(* No thread is in a call and every table is empty.                        *)
LEMMA InitIInv == Init => IInv
BY FileLockAssumption DEF Init, IInv, TypeOK, TableExact, OneOwner, Owner

(* A step of client c of process p, which may change c's place, the entry  *)
(* of p and the kernel's lock, keeps the table exact if it enters the name *)
(* only when it was not there, and takes it out only as its owner.         *)
LEMMA OwnerStep ==
  ASSUME IInv, NEW c \in Clients,
         NEW place \in {"idle", "opened", "refused", "inserted", "denied",
                        "closed", "held", "cleared", "removed"},
         NEW entry \in BOOLEAN,
         at' = [at EXCEPT ![c] = place],
         table' = [table EXCEPT ![ProcessOf[c]] = entry],
         place \in {"inserted", "denied", "closed", "held", "cleared"} =>
           entry /\ (Owner(c) \/ ~table[ProcessOf[c]]),
         place \notin {"inserted", "denied", "closed", "held", "cleared"} =>
           IF Owner(c) THEN ~entry ELSE entry = table[ProcessOf[c]]
  PROVE  TableExact' /\ OneOwner'
<1> DEFINE p == ProcessOf[c]
<1>1. p \in Processes /\ \A d \in Clients : ProcessOf[d] \in Processes
  BY FileLockAssumption
<1>2. /\ at'[c] = place /\ \A d \in Clients \ {c} : at'[d] = at[d]
      /\ table'[p] = entry /\ \A q \in Processes \ {p} : table'[q] = table[q]
  BY <1>1 DEF IInv, TypeOK
<1>3. \A d \in Clients \ {c} : Owner(d)' <=> Owner(d)
  BY <1>2 DEF Owner
<1>4. Owner(c)' <=> place \in {"inserted", "denied", "closed", "held", "cleared"}
  BY <1>2 DEF Owner
<1>5. table[p] <=> \E d \in Clients : ProcessOf[d] = p /\ Owner(d)
  BY <1>1 DEF IInv, TableExact
<1>6. Owner(c) => \A d \in Clients \ {c} : ProcessOf[d] = p => ~Owner(d)
  BY DEF IInv, OneOwner
<1>7. OneOwner'
  BY <1>3, <1>4, <1>5, <1>6 DEF IInv, OneOwner
<1>8. entry <=> \E d \in Clients : ProcessOf[d] = p /\ Owner(d)'
  BY <1>3, <1>4, <1>5, <1>6
<1>9. ASSUME NEW q \in Processes, q # p
      PROVE  table'[q] <=> \E d \in Clients : ProcessOf[d] = q /\ Owner(d)'
  <2>1. table[q] <=> \E d \in Clients : ProcessOf[d] = q /\ Owner(d)
    BY DEF IInv, TableExact
  <2>2. QED
    BY <1>2, <1>3, <1>9, <2>1
<1>10. TableExact'
  BY <1>2, <1>8, <1>9 DEF TableExact
<1>11. QED
  BY <1>7, <1>10

(* The same for a step that leaves the table alone.                        *)
LEMMA OwnerKept ==
  ASSUME IInv, NEW c \in Clients,
         NEW place \in {"idle", "opened", "refused", "inserted", "denied",
                        "closed", "held", "cleared", "removed"},
         at' = [at EXCEPT ![c] = place], UNCHANGED table,
         place \in {"inserted", "denied", "closed", "held", "cleared"} <=> Owner(c)
  PROVE  TableExact' /\ OneOwner'
<1>1. \A d \in Clients : Owner(d)' <=> Owner(d)
  BY DEF IInv, TypeOK, Owner
<1>2. QED
  BY <1>1 DEF IInv, TableExact, OneOwner

(* Every step of a call keeps the shapes of the variables.                 *)
LEMMA TypeStep == TypeOK /\ [Next]_vars => TypeOK'
<1> SUFFICES ASSUME TypeOK, [Next]_vars PROVE TypeOK'
  OBVIOUS
<1> USE FileLockAssumption DEF TypeOK, GoTo, Answer, DropLock
<1>1. ASSUME NEW c \in Clients, LockFile(c) PROVE TypeOK'
  <2>1. CASE Open(c)
    BY <2>1 DEF Open
  <2>2. CASE InsertName(c)
    BY <2>2 DEF InsertName
  <2>3. CASE CloseRefused(c)
    BY <2>3 DEF CloseRefused
  <2>4. CASE SetLock(c)
    <3>1. UNCHANGED table /\ ProcessOf[c] \in Processes
      BY <2>4 DEF SetLock
    <3>2. at' \in [Clients -> {"idle", "opened", "refused", "inserted", "denied", "closed",
                               "held", "cleared", "removed"}]
      BY <2>4 DEF SetLock
    <3>3. answer' = answer \/ answer' = [answer EXCEPT ![c] = "ok"]
      BY <2>4 DEF SetLock
    <3>4. kernel' \in Processes \cup {None}
      BY <2>4, <3>1 DEF SetLock
    <3>5. QED
      BY <3>1, <3>2, <3>3, <3>4
  <2>5. CASE CloseDenied(c)
    BY <2>5 DEF CloseDenied
  <2>6. CASE RemoveDenied(c)
    BY <2>6 DEF RemoveDenied
  <2>7. QED
    BY <1>1, <2>1, <2>2, <2>3, <2>4, <2>5, <2>6 DEF LockFile
<1>2. ASSUME NEW c \in Clients, UnlockFile(c) PROVE TypeOK'
  BY <1>2 DEF UnlockFile, ClearLock, RemoveName, CloseUnlocked
<1>3. ASSUME NEW p \in Processes, Crash(p) PROVE TypeOK'
  BY <1>3 DEF Crash
<1>4. CASE UNCHANGED vars
  BY <1>4 DEF vars
<1>5. QED
  BY <1>1, <1>2, <1>3, <1>4 DEF Next

(* A crash takes the names of its process and nothing else.                *)
LEMMA CrashStep ==
  ASSUME IInv, NEW p \in Processes, Crash(p)
  PROVE  TableExact' /\ OneOwner'
<1>1. \A c \in Clients : Owner(c)' <=> ProcessOf[c] # p /\ Owner(c)
  BY DEF Crash, Owner
<1>2. /\ table'[p] = FALSE
      /\ \A q \in Processes \ {p} : table'[q] = table[q]
  BY DEF Crash, IInv, TypeOK
<1>3. QED
  BY <1>1, <1>2 DEF IInv, TableExact, OneOwner

(* Every step preserves the invariant.                                     *)
LEMMA NextIInv == IInv /\ [Next]_vars => IInv'
<1> SUFFICES ASSUME IInv, [Next]_vars PROVE IInv'
  OBVIOUS
<1>1. TypeOK'
  BY TypeStep DEF IInv
<1>2. ASSUME NEW c \in Clients, LockFile(c) PROVE TableExact' /\ OneOwner'
  <2> USE DEF GoTo
  <2> DEFINE p == ProcessOf[c]
  <2>1. p \in Processes /\ at[c] = "held" => Owner(c)
    BY FileLockAssumption DEF Owner
  <2>2. CASE Open(c)
    <3>1. CASE at' = [at EXCEPT ![c] = "opened"]
      BY <2>2, <3>1, OwnerKept DEF Open, Owner
    <3>2. CASE UNCHANGED at
      BY <2>2, <3>2 DEF Open, IInv, TableExact, OneOwner, Owner
    <3>3. QED
      BY <2>2, <3>1, <3>2 DEF Open
  <2>3. CASE InsertName(c)
    <3> DEFINE place == IF table[p] THEN "refused" ELSE "inserted"
    <3>1. /\ at' = [at EXCEPT ![c] = place]
          /\ table' = [table EXCEPT ![p] = TRUE]
          /\ ~Owner(c)
          /\ table[p] \in BOOLEAN
      BY <2>3, FileLockAssumption DEF InsertName, Owner, IInv, TypeOK
    <3>2. CASE table[p]
      BY <3>1, <3>2, OwnerStep
    <3>3. CASE ~table[p]
      BY <3>1, <3>3, OwnerStep
    <3>4. QED
      BY <3>2, <3>3
  <2>4. CASE CloseRefused(c)
    BY <2>4, OwnerKept DEF CloseRefused, Owner
  <2>5. CASE SetLock(c)
    <3>1. Owner(c) /\ UNCHANGED table
      BY <2>5 DEF SetLock, Owner
    <3>2. CASE at' = [at EXCEPT ![c] = "held"]
      BY <3>1, <3>2, OwnerKept
    <3>3. CASE at' = [at EXCEPT ![c] = "denied"]
      BY <3>1, <3>3, OwnerKept
    <3>4. QED
      BY <2>5, <3>2, <3>3 DEF SetLock
  <2>6. CASE CloseDenied(c)
    BY <2>6, OwnerKept DEF CloseDenied, Owner
  <2>7. CASE RemoveDenied(c)
    BY <2>7, OwnerStep DEF RemoveDenied, Owner
  <2>8. QED
    BY <1>2, <2>2, <2>3, <2>4, <2>5, <2>6, <2>7 DEF LockFile
<1>3. ASSUME NEW c \in Clients, UnlockFile(c) PROVE TableExact' /\ OneOwner'
  <2> USE DEF GoTo
  <2>1. CASE ClearLock(c)
    BY <2>1, OwnerKept DEF ClearLock, Owner
  <2>2. CASE RemoveName(c)
    BY <2>2, OwnerStep DEF RemoveName, Owner
  <2>3. CASE CloseUnlocked(c)
    BY <2>3, OwnerKept DEF CloseUnlocked, Owner
  <2>4. QED
    BY <1>3, <2>1, <2>2, <2>3 DEF UnlockFile
<1>4. ASSUME UNCHANGED vars PROVE TableExact' /\ OneOwner'
  BY <1>4 DEF vars, IInv, TableExact, OneOwner, Owner
<1>5. TableExact' /\ OneOwner'
  BY <1>2, <1>3, <1>4, CrashStep DEF Next
<1>6. QED
  BY <1>1, <1>5 DEF IInv

(* The invariant holds in every state of every behaviour.                  *)
THEOREM Invariance == Spec => []IInv
<1>1. QED
  BY InitIInv, NextIInv, PTL DEF Spec

(* No two threads of one process hold the lock, however calls, failures    *)
(* and crashes interleave.                                                 *)
THEOREM ProcessExclusion == Spec => []OneHolderPerProcess
<1>1. IInv => OneHolderPerProcess
  BY DEF IInv, OneOwner, Owner, OneHolderPerProcess
<1>2. QED
  BY <1>1, Invariance, PTL

(* The table holds the name exactly while a thread of the process owns it. *)
THEOREM TableIsExact == Spec => []TableExact
<1>1. IInv => TableExact
  BY DEF IInv
<1>2. QED
  BY <1>1, Invariance, PTL

-----------------------------------------------------------------------------
(* A thread alone in its process that holds the lock is backed by the      *)
(* kernel's lock, and stays so: only steps of its own process could drop   *)
(* it, and only it takes them.                                             *)
LEMMA BackedStep ==
  ASSUME TypeOK, HolderIsBacked, [Next]_vars
  PROVE  HolderIsBacked'
<1> USE FileLockAssumption DEF TypeOK, GoTo, Answer, DropLock
<1>1. ASSUME NEW c \in Clients, LockFile(c) \/ UnlockFile(c)
      PROVE  HolderIsBacked'
  <2>1. \A d \in Clients \ {c} : at'[d] = at[d]
    BY <1>1 DEF LockFile, UnlockFile, Open, InsertName, CloseRefused,
       SetLock, CloseDenied, RemoveDenied, ClearLock, RemoveName, CloseUnlocked
  <2>2. ASSUME NEW d \in Clients \ {c}, Alone(d), at[d] = "held"
        PROVE  kernel' = ProcessOf[d]
    <3>1. kernel = ProcessOf[d] /\ ProcessOf[d] # ProcessOf[c] /\ ProcessOf[d] # None
      <4>1. kernel = ProcessOf[d]
        BY <2>2 DEF HolderIsBacked
      <4>2. ProcessOf[d] # ProcessOf[c]
        BY <2>2 DEF Alone
      <4>3. ProcessOf[d] \in Processes
        OBVIOUS
      <4>4. QED
        BY <4>1, <4>2, <4>3
    <3>2. kernel' = kernel \/ kernel \in {None, ProcessOf[c]}
      BY <1>1 DEF LockFile, UnlockFile, Open, InsertName, CloseRefused, SetLock,
         CloseDenied, RemoveDenied, ClearLock, RemoveName, CloseUnlocked
    <3>3. QED
      BY <3>1, <3>2
  <2>3. Alone(c) /\ at'[c] = "held" => kernel' = ProcessOf[c]
    BY <1>1 DEF HolderIsBacked, LockFile, UnlockFile, Open, InsertName, CloseRefused,
       SetLock, CloseDenied, RemoveDenied, ClearLock, RemoveName, CloseUnlocked
  <2>4. \A d \in Clients : Alone(d)' <=> Alone(d)
    BY DEF Alone
  <2>5. QED
    BY <2>1, <2>2, <2>3, <2>4 DEF HolderIsBacked
<1>2. ASSUME NEW p \in Processes, Crash(p) PROVE HolderIsBacked'
  BY <1>2 DEF Crash, HolderIsBacked, Alone
<1>3. CASE UNCHANGED vars
  BY <1>3 DEF vars, HolderIsBacked, Alone
<1>4. QED
  BY <1>1, <1>2, <1>3 DEF Next

(* Whoever holds the lock from a process of its own has the record lock.   *)
THEOREM Backed == Spec => []HolderIsBacked
<1>1. Init => TypeOK /\ HolderIsBacked
  BY FileLockAssumption DEF Init, TypeOK, HolderIsBacked
<1>2. TypeOK /\ HolderIsBacked /\ [Next]_vars => TypeOK' /\ HolderIsBacked'
  BY TypeStep, BackedStep
<1>3. QED
  BY <1>1, <1>2, PTL DEF Spec

(* So of the threads alone in their processes at most one holds the lock,  *)
(* whatever fails or crashes.                                              *)
THEOREM Exclusion == Spec => []OneHolder
<1>1. HolderIsBacked => OneHolder
  BY DEF HolderIsBacked, OneHolder, Alone
<1>2. QED
  BY <1>1, Backed, PTL

-----------------------------------------------------------------------------
(* The kernel's record lock belongs to a process with a thread that has    *)
(* been granted it and has not closed its descriptor yet.                  *)
LockInv ==
  kernel # None =>
    \E c \in Clients : ProcessOf[c] = kernel /\ at[c] \in {"held", "cleared", "removed"}

(* Whoever ceases to be such a thread, by a close or a crash, drops it.    *)
LEMMA LockStep ==
  ASSUME TypeOK, LockInv, [Next]_vars
  PROVE  LockInv'
<1> USE FileLockAssumption DEF GoTo, Answer, DropLock
<1> DEFINE Granted == {"held", "cleared", "removed"}
<1>1. ASSUME NEW c \in Clients, LockFile(c) \/ UnlockFile(c)
      PROVE  LockInv'
  <2>1. at \in [Clients -> {"idle", "opened", "refused", "inserted", "denied",
                            "closed", "held", "cleared", "removed"}]
    BY DEF TypeOK
  <2>2. \A d \in Clients \ {c} : at'[d] = at[d]
    BY <1>1, <2>1 DEF LockFile, UnlockFile, Open, InsertName, CloseRefused,
       SetLock, CloseDenied, RemoveDenied, ClearLock, RemoveName, CloseUnlocked
  <2>3. \/ kernel' = None
        \/ kernel' = ProcessOf[c] /\ at'[c] \in Granted
        \/ kernel' = kernel /\ (at[c] \in Granted => at'[c] \in Granted)
        \/ kernel' = kernel /\ kernel # ProcessOf[c]
    BY <1>1, <2>1 DEF LockFile, UnlockFile, Open, InsertName, CloseRefused,
       SetLock, CloseDenied, RemoveDenied, ClearLock, RemoveName, CloseUnlocked
  <2>4. QED
    BY <2>2, <2>3 DEF LockInv
<1>2. ASSUME NEW p \in Processes, Crash(p) PROVE LockInv'
  BY <1>2 DEF Crash, LockInv
<1>3. CASE UNCHANGED vars
  BY <1>3 DEF vars, LockInv
<1>4. QED
  BY <1>1, <1>2, <1>3 DEF Next

(* No refusal, failure or crash leaves a name in a table or a record lock  *)
(* behind, so that the next LockFile is not refused (LockFile, UnlockFile).*)
THEOREM NothingStays == Spec => []NothingLeftBehind
<1>1. Init => TypeOK /\ LockInv
  BY FileLockAssumption DEF Init, TypeOK, LockInv
<1>2. TypeOK /\ LockInv /\ [Next]_vars => TypeOK' /\ LockInv'
  BY TypeStep, LockStep
<1>3. TableExact /\ LockInv => NothingLeftBehind
  BY DEF TableExact, LockInv, NothingLeftBehind, Owner
<1>4. QED
  BY <1>1, <1>2, <1>3, TableIsExact, PTL DEF Spec
=============================================================================
