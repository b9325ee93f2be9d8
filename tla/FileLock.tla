------------------------------ MODULE FileLock ------------------------------
(***************************************************************************)
(* PosixEnv::LockFile and PosixEnv::UnlockFile of db/Env_posix.cpp, for    *)
(* one file name: the set of names each process has locked                 *)
(* (PosixLockTable) and the fcntl record lock of the operating system.     *)
(* Every system call and every access to the table is an action.           *)
(*                                                                         *)
(* The record lock is the kernel's: it belongs to a process and not to a   *)
(* descriptor, a process that has it is granted it again, and it is gone   *)
(* as soon as the process closes ANY descriptor of the file, or dies.      *)
(***************************************************************************)
CONSTANTS
  Processes,
  Clients,      (* threads that call LockFile and UnlockFile               *)
  ProcessOf,    (* the process each of them belongs to                     *)
  None

ASSUME FileLockAssumption ==
  /\ ProcessOf \in [Clients -> Processes]
  /\ None \notin Processes

VARIABLES
  kernel,       (* the process that has the record lock, or None           *)
  table,        (* table[p]: the name is in locked_files_ of process p     *)
  at,           (* where each client is; "held": LockFile returned a lock  *)
  answer        (* what LockFile last told each client                     *)

vars == <<kernel, table, at, answer>>

Init ==
  /\ kernel = None
  /\ table = [p \in Processes |-> FALSE]
  /\ at = [c \in Clients |-> "idle"]
  /\ answer = [c \in Clients |-> "none"]

(* What the kernel does with p's record lock when p closes a descriptor.   *)
DropLock(p) == kernel' = IF kernel = p THEN None ELSE kernel

GoTo(c, place) == at' = [at EXCEPT ![c] = place]

Answer(c, a) == answer' = [answer EXCEPT ![c] = a]

-----------------------------------------------------------------------------
(* Mutants of the definitions below, each a plausible slip in the code.    *)

(* The result of locks_.Insert is not looked at.                           *)
InsertUnchecked(c) ==
  /\ at[c] = "opened"
  /\ table' = [table EXCEPT ![ProcessOf[c]] = TRUE]
  /\ GoTo(c, "inserted")
  /\ UNCHANGED <<kernel, answer>>

(* The result of LockOrUnlock is not looked at.                            *)
SetLockUnchecked(c) ==
  /\ at[c] = "inserted"
  /\ kernel' = IF kernel = None THEN ProcessOf[c] ELSE kernel
  /\ GoTo(c, "held")
  /\ Answer(c, "ok")
  /\ UNCHANGED table

(* The name stays in the table when the record lock is refused.            *)
RemoveForgotten(c) ==
  /\ at[c] = "closed"
  /\ GoTo(c, "idle")
  /\ Answer(c, "error")
  /\ UNCHANGED <<kernel, table>>

-----------------------------------------------------------------------------
(* LockFile.  open() may fail, and then nothing else happens.              *)
Open(c) ==
  /\ at[c] = "idle"
  /\ \/ GoTo(c, "opened") /\ UNCHANGED answer
     \/ Answer(c, "error") /\ UNCHANGED at
  /\ UNCHANGED <<kernel, table>>

(* locks_.Insert(fname).                                                   *)
InsertName(c) ==
  /\ at[c] = "opened"
  /\ GoTo(c, IF table[ProcessOf[c]] THEN "refused" ELSE "inserted")
  /\ table' = [table EXCEPT ![ProcessOf[c]] = TRUE]
  /\ UNCHANGED <<kernel, answer>>

(* The name was there: close(fd), "already held by process".               *)
CloseRefused(c) ==
  /\ at[c] = "refused"
  /\ DropLock(ProcessOf[c])
  /\ GoTo(c, "idle")
  /\ Answer(c, "already held by process")
  /\ UNCHANGED table

(* fcntl(F_SETLK, F_WRLCK); it may fail although the lock is free.         *)
SetLock(c) ==
  /\ at[c] = "inserted"
  /\ \/ /\ kernel \in {None, ProcessOf[c]}
        /\ kernel' = ProcessOf[c]
        /\ GoTo(c, "held")
        /\ Answer(c, "ok")
     \/ /\ GoTo(c, "denied")
        /\ UNCHANGED <<kernel, answer>>
  /\ UNCHANGED table

CloseDenied(c) ==
  /\ at[c] = "denied"
  /\ DropLock(ProcessOf[c])
  /\ GoTo(c, "closed")
  /\ UNCHANGED <<table, answer>>

RemoveDenied(c) ==
  /\ at[c] = "closed"
  /\ table' = [table EXCEPT ![ProcessOf[c]] = FALSE]
  /\ GoTo(c, "idle")
  /\ Answer(c, "error")
  /\ UNCHANGED kernel

-----------------------------------------------------------------------------
(* UnlockFile: fcntl(F_SETLK, F_UNLCK), which may fail; then, whatever it  *)
(* returned, locks_.Remove and close.                                      *)
ClearLock(c) ==
  /\ at[c] = "held"
  /\ DropLock(ProcessOf[c]) \/ UNCHANGED kernel
  /\ GoTo(c, "cleared")
  /\ UNCHANGED <<table, answer>>

RemoveName(c) ==
  /\ at[c] = "cleared"
  /\ table' = [table EXCEPT ![ProcessOf[c]] = FALSE]
  /\ GoTo(c, "removed")
  /\ UNCHANGED <<kernel, answer>>

CloseUnlocked(c) ==
  /\ at[c] = "removed"
  /\ DropLock(ProcessOf[c])
  /\ GoTo(c, "idle")
  /\ UNCHANGED <<table, answer>>

-----------------------------------------------------------------------------
(* A process dies, wherever its threads are, and is started again.         *)
Crash(p) ==
  /\ DropLock(p)
  /\ table' = [table EXCEPT ![p] = FALSE]
  /\ at' = [c \in Clients |-> IF ProcessOf[c] = p THEN "idle" ELSE at[c]]
  /\ answer' = [c \in Clients |-> IF ProcessOf[c] = p THEN "none" ELSE answer[c]]

LockFile(c) ==
  \/ Open(c) \/ InsertName(c) \/ CloseRefused(c)
  \/ SetLock(c) \/ CloseDenied(c) \/ RemoveDenied(c)

UnlockFile(c) == ClearLock(c) \/ RemoveName(c) \/ CloseUnlocked(c)

Next ==
  \/ \E c \in Clients : LockFile(c) \/ UnlockFile(c)
  \/ \E p \in Processes : Crash(p)

Spec == Init /\ [][Next]_vars

-----------------------------------------------------------------------------
(* Properties.                                                             *)

(* The lock table, the kernel's owner and the clients keep their shapes.   *)
TypeOK ==
  /\ kernel \in Processes \cup {None}
  /\ table \in [Processes -> BOOLEAN]
  /\ at \in [Clients -> {"idle", "opened", "refused", "inserted", "denied",
                         "closed", "held", "cleared", "removed"}]
  /\ answer \in [Clients -> {"none", "ok", "error", "already held by process"}]

(* Two threads of one process never both hold the lock: what the table is  *)
(* for, as fcntl grants a process the lock it already has.                 *)
OneHolderPerProcess ==
  \A c, d \in Clients :
    c # d /\ ProcessOf[c] = ProcessOf[d] => ~(at[c] = "held" /\ at[d] = "held")

(* The name is in a process's table exactly while one of its threads is    *)
(* between the Insert and the Remove of LockFile and UnlockFile: no        *)
(* failure path leaves a name behind that would refuse the lock for good.  *)
Owner(c) == at[c] \in {"inserted", "denied", "closed", "held", "cleared"}

TableExact ==
  \A p \in Processes : table[p] <=> \E c \in Clients : ProcessOf[c] = p /\ Owner(c)

(* A thread that is alone in its process: nothing the process does to the  *)
(* file is behind its back.                                                *)
Alone(c) == \A d \in Clients : ProcessOf[d] = ProcessOf[c] => d = c

(* The lock excludes: of the threads that are alone in their processes, no *)
(* two both hold it, whatever the threads of other processes do.  This is  *)
(* what DB::Open would use it for.                                         *)
OneHolder ==
  \A c, d \in Clients :
    Alone(c) /\ Alone(d) /\ at[c] = "held" /\ at[d] = "held" => c = d

(* Such a thread, when it holds the lock, is backed by the kernel's record *)
(* lock, so that no other process can be granted it.                       *)
HolderIsBacked ==
  \A c \in Clients : Alone(c) /\ at[c] = "held" => kernel = ProcessOf[c]

(* Env_posix.cpp:439 tells a second caller of the process that the lock is *)
(* "already held by process": it is, if a thread of that process holds it. *)
AlreadyHeldIsTrue ==
  \A c, d \in Clients :
    /\ answer[c] = "already held by process"
    /\ at[c] = "idle"
    /\ ProcessOf[c] = ProcessOf[d]
    /\ at[d] = "held"
    => kernel = ProcessOf[d]

(* A refusal leaves nothing behind: while no thread holds the lock or is   *)
(* in a call, neither the kernel's lock nor a table entry remains, so the  *)
(* next LockFile is not refused.                                           *)
NothingLeftBehind ==
  (\A c \in Clients : at[c] = "idle" \/ at[c] = "opened") =>
    kernel = None /\ \A p \in Processes : ~table[p]
=============================================================================
