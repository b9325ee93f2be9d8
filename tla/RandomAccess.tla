---------------------------- MODULE RandomAccess ----------------------------
(***************************************************************************)
(* PosixEnv::NewRandomAccessFile of db/Env_posix.cpp, the two kinds of     *)
(* RandomAccessFile it returns and the MmapLimiter that chooses between    *)
(* them, for one file name.  A client is a thread with at most one file;   *)
(* between the system calls it makes, other threads acquire and release    *)
(* permits, and the name comes to stand for another file or for none       *)
(* (RenameFile, DeleteFile).                                               *)
(*                                                                         *)
(* MmapLimiter reads allowed_ first without and then with its mutex; the   *)
(* load and the store of a critical section are separate actions.          *)
(***************************************************************************)
EXTENDS Integers, FiniteSets

CONSTANTS
  Clients,
  Files,        (* the files the name may stand for                        *)
  Size,         (* the length of each of them                              *)
  Limit,        (* how many files may be mapped (1000 in the code, or 0)   *)
  None

ASSUME RandomAccessAssumption ==
  /\ IsFiniteSet(Clients)
  /\ Limit \in Nat
  /\ None \notin Clients \cup Files
  /\ Size \in [Files -> Nat]

VARIABLES
  allowed,      (* allowed_                                                *)
  mu,           (* the client that holds the limiter's mutex, or None      *)
  entry,        (* the file the name stands for, or None                   *)
  at,           (* where each client is                                    *)
  x,            (* what it read from allowed_ under the mutex              *)
  fd,           (* the file its open descriptor refers to, or None         *)
  length,       (* size, later length_                                     *)
  mapping       (* the file it has mapped, or None                         *)

vars == <<allowed, mu, entry, at, x, fd, length, mapping>>

Init ==
  /\ allowed = Limit
  /\ mu = None
  /\ entry \in Files \cup {None}
  /\ at = [c \in Clients |-> "idle"]
  /\ x = [c \in Clients |-> 0]
  /\ fd = [c \in Clients |-> None]
  /\ length = [c \in Clients |-> 0]
  /\ mapping = [c \in Clients |-> None]

Go(c, from, to) ==
  /\ at[c] = from
  /\ at' = [at EXCEPT ![c] = to]

-----------------------------------------------------------------------------
(* Mutants of the definitions below, each a plausible slip in the code.    *)

(* Acquire trusts its first look at allowed_ and stores without a second.  *)
DecideUnchecked(c) ==
  /\ Go(c, "decide", "permitted")
  /\ allowed' = x[c] - 1
  /\ mu' = None
  /\ UNCHANGED <<entry, x, fd, length, mapping>>

(* The permit of a file that could not be mapped is not released.          *)
CloseForgets(c) ==
  /\ \/ Go(c, "mapped", "open")
     \/ Go(c, "failed", "idle")
  /\ fd' = [fd EXCEPT ![c] = None]
  /\ UNCHANGED <<allowed, mu, entry, x, length, mapping>>

(* A file of no bytes cannot be mapped, and its descriptor stays open.     *)
CloseMappedOnly(c) ==
  /\ \/ Go(c, "mapped", "open") /\ fd' = [fd EXCEPT ![c] = None]
     \/ Go(c, "failed", "release") /\ UNCHANGED fd
  /\ UNCHANGED <<allowed, mu, entry, x, length, mapping>>

(* Acquire leaves its mutex locked when it refuses.                        *)
DecideLocked(c) ==
  /\ \/ /\ x[c] > 0
        /\ Go(c, "decide", "permitted")
        /\ allowed' = x[c] - 1
        /\ mu' = None
     \/ /\ x[c] <= 0
        /\ Go(c, "decide", "direct")
        /\ UNCHANGED <<allowed, mu>>
  /\ UNCHANGED <<entry, x, fd, length, mapping>>

-----------------------------------------------------------------------------
(* NewRandomAccessFile: open(), which may fail for other reasons too.      *)
Open(c) ==
  /\ entry # None
  /\ Go(c, "idle", "opened")
  /\ fd' = [fd EXCEPT ![c] = entry]
  /\ UNCHANGED <<allowed, mu, entry, x, length, mapping>>

(* MmapLimiter::Acquire.  The first look is taken without the mutex.       *)
Look(c) ==
  /\ Go(c, "opened", IF allowed <= 0 THEN "direct" ELSE "acquire")
  /\ UNCHANGED <<allowed, mu, entry, x, fd, length, mapping>>

(* Acquire and Release lock the mutex and load allowed_ ...                *)
Lock(c) ==
  /\ mu = None
  /\ mu' = c
  /\ Go(c, "acquire", "locked") \/ Go(c, "release", "relocked")
  /\ UNCHANGED <<allowed, entry, x, fd, length, mapping>>

Load(c) ==
  /\ Go(c, "locked", "decide") \/ Go(c, "relocked", "return")
  /\ x' = [x EXCEPT ![c] = allowed]
  /\ UNCHANGED <<allowed, mu, entry, fd, length, mapping>>

(* ... and store it and unlock the mutex.                                  *)
Decide(c) ==
  /\ \/ /\ x[c] > 0
        /\ Go(c, "decide", "permitted")
        /\ allowed' = x[c] - 1
     \/ /\ x[c] <= 0
        /\ Go(c, "decide", "direct")
        /\ UNCHANGED allowed
  /\ mu' = None
  /\ x' = [x EXCEPT ![c] = 0]
  /\ UNCHANGED <<entry, fd, length, mapping>>

Return(c) ==
  /\ Go(c, "return", "idle")
  /\ allowed' = x[c] + 1
  /\ mu' = None
  /\ x' = [x EXCEPT ![c] = 0]
  /\ UNCHANGED <<entry, fd, length, mapping>>

(* GetFileSize(name): stat() of what the name stands for now.              *)
Stat(c) ==
  /\ \/ /\ entry # None
        /\ Go(c, "permitted", "sized")
        /\ length' = [length EXCEPT ![c] = Size[entry]]
     \/ /\ Go(c, "permitted", "failed")
        /\ length' = [length EXCEPT ![c] = 0]
  /\ UNCHANGED <<allowed, mu, entry, x, fd, mapping>>

(* mmap(), which refuses to map no bytes and may fail for other reasons.   *)
Map(c) ==
  /\ \/ /\ length[c] > 0
        /\ Go(c, "sized", "mapped")
        /\ mapping' = [mapping EXCEPT ![c] = fd[c]]
        /\ UNCHANGED length
     \/ /\ Go(c, "sized", "failed")
        /\ length' = [length EXCEPT ![c] = 0]
        /\ UNCHANGED mapping
  /\ UNCHANGED <<allowed, mu, entry, x, fd>>

(* close(fd), with or without a mapping; without one the permit goes back. *)
Close(c) ==
  /\ Go(c, "mapped", "open") \/ Go(c, "failed", "release")
  /\ fd' = [fd EXCEPT ![c] = None]
  /\ UNCHANGED <<allowed, mu, entry, x, length, mapping>>

NewRandomAccessFile(c) ==
  \/ Open(c) \/ Look(c) \/ Lock(c) \/ Load(c) \/ Decide(c) \/ Return(c)
  \/ Stat(c) \/ Map(c) \/ Close(c)

-----------------------------------------------------------------------------
(* The files are deleted: munmap() and Release, or close().                *)
DeleteMapped(c) ==
  /\ Go(c, "open", "release")
  /\ mapping' = [mapping EXCEPT ![c] = None]
  /\ length' = [length EXCEPT ![c] = 0]
  /\ UNCHANGED <<allowed, mu, entry, x, fd>>

DeleteDirect(c) ==
  /\ Go(c, "direct", "idle")
  /\ fd' = [fd EXCEPT ![c] = None]
  /\ UNCHANGED <<allowed, mu, entry, x, length, mapping>>

(* RenameFile of another file onto the name, or DeleteFile of the name.    *)
Replace ==
  /\ entry' \in (Files \cup {None}) \ {entry}
  /\ UNCHANGED <<allowed, mu, at, x, fd, length, mapping>>

Delete(c) == DeleteMapped(c) \/ DeleteDirect(c)

Next == (\E c \in Clients : NewRandomAccessFile(c) \/ Delete(c)) \/ Replace

Spec == Init /\ [][Next]_vars

(* A thread inside NewRandomAccessFile or a destructor keeps running, and  *)
(* gets the mutex if it is free again and again.                           *)
Step(c) ==
  Look(c) \/ Lock(c) \/ Load(c) \/ Decide(c) \/ Return(c) \/ Stat(c) \/ Map(c) \/ Close(c)

Fairness == \A c \in Clients : WF_vars(Step(c)) /\ SF_vars(Lock(c))

FairSpec == Spec /\ Fairness

-----------------------------------------------------------------------------
(* Properties.                                                             *)

Places == {"idle", "opened", "acquire", "locked", "decide", "permitted", "sized",
           "mapped", "failed", "open", "direct", "release", "relocked", "return"}

(* The limiter's count stays within its bounds, and the locals of          *)
(* NewRandomAccessFile keep their types.                                   *)
TypeOK ==
  /\ allowed \in 0..Limit
  /\ mu \in Clients \cup {None}
  /\ entry \in Files \cup {None}
  /\ at \in [Clients -> Places]
  /\ x \in [Clients -> 0..Limit]
  /\ fd \in [Clients -> Files \cup {None}]
  /\ length \in [Clients -> Nat]
  /\ mapping \in [Clients -> Files \cup {None}]

(* The clients that have taken a permit and not yet given it back.         *)
Holders ==
  {c \in Clients : at[c] \in {"permitted", "sized", "mapped", "failed", "open",
                              "release", "relocked", "return"}}

(* No permit is lost or made up: the count and the permits in use add up   *)
(* to the limit at every instant, whatever fails on the way to a mapping   *)
(* and however Acquire and Release of several threads overlap.             *)
PermitsConserved == allowed + Cardinality(Holders) = Limit

(* Every mapping has a permit, so that there are never more than the       *)
(* limit, and a client that keeps nothing has left neither a descriptor    *)
(* nor a mapping behind, on any error path.                                *)
NothingLeaks ==
  /\ \A c \in Clients : mapping[c] # None => c \in Holders
  /\ \A c \in Clients : fd[c] # None =>
       at[c] \notin {"idle", "open", "release", "relocked", "return"}
  /\ \A c \in Clients : at[c] = "idle" => mapping[c] = None

(* Acquire and Release are atomic although they take several steps, and    *)
(* Acquire refuses only if at some instant of the call no permit is left.  *)
Phase ==
  [c \in Clients |->
     IF c \in Holders THEN "granted"
     ELSE IF at[c] = "direct" \/ (at[c] = "decide" /\ x[c] <= 0) THEN "refused"
     ELSE IF at[c] = "idle" THEN "out" ELSE "asking"]

Abstract == INSTANCE Permits WITH free <- allowed, phase <- Phase

ImplementsPermits == Abstract!Spec

(* Every NewRandomAccessFile that has opened its file returns: with one of *)
(* the two kinds of file, or with an error.                                *)
CallsReturn ==
  \A c \in Clients : at[c] = "opened" ~> at[c] \in {"open", "direct", "idle"}

(* "base[0,length-1] contains the mmapped contents of the file"            *)
(* (Env_posix.cpp:153): as many bytes as the file that was opened has.     *)
MappingFits ==
  \A c \in Clients : at[c] = "open" => length[c] = Size[mapping[c]]
=============================================================================
