------------------------- MODULE RandomAccessProofs -------------------------
(***************************************************************************)
(* Proofs about RandomAccess, for any number of clients, any limit and any *)
(* files.                                                                  *)
(***************************************************************************)
EXTENDS RandomAccess, FiniteSetTheorems, TLAPS

(* The mutex is held by the client that is in a critical section, and what *)
(* that client has loaded is still what is stored.                         *)
MutexInv ==
  \A c \in Clients : mu = c <=> at[c] \in {"locked", "decide", "relocked", "return"}

LoadedInv == \A c \in Clients : at[c] \in {"decide", "return"} => x[c] = allowed

(* A client has a descriptor, or a mapping, exactly in these places.       *)
HandleInv ==
  \A c \in Clients :
    /\ fd[c] # None <=> at[c] \in {"opened", "acquire", "locked", "decide", "permitted",
                                   "sized", "mapped", "failed", "direct"}
    /\ mapping[c] # None <=> at[c] \in {"mapped", "open"}

IInv == TypeOK /\ MutexInv /\ LoadedInv /\ HandleInv /\ PermitsConserved

HolderPlaces ==
  {"permitted", "sized", "mapped", "failed", "open", "release", "relocked", "return"}

-----------------------------------------------------------------------------
(* There are finitely many holders, no more than there are clients.        *)
LEMMA HoldersFinite == IsFiniteSet(Holders) /\ Cardinality(Holders) \in Nat
BY RandomAccessAssumption, FS_Subset, FS_CardinalityType DEF Holders

(* A client that goes from one place to another takes nobody along.        *)
LEMMA GoMoves ==
  ASSUME TypeOK, NEW c \in Clients, NEW from \in Places, NEW to \in Places,
         Go(c, from, to)
  PROVE  /\ at[c] = from /\ at'[c] = to /\ at' \in [Clients -> Places]
         /\ \A d \in Clients \ {c} : at'[d] = at[d]
         /\ (from \in HolderPlaces <=> to \in HolderPlaces) => Holders' = Holders
         /\ from \notin HolderPlaces /\ to \in HolderPlaces =>
              c \notin Holders /\ Holders' = Holders \cup {c}
         /\ from \in HolderPlaces /\ to \notin HolderPlaces =>
              c \in Holders /\ Holders' = Holders \ {c}
<1>1. /\ at[c] = from /\ at'[c] = to /\ at' \in [Clients -> Places]
      /\ \A d \in Clients \ {c} : at'[d] = at[d]
  BY DEF Go, TypeOK
<1>2. Holders = {d \in Clients : at[d] \in HolderPlaces}
      /\ Holders' = {d \in Clients : at'[d] \in HolderPlaces}
  BY DEF Holders, HolderPlaces
<1>3. QED
  BY <1>1, <1>2

(* The initial states: no client holds a permit, and all are left.         *)
LEMMA InitIInv == Init => IInv
<1> SUFFICES ASSUME Init PROVE IInv
  OBVIOUS
<1>1. TypeOK /\ MutexInv /\ LoadedInv /\ HandleInv
  BY RandomAccessAssumption DEF Init, TypeOK, MutexInv, LoadedInv, HandleInv, Places
<1>2. Holders = {}
  BY DEF Init, Holders
<1>3. PermitsConserved
  BY <1>2, RandomAccessAssumption, FS_EmptySet DEF Init, PermitsConserved
<1>4. QED
  BY <1>1, <1>3 DEF IInv

(* The count can neither go below zero nor beyond the limit.               *)
LEMMA CountBounded ==
  ASSUME PermitsConserved, allowed \in Int
  PROVE  allowed <= Limit
BY HoldersFinite, RandomAccessAssumption DEF PermitsConserved

-----------------------------------------------------------------------------
(* Steps that leave the count alone and keep their client on its side of   *)
(* holding a permit.                                                       *)
LEMMA SameHolders ==
  ASSUME PermitsConserved, Holders' = Holders, UNCHANGED allowed
  PROVE  PermitsConserved'
BY DEF PermitsConserved

LEMMA OpenIInv == ASSUME IInv, NEW c \in Clients, Open(c) PROVE IInv'
<1> USE RandomAccessAssumption
<1>1. Go(c, "idle", "opened") /\ entry \in Files /\ fd' = [fd EXCEPT ![c] = entry]
      /\ UNCHANGED <<allowed, mu, entry, x, length, mapping>>
  BY DEF Open, IInv, TypeOK
<1>2. /\ at[c] = "idle" /\ at'[c] = "opened" /\ at' \in [Clients -> Places]
      /\ \A d \in Clients \ {c} : at'[d] = at[d]
      /\ Holders' = Holders
  BY <1>1, GoMoves DEF IInv, Places, HolderPlaces
<1>3. TypeOK' /\ MutexInv' /\ LoadedInv' /\ HandleInv'
  BY <1>1, <1>2 DEF IInv, TypeOK, MutexInv, LoadedInv, HandleInv
<1>4. QED
  BY <1>1, <1>2, <1>3, SameHolders DEF IInv

LEMMA LookIInv == ASSUME IInv, NEW c \in Clients, Look(c) PROVE IInv'
<1> DEFINE to == IF allowed <= 0 THEN "direct" ELSE "acquire"
<1>1. Go(c, "opened", to) /\ UNCHANGED <<allowed, mu, entry, x, fd, length, mapping>>
  BY DEF Look
<1>2. /\ at[c] = "opened" /\ at'[c] = to /\ at' \in [Clients -> Places]
      /\ \A d \in Clients \ {c} : at'[d] = at[d]
      /\ Holders' = Holders
  BY <1>1, GoMoves DEF IInv, Places, HolderPlaces
<1>3. TypeOK' /\ MutexInv' /\ LoadedInv' /\ HandleInv'
  BY <1>1, <1>2 DEF IInv, TypeOK, MutexInv, LoadedInv, HandleInv
<1>4. QED
  BY <1>1, <1>2, <1>3, SameHolders DEF IInv

(* The mutex is taken when it is free, so nobody has a loaded value.       *)
LEMMA LockIInv == ASSUME IInv, NEW c \in Clients, Lock(c) PROVE IInv'
<1> USE RandomAccessAssumption
<1>1. /\ mu = None /\ mu' = c /\ UNCHANGED <<allowed, entry, x, fd, length, mapping>>
      /\ Go(c, "acquire", "locked") \/ Go(c, "release", "relocked")
  BY DEF Lock
<1>2. /\ \/ at[c] = "acquire" /\ at'[c] = "locked"
         \/ at[c] = "release" /\ at'[c] = "relocked"
      /\ at' \in [Clients -> Places]
      /\ \A d \in Clients \ {c} : at'[d] = at[d]
      /\ Holders' = Holders
  BY <1>1, GoMoves DEF IInv, Places, HolderPlaces
<1>3. TypeOK' /\ MutexInv' /\ LoadedInv' /\ HandleInv'
  BY <1>1, <1>2 DEF IInv, TypeOK, MutexInv, LoadedInv, HandleInv
<1>4. QED
  BY <1>1, <1>2, <1>3, SameHolders DEF IInv

LEMMA LoadIInv == ASSUME IInv, NEW c \in Clients, Load(c) PROVE IInv'
<1> USE RandomAccessAssumption
<1>1. /\ x' = [x EXCEPT ![c] = allowed]
      /\ UNCHANGED <<allowed, mu, entry, fd, length, mapping>>
      /\ Go(c, "locked", "decide") \/ Go(c, "relocked", "return")
  BY DEF Load
<1>2. /\ \/ at[c] = "locked" /\ at'[c] = "decide"
         \/ at[c] = "relocked" /\ at'[c] = "return"
      /\ at' \in [Clients -> Places]
      /\ \A d \in Clients \ {c} : at'[d] = at[d]
      /\ Holders' = Holders
  BY <1>1, GoMoves DEF IInv, Places, HolderPlaces
<1>3. TypeOK' /\ MutexInv' /\ LoadedInv' /\ HandleInv'
  BY <1>1, <1>2 DEF IInv, TypeOK, MutexInv, LoadedInv, HandleInv
<1>4. QED
  BY <1>1, <1>2, <1>3, SameHolders DEF IInv

(* The loaded value is current, so the store takes one permit or none.     *)
LEMMA DecideIInv == ASSUME IInv, NEW c \in Clients, Decide(c) PROVE IInv'
<1> USE RandomAccessAssumption
<1>1. /\ mu' = None /\ x' = [x EXCEPT ![c] = 0]
      /\ UNCHANGED <<entry, fd, length, mapping>>
  BY DEF Decide
<1>2. CASE x[c] > 0
  <2>1. Go(c, "decide", "permitted") /\ allowed' = x[c] - 1
    BY <1>2 DEF Decide, IInv, TypeOK
  <2>2. /\ at[c] = "decide" /\ at'[c] = "permitted" /\ at' \in [Clients -> Places]
        /\ \A d \in Clients \ {c} : at'[d] = at[d]
        /\ c \notin Holders /\ Holders' = Holders \cup {c}
    BY <2>1, GoMoves DEF IInv, Places, HolderPlaces
  <2>3. x[c] = allowed /\ mu = c /\ allowed' \in 0..Limit /\ allowed \in 0..Limit
    BY <1>2, <2>1, <2>2 DEF IInv, LoadedInv, MutexInv, TypeOK
  <2>4. TypeOK' /\ MutexInv' /\ LoadedInv' /\ HandleInv'
    <3>1. \A d \in Clients \ {c} :
            at[d] \notin {"locked", "decide", "relocked", "return"}
      BY <1>1, <2>2, <2>3 DEF IInv, MutexInv
    <3>2. TypeOK'
      <4>1. 0 \in 0..Limit
        OBVIOUS
      <4>2. x' \in [Clients -> 0..Limit]
        BY <1>1, <4>1 DEF IInv, TypeOK
      <4>3. QED
        BY <1>1, <2>2, <2>3, <4>2 DEF IInv, TypeOK
    <3>3. MutexInv' /\ LoadedInv'
      BY <1>1, <2>2, <2>3, <3>1 DEF IInv, TypeOK, MutexInv, LoadedInv
    <3>4. HandleInv'
      BY <1>1, <2>2, <2>3 DEF IInv, HandleInv
    <3>5. QED
      BY <3>2, <3>3, <3>4
  <2>5. Cardinality(Holders') = Cardinality(Holders) + 1
    BY <2>2, HoldersFinite, FS_AddElement
  <2>6. PermitsConserved'
    BY <2>1, <2>3, <2>5, HoldersFinite DEF IInv, PermitsConserved
  <2>7. QED
    BY <2>4, <2>6 DEF IInv
<1>3. CASE ~(x[c] > 0)
  <2>1. Go(c, "decide", "direct") /\ UNCHANGED allowed
    BY <1>3 DEF Decide
  <2>2. /\ at[c] = "decide" /\ at'[c] = "direct" /\ at' \in [Clients -> Places]
        /\ \A d \in Clients \ {c} : at'[d] = at[d]
        /\ Holders' = Holders
    BY <2>1, GoMoves DEF IInv, Places, HolderPlaces
  <2>3. mu = c
    BY <2>2 DEF IInv, MutexInv
  <2>4. TypeOK' /\ MutexInv' /\ LoadedInv' /\ HandleInv'
    <3>1. \A d \in Clients \ {c} :
            at[d] \notin {"locked", "decide", "relocked", "return"}
      BY <1>1, <2>1, <2>2, <2>3 DEF IInv, MutexInv
    <3>2. TypeOK'
      <4>1. 0 \in 0..Limit
        OBVIOUS
      <4>2. x' \in [Clients -> 0..Limit]
        BY <1>1, <4>1 DEF IInv, TypeOK
      <4>3. QED
        BY <1>1, <2>1, <2>2, <2>3, <4>2 DEF IInv, TypeOK
    <3>3. MutexInv' /\ LoadedInv'
      BY <1>1, <2>1, <2>2, <2>3, <3>1 DEF IInv, TypeOK, MutexInv, LoadedInv
    <3>4. HandleInv'
      BY <1>1, <2>1, <2>2, <2>3 DEF IInv, HandleInv
    <3>5. QED
      BY <3>2, <3>3, <3>4
  <2>5. QED
    BY <2>1, <2>2, <2>4, SameHolders DEF IInv
<1>4. QED
  BY <1>2, <1>3

LEMMA ReturnIInv == ASSUME IInv, NEW c \in Clients, Return(c) PROVE IInv'
<1> USE RandomAccessAssumption
<1>1. /\ Go(c, "return", "idle") /\ allowed' = x[c] + 1 /\ mu' = None
      /\ x' = [x EXCEPT ![c] = 0] /\ UNCHANGED <<entry, fd, length, mapping>>
  BY DEF Return
<1>2. /\ at[c] = "return" /\ at'[c] = "idle" /\ at' \in [Clients -> Places]
      /\ \A d \in Clients \ {c} : at'[d] = at[d]
      /\ c \in Holders /\ Holders' = Holders \ {c}
  BY <1>1, GoMoves DEF IInv, Places, HolderPlaces
<1>3. x[c] = allowed /\ mu = c /\ allowed \in 0..Limit
  BY <1>2 DEF IInv, LoadedInv, MutexInv, TypeOK
<1>4. Cardinality(Holders') = Cardinality(Holders) - 1 /\ Cardinality(Holders') \in Nat
  BY <1>2, HoldersFinite, FS_RemoveElement, FS_CardinalityType
<1>5. PermitsConserved'
  BY <1>1, <1>3, <1>4, HoldersFinite DEF IInv, PermitsConserved
<1>6. allowed' \in 0..Limit
  BY <1>1, <1>3, <1>4, <1>5 DEF PermitsConserved
<1>7. TypeOK' /\ MutexInv' /\ LoadedInv' /\ HandleInv'
  <2>1. \A d \in Clients \ {c} :
          at[d] \notin {"locked", "decide", "relocked", "return"}
    BY <1>1, <1>2, <1>3, <1>6 DEF IInv, MutexInv
  <2>2. TypeOK'
    <3>1. 0 \in 0..Limit
      OBVIOUS
    <3>2. x' \in [Clients -> 0..Limit]
      BY <1>1, <3>1 DEF IInv, TypeOK
    <3>3. QED
      BY <1>1, <1>2, <1>3, <1>6, <3>2 DEF IInv, TypeOK
  <2>3. MutexInv' /\ LoadedInv'
    BY <1>1, <1>2, <1>3, <1>6, <2>1 DEF IInv, TypeOK, MutexInv, LoadedInv
  <2>4. HandleInv'
    BY <1>1, <1>2, <1>3, <1>6 DEF IInv, HandleInv
  <2>5. QED
    BY <2>2, <2>3, <2>4
<1>8. QED
  BY <1>5, <1>7 DEF IInv

LEMMA StatIInv == ASSUME IInv, NEW c \in Clients, Stat(c) PROVE IInv'
<1> USE RandomAccessAssumption
<1>1. /\ UNCHANGED <<allowed, mu, entry, x, fd, mapping>>
      /\ length' \in [Clients -> Nat]
      /\ Go(c, "permitted", "sized") \/ Go(c, "permitted", "failed")
  BY DEF Stat, IInv, TypeOK
<1>2. /\ at[c] = "permitted" /\ at'[c] \in {"sized", "failed"}
      /\ at' \in [Clients -> Places]
      /\ \A d \in Clients \ {c} : at'[d] = at[d]
      /\ Holders' = Holders
  BY <1>1, GoMoves DEF IInv, Places, HolderPlaces
<1>3. TypeOK' /\ MutexInv' /\ LoadedInv' /\ HandleInv'
  BY <1>1, <1>2 DEF IInv, TypeOK, MutexInv, LoadedInv, HandleInv
<1>4. QED
  BY <1>1, <1>2, <1>3, SameHolders DEF IInv

(* mmap() maps the file of the descriptor, which is open.                  *)
LEMMA MapIInv == ASSUME IInv, NEW c \in Clients, Map(c) PROVE IInv'
<1> USE RandomAccessAssumption
<1>1. /\ UNCHANGED <<allowed, mu, entry, x, fd>>
      /\ length' \in [Clients -> Nat]
      /\ \/ Go(c, "sized", "mapped") /\ mapping' = [mapping EXCEPT ![c] = fd[c]]
         \/ Go(c, "sized", "failed") /\ UNCHANGED mapping
  BY DEF Map, IInv, TypeOK
<1>2. /\ at[c] = "sized" /\ at' \in [Clients -> Places]
      /\ \/ at'[c] = "mapped" /\ mapping' = [mapping EXCEPT ![c] = fd[c]]
         \/ at'[c] = "failed" /\ UNCHANGED mapping
      /\ \A d \in Clients \ {c} : at'[d] = at[d]
      /\ Holders' = Holders
  BY <1>1, GoMoves DEF IInv, Places, HolderPlaces
<1>3. TypeOK' /\ MutexInv' /\ LoadedInv' /\ HandleInv'
  BY <1>1, <1>2 DEF IInv, TypeOK, MutexInv, LoadedInv, HandleInv
<1>4. QED
  BY <1>1, <1>2, <1>3, SameHolders DEF IInv

LEMMA CloseIInv == ASSUME IInv, NEW c \in Clients, Close(c) PROVE IInv'
<1> USE RandomAccessAssumption
<1>1. /\ UNCHANGED <<allowed, mu, entry, x, length, mapping>>
      /\ fd' = [fd EXCEPT ![c] = None]
      /\ Go(c, "mapped", "open") \/ Go(c, "failed", "release")
  BY DEF Close
<1>2. /\ \/ at[c] = "mapped" /\ at'[c] = "open"
         \/ at[c] = "failed" /\ at'[c] = "release"
      /\ at' \in [Clients -> Places]
      /\ \A d \in Clients \ {c} : at'[d] = at[d]
      /\ Holders' = Holders
  BY <1>1, GoMoves DEF IInv, Places, HolderPlaces
<1>3. TypeOK' /\ MutexInv' /\ LoadedInv' /\ HandleInv'
  BY <1>1, <1>2 DEF IInv, TypeOK, MutexInv, LoadedInv, HandleInv
<1>4. QED
  BY <1>1, <1>2, <1>3, SameHolders DEF IInv

LEMMA DeleteIInv == ASSUME IInv, NEW c \in Clients, Delete(c) PROVE IInv'
<1> USE RandomAccessAssumption
<1>1. CASE DeleteMapped(c)
  <2>1. /\ Go(c, "open", "release") /\ mapping' = [mapping EXCEPT ![c] = None]
        /\ length' = [length EXCEPT ![c] = 0]
        /\ UNCHANGED <<allowed, mu, entry, x, fd>>
    BY <1>1 DEF DeleteMapped
  <2>2. /\ at[c] = "open" /\ at'[c] = "release" /\ at' \in [Clients -> Places]
        /\ \A d \in Clients \ {c} : at'[d] = at[d]
        /\ Holders' = Holders
    BY <2>1, GoMoves DEF IInv, Places, HolderPlaces
  <2>3. TypeOK' /\ MutexInv' /\ LoadedInv' /\ HandleInv'
    BY <2>1, <2>2 DEF IInv, TypeOK, MutexInv, LoadedInv, HandleInv
  <2>4. QED
    BY <2>1, <2>2, <2>3, SameHolders DEF IInv
<1>2. CASE DeleteDirect(c)
  <2>1. /\ Go(c, "direct", "idle") /\ fd' = [fd EXCEPT ![c] = None]
        /\ UNCHANGED <<allowed, mu, entry, x, length, mapping>>
    BY <1>2 DEF DeleteDirect
  <2>2. /\ at[c] = "direct" /\ at'[c] = "idle" /\ at' \in [Clients -> Places]
        /\ \A d \in Clients \ {c} : at'[d] = at[d]
        /\ Holders' = Holders
    BY <2>1, GoMoves DEF IInv, Places, HolderPlaces
  <2>3. TypeOK' /\ MutexInv' /\ LoadedInv' /\ HandleInv'
    BY <2>1, <2>2 DEF IInv, TypeOK, MutexInv, LoadedInv, HandleInv
  <2>4. QED
    BY <2>1, <2>2, <2>3, SameHolders DEF IInv
<1>3. QED
  BY <1>1, <1>2 DEF Delete

(* Every step preserves the invariant.                                     *)
LEMMA NextIInv == IInv /\ [Next]_vars => IInv'
<1> SUFFICES ASSUME IInv, [Next]_vars PROVE IInv'
  OBVIOUS
<1>1. ASSUME NEW c \in Clients, NewRandomAccessFile(c) PROVE IInv'
  BY <1>1, OpenIInv, LookIInv, LockIInv, LoadIInv, DecideIInv, ReturnIInv, StatIInv,
     MapIInv, CloseIInv DEF NewRandomAccessFile
<1>2. ASSUME NEW c \in Clients, Delete(c) PROVE IInv'
  BY <1>2, DeleteIInv
<1>3. ASSUME UNCHANGED <<allowed, mu, at, x, fd, length, mapping>>,
             entry' \in Files \cup {None}
      PROVE  IInv'
  <2>1. Holders' = Holders
    BY <1>3 DEF Holders
  <2>2. TypeOK' /\ MutexInv' /\ LoadedInv' /\ HandleInv'
    BY <1>3 DEF IInv, TypeOK, MutexInv, LoadedInv, HandleInv
  <2>3. QED
    BY <1>3, <2>1, <2>2, SameHolders DEF IInv
<1>4. CASE Replace
  BY <1>3, <1>4 DEF Replace
<1>5. CASE UNCHANGED vars
  BY <1>3, <1>5 DEF vars, IInv, TypeOK
<1>6. QED
  BY <1>1, <1>2, <1>4, <1>5 DEF Next

-----------------------------------------------------------------------------
(* The invariant holds in every state of every behaviour.                  *)
THEOREM Invariance == Spec => []IInv
<1>1. QED
  BY InitIInv, NextIInv, PTL DEF Spec

(* The limiter's count never leaves its bounds.                            *)
THEOREM TypeCorrect == Spec => []TypeOK
<1>1. IInv => TypeOK
  BY DEF IInv
<1>2. QED
  BY <1>1, Invariance, PTL

(* The count and the permits in use add up to the limit, always.           *)
THEOREM Conservation == Spec => []PermitsConserved
<1>1. IInv => PermitsConserved
  BY DEF IInv
<1>2. QED
  BY <1>1, Invariance, PTL

(* Every mapping has a permit, and no path leaves a descriptor behind.     *)
THEOREM NoLeak == Spec => []NothingLeaks
<1>1. IInv => NothingLeaks
  BY DEF IInv, HandleInv, NothingLeaks, Holders
<1>2. QED
  BY <1>1, Invariance, PTL

-----------------------------------------------------------------------------
(* A step of one client changes the phase of that client only.             *)
LEMMA PhaseMoves ==
  ASSUME TypeOK, NEW c \in Clients, NEW to \in Places, at' = [at EXCEPT ![c] = to],
         \A d \in Clients \ {c} : x'[d] = x[d], NEW p,
         p = IF to \in HolderPlaces THEN "granted"
             ELSE IF to = "direct" \/ (to = "decide" /\ x'[c] <= 0) THEN "refused"
             ELSE IF to = "idle" THEN "out" ELSE "asking"
  PROVE  Phase' = [Phase EXCEPT ![c] = p]
<1>1. at'[c] = to /\ \A d \in Clients \ {c} : at'[d] = at[d]
  BY DEF TypeOK
<1>2. Holders = {d \in Clients : at[d] \in HolderPlaces}
      /\ Holders' = {d \in Clients : at'[d] \in HolderPlaces}
  BY DEF Holders, HolderPlaces
<1>3. ASSUME NEW d \in Clients PROVE Phase'[d] = [Phase EXCEPT ![c] = p][d]
  <2>1. CASE d = c
    BY <1>1, <1>2, <2>1 DEF Phase
  <2>2. CASE d # c
    BY <1>1, <1>2, <2>2 DEF Phase
  <2>3. QED
    BY <2>1, <2>2
<1>4. QED
  BY <1>3 DEF Phase

(* The phase a place stands for.                                           *)
LEMMA PhaseIs ==
  ASSUME NEW c \in Clients
  PROVE  Phase[c] = IF at[c] \in HolderPlaces THEN "granted"
                    ELSE IF at[c] = "direct" \/ (at[c] = "decide" /\ x[c] <= 0) THEN "refused"
                    ELSE IF at[c] = "idle" THEN "out" ELSE "asking"
BY DEF Phase, Holders, HolderPlaces

(* A step that changes neither the count nor any place's phase.            *)
LEMMA PhaseStays ==
  ASSUME TypeOK, NEW c \in Clients, NEW to \in Places, at' = [at EXCEPT ![c] = to],
         UNCHANGED <<allowed, x>>,
         \/ at[c] \in HolderPlaces /\ to \in HolderPlaces
         \/ at[c] \in {"opened", "acquire", "locked"} /\ to \in {"acquire", "locked"}
  PROVE  UNCHANGED Abstract!vars
<1>1. \/ Phase[c] = "granted" /\ to \in HolderPlaces
      \/ /\ Phase[c] = "asking" /\ to \notin HolderPlaces
         /\ to # "direct" /\ to # "decide" /\ to # "idle"
  BY PhaseIs DEF HolderPlaces
<1>2. Phase' = [Phase EXCEPT ![c] = Phase[c]]
  BY <1>1, PhaseMoves
<1>3. QED
  BY <1>2 DEF Abstract!vars, Phase

LEMMA AcquireRefines ==
  ASSUME IInv, NEW c \in Clients, Look(c) \/ Lock(c) \/ Load(c) \/ Decide(c)
  PROVE  Abstract!Grant(c) \/ Abstract!Refuse(c) \/ UNCHANGED Abstract!vars
<1> USE DEF IInv
<1>1. allowed \in 0..Limit /\ x \in [Clients -> 0..Limit] /\ Limit \in Nat
  BY RandomAccessAssumption DEF TypeOK
<1>2. CASE Look(c)
  <2>1. CASE allowed <= 0
    <3>1. Go(c, "opened", "direct") /\ UNCHANGED <<allowed, x>>
      BY <1>2, <2>1 DEF Look
    <3>2. Phase' = [Phase EXCEPT ![c] = "refused"] /\ Phase[c] = "asking"
      BY <3>1, PhaseMoves, PhaseIs DEF Go, Places, HolderPlaces
    <3>3. allowed = 0
      BY <1>1, <2>1
    <3>4. QED
      BY <3>1, <3>2, <3>3 DEF Abstract!Refuse
  <2>2. CASE ~(allowed <= 0)
    BY <1>2, <2>2, PhaseStays DEF Look, Go, Places
  <2>3. QED
    BY <2>1, <2>2
<1>3. CASE Lock(c)
  BY <1>3, PhaseStays DEF Lock, Go, Places, HolderPlaces
<1>4. CASE Load(c)
  <2>1. UNCHANGED allowed /\ x' = [x EXCEPT ![c] = allowed]
        /\ x'[c] = allowed /\ \A d \in Clients \ {c} : x'[d] = x[d]
    BY <1>1, <1>4 DEF Load
  <2>2. CASE Go(c, "locked", "decide") /\ allowed <= 0
    <3>1. x'[c] <= 0 /\ allowed = 0
      BY <1>1, <2>1, <2>2
    <3>2. Phase' = [Phase EXCEPT ![c] = "refused"]
      BY <2>1, <2>2, <3>1, PhaseMoves DEF Go, Places, HolderPlaces
    <3>3. Phase[c] = "asking"
      BY <2>2, PhaseIs DEF Go, HolderPlaces
    <3>4. QED
      BY <2>1, <3>1, <3>2, <3>3 DEF Abstract!Refuse
  <2>3. CASE Go(c, "locked", "decide") /\ ~(allowed <= 0)
    <3>1. ~(x'[c] <= 0)
      BY <1>1, <2>1, <2>3
    <3>2. Phase' = [Phase EXCEPT ![c] = "asking"]
      BY <2>1, <2>3, <3>1, PhaseMoves DEF Go, Places, HolderPlaces
    <3>3. Phase[c] = "asking"
      BY <2>3, PhaseIs DEF Go, HolderPlaces
    <3>4. QED
      BY <2>1, <3>2, <3>3 DEF Abstract!vars, Phase
  <2>4. CASE Go(c, "relocked", "return")
    <3>1. Phase' = [Phase EXCEPT ![c] = "granted"] /\ Phase[c] = "granted"
      BY <2>1, <2>4, PhaseMoves, PhaseIs DEF Go, Places, HolderPlaces
    <3>2. QED
      BY <2>1, <3>1 DEF Abstract!vars, Phase
  <2>5. QED
    BY <1>4, <2>2, <2>3, <2>4 DEF Load
<1>5. CASE Decide(c)
  <2>1. at[c] = "decide" /\ x[c] = allowed /\ x' = [x EXCEPT ![c] = 0]
        /\ \A d \in Clients \ {c} : x'[d] = x[d]
    BY <1>1, <1>5 DEF Decide, Go, LoadedInv
  <2>2. CASE x[c] > 0
    <3>1. Go(c, "decide", "permitted") /\ allowed' = allowed - 1
      BY <1>1, <1>5, <2>1, <2>2 DEF Decide
    <3>2. Phase' = [Phase EXCEPT ![c] = "granted"]
      <4>1. /\ at' = [at EXCEPT ![c] = "permitted"]
            /\ "permitted" \in Places /\ "permitted" \in HolderPlaces
        BY <3>1 DEF Go, Places, HolderPlaces
      <4>2. QED
        BY <2>1, <4>1, PhaseMoves
    <3>3. Phase[c] = "asking"
      BY <1>1, <2>1, <2>2, PhaseIs DEF HolderPlaces
    <3>4. QED
      BY <2>1, <2>2, <3>1, <3>2, <3>3 DEF Abstract!Grant
  <2>3. CASE ~(x[c] > 0)
    <3>1. Go(c, "decide", "direct") /\ UNCHANGED allowed /\ x[c] <= 0
      BY <1>1, <1>5, <2>3 DEF Decide
    <3>2. Phase' = [Phase EXCEPT ![c] = "refused"]
      BY <2>1, <3>1, PhaseMoves DEF Go, Places, HolderPlaces
    <3>3. Phase[c] = "refused"
      BY <2>1, <3>1, PhaseIs DEF HolderPlaces
    <3>4. QED
      BY <3>1, <3>2, <3>3 DEF Abstract!vars, Phase
  <2>4. QED
    BY <2>2, <2>3
<1>6. QED
  BY <1>2, <1>3, <1>4, <1>5

(* Every step is a step of the permits or invisible to them.               *)
LEMMA StepRefines == IInv /\ [Next]_vars => [Abstract!Next]_(Abstract!vars)
<1> SUFFICES ASSUME IInv, [Next]_vars PROVE [Abstract!Next]_(Abstract!vars)
  OBVIOUS
<1> USE DEF IInv
<1>1. ASSUME NEW c \in Clients, Open(c) PROVE Abstract!Ask(c)
  <2>1. Go(c, "idle", "opened") /\ UNCHANGED <<allowed, x>>
    BY <1>1 DEF Open
  <2>2. Phase' = [Phase EXCEPT ![c] = "asking"] /\ Phase[c] = "out"
    <3>1. /\ at' = [at EXCEPT ![c] = "opened"] /\ at[c] = "idle"
          /\ "opened" \in Places /\ {"opened", "idle"} \cap HolderPlaces = {}
      BY <2>1 DEF Go, Places, HolderPlaces
    <3>2. Phase' = [Phase EXCEPT ![c] = "asking"]
      BY <2>1, <3>1, PhaseMoves
    <3>3. QED
      BY <3>1, <3>2, PhaseIs
  <2>3. QED
    BY <2>1, <2>2 DEF Abstract!Ask
<1>2. ASSUME NEW c \in Clients, Return(c) PROVE Abstract!GiveBack(c)
  <2>1. /\ Go(c, "return", "idle") /\ x' = [x EXCEPT ![c] = 0]
        /\ allowed' = allowed + 1 /\ \A d \in Clients \ {c} : x'[d] = x[d]
    BY <1>2 DEF Return, LoadedInv, TypeOK, Go
  <2>2. Phase' = [Phase EXCEPT ![c] = "out"] /\ Phase[c] = "granted"
    BY <2>1, PhaseMoves, PhaseIs DEF Go, Places, HolderPlaces
  <2>3. QED
    BY <2>1, <2>2 DEF Abstract!GiveBack
<1>3. ASSUME NEW c \in Clients, DeleteDirect(c) PROVE Abstract!GoAway(c)
  <2>1. Go(c, "direct", "idle") /\ UNCHANGED <<allowed, x>>
    BY <1>3 DEF DeleteDirect
  <2>2. Phase' = [Phase EXCEPT ![c] = "out"] /\ Phase[c] = "refused"
    BY <2>1, PhaseMoves, PhaseIs DEF Go, Places, HolderPlaces
  <2>3. QED
    BY <2>1, <2>2 DEF Abstract!GoAway
<1>4. ASSUME NEW c \in Clients, Stat(c) \/ Map(c) \/ Close(c) \/ DeleteMapped(c)
      PROVE  UNCHANGED Abstract!vars
  BY <1>4, PhaseStays DEF Stat, Map, Close, DeleteMapped, Go, Places, HolderPlaces
<1>5. ASSUME UNCHANGED <<allowed, at, x>> PROVE UNCHANGED Abstract!vars
  BY <1>5 DEF Abstract!vars, Phase, Holders
<1>6. CASE Replace
  BY <1>5, <1>6 DEF Replace
<1>7. CASE UNCHANGED vars
  BY <1>5, <1>7 DEF vars
<1>8. ASSUME NEW c \in Clients, NewRandomAccessFile(c) \/ Delete(c)
      PROVE  [Abstract!Next]_(Abstract!vars)
  BY <1>1, <1>2, <1>3, <1>4, <1>8, AcquireRefines
     DEF NewRandomAccessFile, Delete, Abstract!Next
<1>9. QED
  BY <1>6, <1>7, <1>8 DEF Next

(* Acquire and Release are atomic for any number of threads and permits.   *)
THEOREM AcquireAtomic == Spec => ImplementsPermits
<1>1. Init => Abstract!Init
  BY DEF Init, Abstract!Init, Phase, Holders
<1>2. QED
  BY <1>1, StepRefines, Invariance, PTL DEF Spec, ImplementsPermits, Abstract!Spec

-----------------------------------------------------------------------------
(* Where a client has nothing left to do but what it is asked for next.    *)
Resting(c) == at[c] \in {"idle", "open", "direct"}

(* The steps that a client between two rests may still have to take.       *)
StepsLeft(c) ==
  CASE at[c] = "opened"    -> 10
    [] at[c] = "acquire"   -> 9
    [] at[c] = "locked"    -> 8
    [] at[c] = "decide"    -> 7
    [] at[c] = "permitted" -> 6
    [] at[c] = "sized"     -> 5
    [] at[c] = "failed"    -> 4
    [] at[c] = "release"   -> 3
    [] at[c] = "relocked"  -> 2
    [] at[c] \in {"mapped", "return"} -> 1
    [] OTHER -> 0

(* Every step of a client takes it nearer to its rest, and no step of any  *)
(* other thread takes it back.                                             *)
Advance ==
  \A c \in Clients : ~Resting(c) =>
    IF Step(c) THEN StepsLeft(c)' < StepsLeft(c) ELSE at'[c] = at[c]

(* The only thing a client waits for is the mutex.                         *)
GoesOn(c) == ~Resting(c) /\ (at[c] \in {"acquire", "release"} => mu = None)

SomebodyGoesOn ==
  (\E c \in Clients : ~Resting(c)) => \E c \in Clients : GoesOn(c)

LEMMA StepCloser ==
  ASSUME TypeOK, NEW c \in Clients, Step(c)
  PROVE  StepsLeft(c)' < StepsLeft(c)
<1>1. \A from, to : Go(c, from, to) => at[c] = from /\ at'[c] = to
  BY DEF TypeOK, Go
<1>2. CASE Look(c) \/ Lock(c) \/ Load(c)
  BY <1>1, <1>2 DEF Look, Lock, Load, StepsLeft
<1>3. CASE Decide(c) \/ Return(c)
  BY <1>1, <1>3 DEF Decide, Return, StepsLeft
<1>4. CASE Stat(c) \/ Map(c) \/ Close(c)
  BY <1>1, <1>4 DEF Stat, Map, Close, StepsLeft
<1>5. QED
  BY <1>2, <1>3, <1>4 DEF Step

(* A client moves by its own steps only.                                   *)
LEMMA OthersWait ==
  ASSUME TypeOK, NEW c \in Clients, ~Resting(c), [Next]_vars, ~Step(c)
  PROVE  at'[c] = at[c]
<1>1. \A d \in Clients : \A from, to : Go(d, from, to) /\ d # c => at'[c] = at[c]
  BY DEF TypeOK, Go
<1>2. ASSUME NEW d \in Clients, NewRandomAccessFile(d) \/ Delete(d), d # c
      PROVE  at'[c] = at[c]
  <2>1. \E from, to : Go(d, from, to)
    BY <1>2 DEF NewRandomAccessFile, Open, Look, Lock, Load, Decide, Return, Stat, Map,
                Close, Delete, DeleteMapped, DeleteDirect
  <2>2. QED
    BY <1>1, <1>2, <2>1
<1>3. ~NewRandomAccessFile(c) /\ ~Delete(c)
  BY DEF NewRandomAccessFile, Open, Step, Delete, DeleteMapped, DeleteDirect, Go, Resting
<1>4. CASE Replace \/ UNCHANGED vars
  BY <1>4 DEF Replace, vars
<1>5. QED
  BY <1>2, <1>3, <1>4 DEF Next

(* Whoever holds the mutex goes on, and if nobody does anybody may.        *)
LEMMA MutexGoesOn == IInv => SomebodyGoesOn
<1> SUFFICES ASSUME IInv, NEW c \in Clients, ~Resting(c) PROVE \E d \in Clients : GoesOn(d)
  BY DEF SomebodyGoesOn
<1>1. mu \in Clients \cup {None} /\ MutexInv
  BY DEF IInv, TypeOK
<1>2. CASE mu = None
  BY <1>2 DEF GoesOn
<1>3. CASE mu \in Clients
  <2>1. at[mu] \in {"locked", "decide", "relocked", "return"}
    BY <1>1, <1>3 DEF MutexInv
  <2>2. GoesOn(mu)
    BY <2>1 DEF GoesOn, Resting
  <2>3. QED
    BY <1>3, <2>2
<1>4. QED
  BY <1>1, <1>2, <1>3

(* NewRandomAccessFile returns after at most ten steps of its thread, and  *)
(* the destructor of a mapped file after three, whatever fails on the way; *)
(* some thread inside them can always go on, whatever the others do.       *)
THEOREM CallsAdvance == Spec => [][Advance]_vars /\ []SomebodyGoesOn
<1>1. IInv /\ [Next]_vars => [Advance]_vars
  <2> SUFFICES ASSUME IInv, [Next]_vars, NEW c \in Clients, ~Resting(c)
               PROVE  IF Step(c) THEN StepsLeft(c)' < StepsLeft(c) ELSE at'[c] = at[c]
    BY DEF Advance
  <2>1. QED
    BY StepCloser, OthersWait DEF IInv
<1>2. QED
  BY <1>1, MutexGoesOn, Invariance, PTL DEF Spec
=============================================================================
