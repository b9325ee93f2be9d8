----------------------------- MODULE Algorithms -----------------------------
(***************************************************************************)
(* The functions of db/Comparator.cpp, db/DBFormat.cpp, db/Coding.cpp,     *)
(* db/Block.cpp, db/random.h and db/Iterator.cpp, and what they are to     *)
(* compute.  A behavior is one step, in which a caller picks a function    *)
(* and its input.                                                          *)
(***************************************************************************)
EXTENDS InternalKeys, Coding, RandomNumbers, Cleanups

CONSTANTS
  UserKeys,        (* the keys that are compared                           *)
  TaggedKeys,      (* the internal keys that are compared                  *)
  Contents,        (* the contents of blocks                               *)
  Seeds,           (* the arguments of Random's constructor                *)
  MaxLogs,         (* the arguments of Skewed                              *)
  Functions,       (* the cleanup functions                                *)
  Registrations    (* the functions an iterator is given, in their order   *)

ASSUME InputsAssumption ==
  /\ UserKeys \subseteq Slice
  /\ TaggedKeys \subseteq InternalKey
  /\ Contents \subseteq Seq(Octets)
  /\ \A s \in Contents : Len(s) < Modulus
  /\ Seeds \subseteq Nat
  /\ MaxLogs \subseteq Nat
  /\ Registrations \subseteq Seq(Functions)

VARIABLE input

Start == [for |-> "start"]
InputInit == input = Start

CompareKeys ==
  /\ input = Start
  /\ \E a, b \in UserKeys : input' = [for |-> "keys", a |-> a, b |-> b]

CompareInternalKeys ==
  /\ input = Start
  /\ \E a, b \in TaggedKeys : input' = [for |-> "internal", a |-> a, b |-> b]

ReadBlock ==
  /\ input = Start
  /\ \E s \in Contents : input' = [for |-> "block", s |-> s]

Draw ==
  /\ input = Start
  /\ \E s \in Seeds, maxLog \in MaxLogs :
       input' = [for |-> "random", s |-> s, maxLog |-> maxLog]

RunCleanups ==
  /\ input = Start
  /\ \E s \in Registrations : input' = [for |-> "cleanups", s |-> s]

InputNext == CompareKeys \/ CompareInternalKeys \/ ReadBlock \/ Draw \/ RunCleanups

InputSpec == InputInit /\ [][InputNext]_input

(* Separators and successors, of user keys and of internal keys, are where *)
(* Comparator.h and the assertions of DBFormat.cpp have them.              *)
ShortKeysSeparate ==
  /\ input.for = "keys" => Separates(input.a, input.b) /\ Succeeds(input.a)
  /\ input.for = "internal" =>
       InternalSeparates(input.a, input.b) /\ InternalSucceeds(input.a)

(* Internal keys are ordered as DBFormat.cpp:56 says, by what they parse   *)
(* to, and what is parsed is appended again as it was.                     *)
InternalKeysOrdered == input.for = "internal" => Ordered(input.a, input.b)

(* DecodeEntry, with its fast path and its checks, reads the three numbers *)
(* of an entry, inside the block, and accepts exactly the entries whose    *)
(* bytes are in the block if their number is taken modulo 2^32, as         *)
(* Block.cpp:45 takes it: all that are in the block, none that is not and  *)
(* whose two lengths add up to less than 2^32, but some whose sum wraps    *)
(* around and that are not in the block, against Block.cpp:20.             *)
EntriesDecode == input.for = "block" => EntryDecodes(input.s)

(* The constructor of Block accepts exactly what ends with a restart array *)
(* and its length, and the restart points are read inside the block.       *)
RestartsDecoded == input.for = "block" => RestartsDecode(input.s)

(* Random::Next is multiplication modulo M from every seed.                *)
RandomIsModular == input.for = "random" => IsModular(input.s, input.maxLog)

(* An iterator runs each cleanup function once.                            *)
CleanupsRunOnce == input.for = "cleanups" => RunsEach(input.s)
=============================================================================
