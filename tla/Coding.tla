------------------------------- MODULE Coding -------------------------------
(***************************************************************************)
(* Numbers in bytes: the fixed and the variable-length numbers of          *)
(* db/Coding.cpp, and how db/Block.cpp reads the entries and the restart   *)
(* array of a block with them.  A byte is less than Radix; the upper half   *)
(* of the bytes say that more follow.  Bytes are read from byte p of a     *)
(* sequence on, whose end is the code's limit; nothing behind it exists.   *)
(***************************************************************************)
EXTENDS Numerals

CONSTANTS
  Radix,         (* 256 in the code                                        *)
  Groups,        (* the bytes a 32-bit number may take: 5                  *)
  Groups64,      (* the bytes a 64-bit number may take: 10                 *)
  Modulus,       (* 2^32                                                   *)
  Modulus64,     (* 2^64                                                   *)
  WordBytes      (* sizeof(uint32_t)                                       *)

Octets == 0..(Radix - 1)
More   == Radix \div 2

(* A byte with nothing to follow is a number, and a word holds a number.   *)
ASSUME CodingAssumption ==
  /\ Radix \in Nat \ {0, 1}
  /\ {Groups, Groups64, Modulus, Modulus64, WordBytes} \subseteq Nat \ {0}
  /\ More <= Modulus
  /\ Modulus <= Powers(Radix, WordBytes)[WordBytes]

NULL == [next |-> 0]

-----------------------------------------------------------------------------
(* Mutants of the definitions below, each a plausible slip in the code.    *)

(* The bit that says that more bytes follow stays in the number.           *)
GetVarintUnmasked(s, p, groups, modulus) ==
  LET turn[n \in 0..groups] ==
        IF n = 0 THEN [next |-> p, value |-> 0, more |-> TRUE]
        ELSE LET last == turn[n - 1]
                 byte == s[last.next]
             IN IF ~last.more \/ last.next > Len(s) THEN last
                ELSE [next  |-> last.next + 1,
                      value |-> (last.value + byte * Powers(More, groups)[n - 1]) % modulus,
                      more  |-> byte >= More]
      end == turn[groups]
  IN IF end.more THEN NULL ELSE [next |-> end.next, value |-> end.value]

(* The count itself is forgotten.                                          *)
MaxNumRestartUncounted(s) == Len(s) \div WordBytes

-----------------------------------------------------------------------------
(* The loop of GetVarint32PtrFallback and GetVarint64Ptr: p and *value     *)
(* after n turns, and whether it goes on.  What is shifted out of the      *)
(* result is lost.                                                         *)
GetVarintLoop(s, p, groups, modulus) ==
  LET turn[n \in 0..groups] ==
        IF n = 0 THEN [next |-> p, value |-> 0, more |-> TRUE]
        ELSE LET last == turn[n - 1]
                 byte == s[last.next]
             IN IF ~last.more \/ last.next > Len(s) THEN last
                ELSE [next  |-> last.next + 1,
                      value |-> (last.value + (byte % More) * Powers(More, groups)[n - 1]) % modulus,
                      more  |-> byte >= More]
      end == turn[groups]
  IN IF end.more THEN NULL ELSE [next |-> end.next, value |-> end.value]

GetVarint32Ptr(s, p) ==
  IF p <= Len(s) /\ s[p] < More
  THEN [next |-> p + 1, value |-> s[p]]
  ELSE GetVarintLoop(s, p, Groups, Modulus)

GetVarint64Ptr(s, p) == GetVarintLoop(s, p, Groups64, Modulus64)

DecodeFixed32(s, p) == Number(SubSeq(s, p, p + WordBytes - 1), Radix)

-----------------------------------------------------------------------------
(* Block.cpp: the entry at p, with the place behind its three numbers.     *)
Entry(next, shared, nonShared, valueLength) ==
  [next |-> next, shared |-> shared, nonShared |-> nonShared, valueLength |-> valueLength]

Fits(s, e) == (Len(s) - e.next + 1) % Modulus >= (e.nonShared + e.valueLength) % Modulus

DecodeNumbers(s, p) ==
  IF \A i \in p..(p + 2) : s[i] < More
  THEN Entry(p + 3, s[p], s[p + 1], s[p + 2])
  ELSE LET shared == GetVarint32Ptr(s, p) IN
       IF shared = NULL THEN NULL
       ELSE LET nonShared == GetVarint32Ptr(s, shared.next) IN
       IF nonShared = NULL THEN NULL
       ELSE LET valueLength == GetVarint32Ptr(s, nonShared.next) IN
       IF valueLength = NULL THEN NULL
       ELSE Entry(valueLength.next, shared.value, nonShared.value, valueLength.value)

DecodeEntry(s, p) ==
  IF Len(s) - p + 1 < 3 THEN NULL
  ELSE LET e == DecodeNumbers(s, p) IN
       IF e # NULL /\ Fits(s, e) THEN e ELSE NULL

(* The constructor of Block: size_, 0 for contents that are no block, and  *)
(* otherwise restart_offset_.                                              *)
NumRestarts(s) == DecodeFixed32(s, Len(s) - WordBytes + 1)

MaxNumRestart(s) == (Len(s) - WordBytes) \div WordBytes

Size(s) == IF Len(s) < WordBytes \/ NumRestarts(s) > MaxNumRestart(s) THEN 0 ELSE Len(s)

RestartOffset(s) == Len(s) - (1 + NumRestarts(s)) * WordBytes

(* Block::Iter's data_ + restarts_ + index * sizeof(uint32_t).             *)
GetRestartPoint(s, index) == DecodeFixed32(s, RestartOffset(s) + index * WordBytes + 1)

-----------------------------------------------------------------------------
(* What they are to compute, without loops and shortcuts.                  *)
Varint(s, p, groups, modulus) ==
  LET ends == {i \in 0..(groups - 1) : p + i <= Len(s) /\ s[p + i] < More} IN
  IF ends = {} THEN NULL
  ELSE LET last == CHOOSE i \in ends : \A j \in ends : i <= j IN
       [next  |-> p + last + 1,
        value |-> Number([i \in 1..(last + 1) |-> s[p + i - 1] % More], More) % modulus]

Word(value) == Digits(value, Radix, WordBytes)

(* An entry is three numbers and as many bytes behind them as two of the   *)
(* numbers add up to; it is accepted if these bytes are in the block.  The *)
(* sum Block.cpp:45 compares is taken modulo 2^32, though: an entry whose  *)
(* numbers add up to 2^32 or more is never in the block, and is accepted   *)
(* all the same if what is left of the sum is.  That is not what           *)
(* Block.cpp:20 says, "If any errors are detected, returns NULL".          *)
EntryDecodes(s) ==
  LET shared == Varint(s, 1, Groups, Modulus)
      nonShared == Varint(s, shared.next, Groups, Modulus)
      valueLength == Varint(s, nonShared.next, Groups, Modulus)
      e == DecodeEntry(s, 1)
  IN /\ GetVarint64Ptr(s, 1) = Varint(s, 1, Groups64, Modulus64)
     /\ IF Len(s) < 3 \/ shared = NULL \/ nonShared = NULL \/ valueLength = NULL
        THEN e = NULL
        ELSE LET needed == (nonShared.value + valueLength.value) % Modulus IN
             e = IF valueLength.next + needed > Len(s) + 1 THEN NULL
                 ELSE Entry(valueLength.next, shared.value, nonShared.value, valueLength.value)

(* A block ends with an array of words and their number, and anything that *)
(* does not is refused; all restart points are read inside the block.      *)
RestartsDecode(s) ==
  LET counts == {n \in 0..(Len(s) \div WordBytes) :
                   /\ (n + 1) * WordBytes <= Len(s)
                   /\ SubSeq(s, Len(s) - WordBytes + 1, Len(s)) = Word(n)}
  IN /\ Size(s) = IF counts = {} THEN 0 ELSE Len(s)
     /\ \A n \in counts :
          /\ NumRestarts(s) = n
          /\ \A index \in 0..(n - 1) :
               LET first == Len(s) - (n + 1 - index) * WordBytes + 1 IN
               Word(GetRestartPoint(s, index)) = SubSeq(s, first, first + WordBytes - 1)
=============================================================================
