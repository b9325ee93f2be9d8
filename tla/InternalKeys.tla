---------------------------- MODULE InternalKeys ----------------------------
(***************************************************************************)
(* The internal keys of db/DBFormat.cpp: a user key followed by TagBytes   *)
(* bytes that hold a sequence number and a type, and their order.  Numbers *)
(* are stored with the low byte first on every machine (db/Coding.cpp).    *)
(***************************************************************************)
EXTENDS Comparators, Numerals

CONSTANT TagBytes      (* 8 in the code                                    *)

ASSUME TagBytesAssumption == TagBytes \in Nat \ {0}

kTypeDeletion     == 0
kTypeValue        == 1
kValueTypeForSeek == kTypeValue
ValueTypes        == {kTypeDeletion, kTypeValue}

kMaxSequenceNumber == Powers(Base, TagBytes)[TagBytes - 1] - 1

EncodeFixed64(n)     == Digits(n, Base, TagBytes)
DecodeFixed64(bytes) == Number(bytes, Base)

-----------------------------------------------------------------------------
(* (seq << 8) | t                                                          *)
PackSequenceAndType(seq, t) == seq * Base + t

AppendInternalKey(key) ==
  key.user_key \o EncodeFixed64(PackSequenceAndType(key.sequence, key.type))

InternalKey == {k \in Slice : Len(k) >= TagBytes}

ExtractUserKey(k) == SubSeq(k, 1, Len(k) - TagBytes)
Tag(k) == DecodeFixed64(SubSeq(k, Len(k) - TagBytes + 1, Len(k)))

(* ParseInternalKey: the result for a key that is not too short.  Any last *)
(* byte passes for a type.                                                 *)
TooShort(k) == Len(k) < TagBytes

ParseInternalKey(k) ==
  [user_key |-> ExtractUserKey(k), sequence |-> Tag(k) \div Base, type |-> Tag(k) % Base]

-----------------------------------------------------------------------------
(* Mutants of the definitions below, each a plausible slip in the code.    *)

(* Sequence numbers ascend.                                                *)
AscendingCompare(a, b) ==
  LET result == Compare(ExtractUserKey(a), ExtractUserKey(b)) IN
  IF result # 0 THEN result ELSE Tag(a) - Tag(b)

-----------------------------------------------------------------------------
(* InternalKeyComparator; only the sign of Compare matters.                *)
InternalCompare(a, b) ==
  LET result == Compare(ExtractUserKey(a), ExtractUserKey(b)) IN
  IF result # 0 THEN result ELSE Tag(b) - Tag(a)

(* The user key tmp was found for k's: with the tag that comes first.      *)
Tacked(k, tmp) ==
  IF Len(tmp) < Len(ExtractUserKey(k)) /\ Compare(ExtractUserKey(k), tmp) < 0
  THEN tmp \o EncodeFixed64(PackSequenceAndType(kMaxSequenceNumber, kValueTypeForSeek))
  ELSE k

InternalSeparator(start, limit) ==
  Tacked(start, FindShortestSeparator(ExtractUserKey(start), ExtractUserKey(limit)))

InternalSuccessor(k) == Tacked(k, FindShortSuccessor(ExtractUserKey(k)))

-----------------------------------------------------------------------------
(* What the comments and assertions of DBFormat.cpp say: a shortened key   *)
(* is after start and before limit (lines 92 and 93) ...                   *)
InternalSeparates(start, limit) ==
  LET s == InternalSeparator(start, limit) IN
  \/ s = start
  \/ /\ Len(s) < Len(start)
     /\ InternalCompare(start, s) < 0
     /\ InternalCompare(start, limit) < 0 => InternalCompare(s, limit) < 0

(* ... and after the key (line 107) ...                                    *)
InternalSucceeds(k) ==
  LET s == InternalSuccessor(k) IN
  \/ s = k
  \/ Len(s) < Len(k) /\ InternalCompare(k, s) < 0

(* ... internal keys ascend by user key, then descend by sequence number,  *)
(* then by type (lines 56 to 59), and a parsed key is appended as it was.  *)
Ordered(a, b) ==
  LET p == ParseInternalKey(a) q == ParseInternalKey(b) IN
  /\ InternalCompare(a, b) < 0 <=>
       \/ Compare(p.user_key, q.user_key) < 0
       \/ /\ p.user_key = q.user_key
          /\ \/ p.sequence > q.sequence
             \/ p.sequence = q.sequence /\ p.type > q.type
  /\ InternalCompare(a, b) = 0 <=> a = b
  /\ p.type \in ValueTypes => AppendInternalKey(p) = a
=============================================================================
