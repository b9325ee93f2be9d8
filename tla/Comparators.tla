---------------------------- MODULE Comparators -----------------------------
(***************************************************************************)
(* The order of keys of db/Comparator.cpp, and the keys it makes up to     *)
(* keep indexes short: FindShortestSeparator, FindShortSuccessor.  A key   *)
(* is a Slice, a sequence of bytes; a byte is less than Base.              *)
(***************************************************************************)
EXTENDS Integers, Sequences

CONSTANT Base      (* 256 in the code                                      *)

ASSUME BaseAssumption == Base \in Nat \ {0, 1}

Byte  == 0..(Base - 1)
Slice == Seq(Byte)

Shorter(a, b) == IF Len(a) < Len(b) THEN Len(a) ELSE Len(b)

(* The number of bytes before the first that differs, if any does.         *)
DiffIndex(a, b) ==
  CHOOSE n \in 0..Shorter(a, b) :
    /\ \A i \in 1..n : a[i] = b[i]
    /\ n < Shorter(a, b) => a[n + 1] # b[n + 1]

(* Slice::Compare: memcmp, then the lengths; only the sign matters.        *)
Compare(a, b) ==
  LET n == DiffIndex(a, b) IN
  IF n < Shorter(a, b) THEN a[n + 1] - b[n + 1] ELSE Len(a) - Len(b)

Incremented(key, i) == Append(SubSeq(key, 1, i - 1), key[i] + 1)

-----------------------------------------------------------------------------
(* Mutants of the definitions below, each a plausible slip in the code.    *)

(* The byte after the one that differs may be limit's.                     *)
SeparatorAtLimit(start, limit) ==
  LET n == DiffIndex(start, limit) IN
  IF /\ n < Shorter(start, limit)
     /\ start[n + 1] < Base - 1
     /\ start[n + 1] < limit[n + 1]
  THEN Incremented(start, n + 1)
  ELSE start

-----------------------------------------------------------------------------
FindShortestSeparator(start, limit) ==
  LET n == DiffIndex(start, limit) IN
  IF /\ n < Shorter(start, limit)
     /\ start[n + 1] < Base - 1
     /\ start[n + 1] + 1 < limit[n + 1]
  THEN Incremented(start, n + 1)
  ELSE start

FindShortSuccessor(key) ==
  IF \A i \in DOMAIN key : key[i] = Base - 1
  THEN key
  ELSE Incremented(key,
         CHOOSE i \in DOMAIN key :
           key[i] # Base - 1 /\ \A j \in 1..(i - 1) : key[j] = Base - 1)

-----------------------------------------------------------------------------
(* What Comparator.h promises of them: a separator is "a short string in   *)
(* [start,limit)" (Comparator.h:31) ...                                    *)
Separates(start, limit) ==
  LET s == FindShortestSeparator(start, limit) IN
  /\ s \in Slice /\ Len(s) <= Len(start)
  /\ Compare(start, limit) < 0 => Compare(start, s) <= 0 /\ Compare(s, limit) < 0

(* ... and a successor is "a short string >= *key" (Comparator.h:38).      *)
Succeeds(key) ==
  LET s == FindShortSuccessor(key) IN
  s \in Slice /\ Len(s) <= Len(key) /\ Compare(key, s) <= 0
=============================================================================
