---------------------------- MODULE BlockProofs -----------------------------
(***************************************************************************)
(* Proofs about Block, for any blocks, keys and comparator, and about the  *)
(* algorithms around it, for inputs of any length and any constants: that  *)
(* BytewiseComparator is a comparator Block may be given, and that every   *)
(* input of Algorithms is treated as its properties say.                   *)
(***************************************************************************)
EXTENDS Block, Algorithms, SequenceTheorems, WellFoundedInduction, TLAPS

(* The interval between two restart points that the bisection has left.    *)
Low(l)  == l > 0 => Less(block.keys[block.restarts[l]], target)
High(r) == r + 1 < block.num => ~Less(block.keys[block.restarts[r + 1]], target)

BisectInv == pc = "bisect" => left <= right /\ Low(left) /\ High(right)

(* The scan is at the restart point, with no key yet, or behind an entry   *)
(* before the target, with that entry's key.                               *)
ScanInv ==
  pc = "scan" =>
    /\ Low(left) /\ High(left)
    /\ restartIndex = left
    /\ block.restarts[left] <= end
    /\ IF end = block.restarts[left] THEN key = <<>>
       ELSE key = block.keys[end - 1] /\ Less(block.keys[end - 1], target)

TargetInv == pc # "new" => target \in Targets

(* A Seek that has found an entry leaves restart_index_ where it began.    *)
IndexInv == pc = "idle" /\ Valid => restartIndex = left

IInv == TypeOK /\ TargetInv /\ BisectInv /\ ScanInv /\ FindsFirst /\ ShortScan /\ IndexInv

-----------------------------------------------------------------------------
(* A key is what it shares with another one and the rest of it.            *)
LEMMA Rebuild ==
  ASSUME NEW S, NEW j \in Seq(S), NEW k \in Seq(S), NEW s \in Nat,
         s <= Len(j), s <= Len(k), \A n \in 1..s : k[n] = j[n]
  PROVE  SubSeq(j, 1, s) \o SubSeq(k, s + 1, Len(k)) = k
<1> DEFINE a == SubSeq(j, 1, s)
           b == SubSeq(k, s + 1, Len(k))
<1>1. /\ a \in Seq(S) /\ Len(a) = s /\ \A n \in 1..s : a[n] = j[n]
  BY SMT
<1>2. /\ b \in Seq(S) /\ Len(b) = Len(k) - s
      /\ \A n \in 1..(Len(k) - s) : b[n] = k[s + n]
  BY SMT
<1>3. Len(k) \in Nat
  OBVIOUS
<1> HIDE DEF a, b
<1>4. a \o b \in Seq(S) /\ Len(a \o b) = Len(k)
  <2>1. a \o b \in Seq(S) /\ Len(a \o b) = Len(a) + Len(b)
    BY <1>1, <1>2, ConcatProperties
  <2>2. QED
    BY <1>1, <1>2, <1>3, <2>1
<1>5. ASSUME NEW n \in 1..Len(k) PROVE (a \o b)[n] = k[n]
  <2>1. n \in 1..(Len(a) + Len(b))
    BY <1>1, <1>2, <1>3
  <2>2. (a \o b)[n] = IF n <= Len(a) THEN a[n] ELSE b[n - Len(a)]
    BY <1>1, <1>2, <2>1, ConcatProperties
  <2>3. CASE n <= s
    <3>1. n \in 1..s
      BY <1>3, <2>3
    <3>2. QED
      BY <1>1, <2>2, <2>3, <3>1
  <2>4. CASE n > s
    <3>1. n - s \in 1..(Len(k) - s) /\ s + (n - s) = n /\ ~(n <= s)
      BY <1>3, <2>4
    <3>2. QED
      BY <1>1, <1>2, <2>2, <3>1
  <2>5. n <= s \/ n > s
    BY <1>3
  <2>6. QED
    BY <2>3, <2>4, <2>5
<1>6. a \o b = k
  BY <1>4, <1>5, SeqEqual
<1>7. QED
  BY <1>6 DEF a, b

(* What is before a key that is before the target is before the target.    *)
LEMMA Before ==
  ASSUME IsBlock(block), target \in Targets, NEW i \in Entries(block),
         Less(block.keys[i], target)
  PROVE  \A j \in 0..i : Less(block.keys[j], target)
<1>1. \A j \in Entries(block) : block.keys[j] \in Keys
  BY DEF IsBlock
<1>2. ASSUME NEW j \in 0..i PROVE Less(block.keys[j], target)
  <2>1. j \in Entries(block) /\ i \in Int /\ j \in Int
    BY DEF Entries, IsBlock
  <2>2. j < i => Less(block.keys[j], block.keys[i])
    BY <2>1 DEF IsBlock
  <2>3. block.keys[i] \in Keys /\ block.keys[j] \in Keys /\ target \in Keys
    BY <1>1, <2>1, BlockAssumption
  <2>4. j < i => Less(block.keys[j], target)
    BY <2>2, <2>3, BlockAssumption
  <2>5. QED
    BY <2>1, <2>4
<1>3. QED
  BY <1>2

(* Where a restart point is, and where the next one is.                    *)
LEMMA RestartPoint ==
  ASSUME IsBlock(block), NEW p \in Points(block)
  PROVE  /\ p \in Nat /\ block.count \in Nat /\ block.num \in Nat
         /\ block.restarts[p] \in Nat /\ block.restarts[p] <= block.count
         /\ p > 0 => block.restarts[p] < block.count
         /\ p + 1 < block.num =>
              /\ p + 1 \in Points(block)
              /\ block.restarts[p + 1] \in Nat
              /\ block.restarts[p] < block.restarts[p + 1]
              /\ block.restarts[p + 1] < block.count
<1>1. /\ block.num \in Nat /\ block.count \in Nat /\ p \in Nat
      /\ \A q \in Points(block) : block.restarts[q] \in 0..block.count
  BY DEF IsBlock, Points
<1>2. p + 1 < block.num => p + 1 \in Points(block) /\ p < p + 1 /\ p + 1 > 0
  BY <1>1 DEF Points
<1>3. \A q \in Points(block) : q > 0 => block.restarts[q] < block.count
  BY DEF IsBlock
<1>4. \A q, r \in Points(block) : q < r => block.restarts[q] < block.restarts[r]
  BY DEF IsBlock
<1>5. QED
  BY <1>1, <1>2, <1>3, <1>4

(* An entry that a scan accepts is whole, and yields its key.              *)
LEMMA Accepted ==
  ASSUME IInv, pc = "scan", end < block.count, block.readable[end],
         block.shared[end] <= Len(key)
  PROVE  /\ end \in Entries(block)
         /\ SubSeq(key, 1, block.shared[end]) \o Delta(block, end) = block.keys[end]
<1> DEFINE i == end
<1> USE DEF IInv, TypeOK, ScanInv
<1>1. i \in Entries(block) /\ i \in Nat
  BY DEF Entries, IsBlock
<1>2. /\ block.shared[i] \in Nat /\ block.keys[i] \in Seq(Letters)
      /\ (i > 0 => i - 1 \in Entries(block) /\ block.keys[i - 1] \in Seq(Letters))
  <2>1. \A j \in Entries(block) : block.keys[j] \in Seq(Letters) /\ block.shared[j] \in Nat
    BY BlockAssumption DEF IsBlock
  <2>2. i > 0 => i - 1 \in Entries(block)
    BY <1>1 DEF Entries, IsBlock
  <2>3. QED
    BY <1>1, <2>1, <2>2
<1>3. Intact(block, i) \/ Overlong(block, i)
  BY <1>1 DEF IsBlock
<1>4. CASE i = block.restarts[left]
  <2>1. key = <<>> /\ block.shared[i] = 0
    BY <1>2, <1>4
  <2>2. SubSeq(key, 1, 0) \o SubSeq(block.keys[i], 0 + 1, Len(block.keys[i])) = block.keys[i]
    <3>1. key \in Seq(Letters) /\ 0 <= Len(key) /\ 0 <= Len(block.keys[i])
      BY <1>2
    <3>2. QED
      BY <1>2, <3>1, Rebuild
  <2>3. QED
    BY <1>1, <2>1, <2>2 DEF Delta
<1>5. CASE i # block.restarts[left]
  <2>1. /\ key = block.keys[i - 1]
        /\ block.restarts[left] \in Nat /\ i > 0
    BY <1>1, <1>5 DEF IsBlock
  <2>2. Intact(block, i) /\ ~(i = 0)
    BY <1>2, <1>3, <2>1 DEF Overlong
  <2>3. /\ block.shared[i] <= Len(block.keys[i])
        /\ \A n \in 1..block.shared[i] : block.keys[i][n] = key[n]
    BY <2>1, <2>2 DEF Intact
  <2> DEFINE k == block.keys[i]
             s == block.shared[i]
  <2>4. key \in Seq(Letters) /\ k \in Seq(Letters) /\ s \in Nat /\ s <= Len(key)
    BY <1>1, <1>2, <2>1
  <2>5. s <= Len(k) /\ \A n \in 1..s : k[n] = key[n]
    BY <2>3
  <2> HIDE DEF k, s
  <2>6. SubSeq(key, 1, s) \o SubSeq(k, s + 1, Len(k)) = k
    BY <2>4, <2>5, Rebuild
  <2>7. QED
    BY <1>1, <2>6 DEF Delta, k, s
<1>6. QED
  BY <1>4, <1>5

(* A scan is never behind the next restart point.                          *)
LEMMA ScanStays ==
  ASSUME IInv, pc = "scan"
  PROVE  left + 1 < block.num => end <= block.restarts[left + 1]
<1> DEFINE r == block.restarts[left + 1]
<1>1. left \in Points(block) /\ IsBlock(block) /\ end \in 0..block.count
  BY DEF IInv, TypeOK
<1>2. left + 1 < block.num =>
        /\ block.restarts[left] < r /\ r < block.count
        /\ r \in Nat /\ block.restarts[left] \in Nat
  BY <1>1, RestartPoint
<1>3. end \in Nat /\ end <= block.count /\ block.count \in Nat
  BY <1>1 DEF IsBlock
<1> SUFFICES ASSUME left + 1 < block.num, end > r PROVE FALSE
  BY <1>2, <1>3
<1>4. Less(block.keys[end - 1], target) /\ end - 1 \in Entries(block)
  BY <1>2, <1>3 DEF IInv, ScanInv, Entries
<1>5. r \in 0..(end - 1) /\ target \in Targets /\ IsBlock(block)
  BY <1>2, <1>3 DEF IInv, TargetInv, TypeOK
<1>6. Less(block.keys[r], target)
  BY <1>4, <1>5, Before
<1>7. QED
  BY <1>6 DEF IInv, ScanInv, High

(* Everything before the scan is before the target.                        *)
LEMMA ScanPassed ==
  ASSUME IInv, pc = "scan"
  PROVE  \A i \in 0..(end - 1) : Less(block.keys[i], target)
<1>1. target \in Targets /\ IsBlock(block) /\ end \in 0..block.count /\ left \in Points(block)
  BY DEF IInv, TargetInv, TypeOK
<1>2. CASE end = block.restarts[left]
  <2>1. CASE left = 0
    BY <1>1, <1>2, <2>1 DEF IsBlock
  <2>2. CASE left > 0
    <3>1. end \in Entries(block)
      BY <1>1, <1>2, <2>2 DEF IsBlock, Entries
    <3>2. Less(block.keys[end], target)
      BY <1>2, <2>2 DEF IInv, ScanInv, Low
    <3>3. QED
      BY <1>1, <3>1, <3>2, Before DEF Entries
  <2>3. QED
    BY <1>1, <2>1, <2>2 DEF Points
<1>3. CASE end # block.restarts[left]
  <2>1. end - 1 \in Entries(block) /\ Less(block.keys[end - 1], target)
    BY <1>1, <1>3 DEF IInv, ScanInv, Entries, IsBlock
  <2>2. QED
    BY <1>1, <2>1, Before
<1>4. QED
  BY <1>2, <1>3

(* restart_index_ stays where it is while the scan is before the next one. *)
LEMMA FollowStays ==
  ASSUME TypeOK, restartIndex = left, NEW i \in Nat,
         left + 1 < block.num => i <= block.restarts[left + 1]
  PROVE  Follow(i) = left
<1> DEFINE Passed(p) ==
             /\ \A q \in (restartIndex + 1)..p : q < block.num /\ block.restarts[q] < i
             /\ p + 1 < block.num => block.restarts[p + 1] >= i
<1>1. left \in Nat /\ block.num \in Nat /\ left < block.num
  BY DEF TypeOK, IsBlock, Points
<1>2. left + 1 < block.num => block.restarts[left + 1] \in Nat
  BY RestartPoint DEF TypeOK
<1>3. left \in restartIndex..block.num /\ Passed(left)
  BY <1>1, <1>2
<1>4. ASSUME NEW p \in restartIndex..block.num, Passed(p) PROVE p = left
  <2>1. CASE p > left
    <3>1. left + 1 \in (restartIndex + 1)..p
      BY <1>1, <2>1
    <3>2. left + 1 < block.num /\ block.restarts[left + 1] < i
      BY <1>4, <3>1
    <3>3. QED
      BY <1>2, <3>2
  <2>2. QED
    BY <1>1, <2>1
<1>5. Follow(i) = CHOOSE p \in restartIndex..block.num : Passed(p)
  BY DEF Follow
<1> HIDE DEF Passed
<1>6. QED
  BY <1>3, <1>4, <1>5

-----------------------------------------------------------------------------
(* An iterator has been made and not been used.                            *)
LEMMA InitIInv == Init => IInv
<1> SUFFICES ASSUME Init PROVE IInv
  OBVIOUS
<1>1. IsBlock(block)
  BY BlockAssumption DEF Init
<1>2. 0 \in Points(block) /\ 0 \in 0..block.count
  BY <1>1 DEF IsBlock, Points
<1>3. TypeOK
  BY <1>1, <1>2 DEF Init, TypeOK
<1>4. QED
  BY <1>3 DEF Init, IInv, TargetInv, BisectInv, ScanInv, FindsFirst, ShortScan, IndexInv

(* All restart points may begin the interval the target is in.             *)
LEMMA SeekCallIInv == ASSUME IInv, NEW t \in Targets, SeekCall(t) PROVE IInv'
<1> USE DEF SeekCall, IInv
<1>1. IsBlock(block) /\ block.num \in Nat \ {0} /\ t \in Seq(Letters)
  BY BlockAssumption DEF TypeOK, IsBlock
<1>2. 0 \in Points(block) /\ block.num - 1 \in Points(block) /\ 0 <= block.num - 1
  BY <1>1 DEF Points
<1>3. TypeOK'
  BY <1>1, <1>2 DEF TypeOK
<1>4. BisectInv'
  BY <1>1, <1>2 DEF BisectInv, Low, High
<1>5. QED
  BY <1>3, <1>4 DEF TargetInv, ScanInv, FindsFirst, ShortScan, IndexInv

(* The restart point in the middle tells which half is left.               *)
LEMMA BisectIInv == ASSUME IInv, Bisect PROVE IInv'
<1> DEFINE i == block.restarts[Mid]
<1> USE DEF Bisect
<1>1. /\ IsBlock(block) /\ block.num \in Nat /\ left \in Nat /\ right \in Nat
      /\ left < right /\ right < block.num
  BY DEF IInv, TypeOK, IsBlock, Points
<1>2. left < Mid /\ Mid <= right /\ Mid \in Nat /\ Mid \in Points(block)
  BY <1>1 DEF Mid, Points
<1>3. i \in Entries(block)
  BY <1>1, <1>2, RestartPoint DEF Entries
<1>4. Delta(block, i) = block.keys[i]
  <2>1. block.keys[i] \in Seq(Letters) /\ block.shared[i] = 0
    BY <1>1, <1>3, BlockAssumption DEF IsBlock
  <2>2. SubSeq(block.keys[i], 1, Len(block.keys[i])) = block.keys[i]
    BY <2>1, SubSeqFull
  <2>3. QED
    BY <2>1, <2>2 DEF Delta
<1>5. CASE Less(block.keys[i], target)
  <2>1. left' = Mid /\ right' = right
    BY <1>4, <1>5
  <2>2. TypeOK' /\ left' <= right'
    BY <1>2, <2>1 DEF IInv, TypeOK
  <2>3. Low(left)' /\ High(right)'
    BY <1>5, <2>1 DEF IInv, BisectInv, Low, High
  <2>4. QED
    BY <2>2, <2>3 DEF IInv, TargetInv, BisectInv, ScanInv, FindsFirst, ShortScan, IndexInv
<1>6. CASE ~Less(block.keys[i], target)
  <2>1. left' = left /\ right' = Mid - 1
    BY <1>4, <1>6
  <2>2. Mid - 1 \in Points(block) /\ left <= Mid - 1 /\ (Mid - 1) + 1 = Mid
    BY <1>1, <1>2 DEF Points
  <2>3. TypeOK' /\ left' <= right'
    BY <2>1, <2>2 DEF IInv, TypeOK
  <2>4. Low(left)' /\ High(right)'
    BY <1>6, <2>1, <2>2 DEF IInv, BisectInv, Low, High
  <2>5. QED
    BY <2>3, <2>4 DEF IInv, TargetInv, BisectInv, ScanInv, FindsFirst, ShortScan, IndexInv
<1>7. QED
  BY <1>5, <1>6

(* After an error the iterator is not valid, and says so.                  *)
LEMMA ErrorIInv ==
  ASSUME IInv, pc \in {"bisect", "scan"}, CorruptionError,
         UNCHANGED <<block, target, left, right>>
  PROVE  IInv'
<1>1. block.count \in 0..block.count /\ block.num \in 0..block.num /\ 0 \in 0..block.count
      /\ ~(block.count < block.count)
  BY DEF IInv, TypeOK, IsBlock
<1>2. TypeOK'
  BY <1>1 DEF IInv, TypeOK, CorruptionError, Return
<1>3. QED
  BY <1>1, <1>2 DEF CorruptionError, Return, IInv, TargetInv, BisectInv, ScanInv,
     FindsFirst, ShortScan, IndexInv, Valid

(* The bisection hands its interval to the scan.                           *)
LEMMA SeekToRestartPointIInv == ASSUME IInv, SeekToRestartPoint PROVE IInv'
<1> USE DEF SeekToRestartPoint
<1>1. IsBlock(block) /\ left \in Points(block) /\ right \in Points(block)
  BY DEF IInv, TypeOK
<1>2. block.restarts[left] \in 0..block.count /\ left \in 0..block.num
  BY <1>1, RestartPoint DEF Points
<1>3. TypeOK'
  BY <1>1, <1>2 DEF IInv, TypeOK
<1>4. left = right
  <2>1. left <= right /\ left >= right
    BY DEF IInv, BisectInv
  <2>2. left \in Int /\ right \in Int
    BY <1>1 DEF Points, IsBlock
  <2>3. QED
    BY <2>1, <2>2
<1>5. ScanInv'
  BY <1>2, <1>4 DEF ScanInv, IInv, BisectInv, Low, High
<1>6. ShortScan'
  BY <1>1, <1>4, RestartPoint DEF ShortScan, Within
<1>7. QED
  BY <1>3, <1>5, <1>6 DEF IInv, TargetInv, BisectInv, FindsFirst, IndexInv

(* The entry at the scan yields its key, which ends the scan or not.       *)
LEMMA ParseNextKeyIInv == ASSUME IInv, ParseNextKey PROVE IInv'
<1> DEFINE i == end
<1> USE DEF ParseNextKey
<1>1. IsBlock(block) /\ left \in Points(block) /\ target \in Targets
  BY DEF IInv, TypeOK, TargetInv
<1>2. i \in Entries(block) /\ key' = block.keys[i]
  BY Accepted
<1>3. /\ i \in Nat /\ i < block.count /\ block.count \in Nat
      /\ i \in 0..block.count /\ i + 1 \in 0..block.count /\ (i + 1) - 1 = i
  BY <1>1, <1>2 DEF Entries, IsBlock
<1>4. left + 1 < block.num => i <= block.restarts[left + 1]
  BY ScanStays
<1>5. restartIndex' = left
  <2>1. restartIndex = left
    BY DEF IInv, ScanInv
  <2>2. QED
    BY <1>3, <1>4, <2>1, FollowStays DEF IInv
<1>6. block.keys[i] \in Seq(Letters)
  BY <1>1, <1>2, BlockAssumption DEF IsBlock
<1>7. left \in 0..block.num
  BY <1>1, RestartPoint DEF Points
<1>8. TypeOK'
  BY <1>2, <1>3, <1>5, <1>6, <1>7 DEF IInv, TypeOK, Return
<1>9. block.restarts[left] <= i /\ block.restarts[left] \in Nat
  BY <1>1, RestartPoint DEF IInv, ScanInv
<1>10. CASE Less(key', target)
  <2>1. pc' = "scan"
    BY <1>10
  <2>2. Low(left)' /\ High(left)'
    BY DEF IInv, ScanInv, Low, High
  <2>3. block.restarts[left] < i + 1 /\ i + 1 # block.restarts[left]
    BY <1>3, <1>9
  <2>4. /\ key' = block.keys[end' - 1] /\ Less(block.keys[end' - 1], target)
        /\ end' = i + 1
    BY <1>2, <1>3, <1>10
  <2>5. ScanInv'
    <3>1. UNCHANGED <<block, target, left>>
      OBVIOUS
    <3>2. block.restarts[left] <= i + 1
      BY <1>3, <1>9
    <3>3. QED
      BY <1>5, <2>2, <2>3, <2>4, <3>1, <3>2 DEF ScanInv
  <2>6. left + 1 < block.num => i + 1 <= block.restarts[left + 1]
    <3>1. left + 1 < block.num => block.restarts[left + 1] \in Nat
      BY <1>1, RestartPoint
    <3>2. Less(block.keys[i], target)
      BY <1>2, <1>10
    <3>3. left + 1 < block.num => i # block.restarts[left + 1]
      BY <2>1, <3>2 DEF IInv, ScanInv, High
    <3>4. QED
      BY <1>3, <1>4, <3>1, <3>3
  <2>7. ShortScan'
    BY <1>3, <1>9, <2>1, <2>4, <2>6 DEF ShortScan, Within
  <2>8. QED
    BY <1>1, <1>8, <2>1, <2>5, <2>7 DEF IInv, TargetInv, BisectInv, FindsFirst, IndexInv
<1>11. CASE ~Less(key', target)
  <2>1. pc' = "idle" /\ current' = i
    BY <1>11 DEF Return
  <2>2. FindsFirst'
    BY <1>2, <1>3, <1>11, <2>1, ScanPassed DEF FindsFirst, Valid
  <2>3. ShortScan' /\ IndexInv'
    BY <1>4, <1>5, <1>9, <2>1 DEF ShortScan, IndexInv, Within
  <2>4. QED
    BY <1>1, <1>8, <2>1, <2>2, <2>3 DEF IInv, TargetInv, BisectInv, ScanInv
<1>12. QED
  BY <1>10, <1>11

(* At the end of the block every entry is before the target.               *)
LEMMA NoMoreEntriesIInv == ASSUME IInv, NoMoreEntries PROVE IInv'
<1> USE DEF NoMoreEntries
<1>1. end = block.count /\ block.count \in Nat /\ block.num \in Nat
  BY DEF IInv, TypeOK, IsBlock
<1>2. TypeOK'
  BY <1>1 DEF IInv, TypeOK, Return
<1>3. FindsFirst'
  BY <1>1, ScanPassed DEF FindsFirst, Valid, Entries
<1>4. QED
  BY <1>1, <1>2, <1>3 DEF Return, IInv, TargetInv, BisectInv, ScanInv, ShortScan,
     IndexInv, Valid

(* Every step preserves the invariant.                                     *)
LEMMA NextIInv == IInv /\ [Next]_vars => IInv'
<1> SUFFICES ASSUME IInv, [Next]_vars PROVE IInv'
  OBVIOUS
<1>1. CASE \E t \in Targets : SeekCall(t)
  BY <1>1, SeekCallIInv
<1>2. CASE Bisect
  BY <1>2, BisectIInv
<1>3. CASE BisectFails \/ ParseFails
  BY <1>3, ErrorIInv DEF BisectFails, ParseFails
<1>4. CASE SeekToRestartPoint
  BY <1>4, SeekToRestartPointIInv
<1>5. CASE ParseNextKey
  BY <1>5, ParseNextKeyIInv
<1>6. CASE NoMoreEntries
  BY <1>6, NoMoreEntriesIInv
<1>7. CASE UNCHANGED vars
  BY <1>7 DEF vars, IInv, TypeOK, TargetInv, BisectInv, Low, High, ScanInv, FindsFirst,
     ShortScan, Within, IndexInv, Valid
<1>8. QED
  BY <1>1, <1>2, <1>3, <1>4, <1>5, <1>6, <1>7 DEF Next, Seek

(* The invariant holds in every state of every behaviour.                  *)
THEOREM Invariance == Spec => []IInv
<1>1. QED
  BY InitIInv, NextIInv, PTL DEF Spec

(* Seek finds the first entry that is not before its target, with the key  *)
(* that was written, in every block, damaged or not.                       *)
THEOREM SeekFindsFirst == Spec => []FindsFirst
<1>1. IInv => FindsFirst
  BY DEF IInv
<1>2. QED
  BY <1>1, Invariance, PTL

(* Seek reads no further than the restart point after the one it found.    *)
THEOREM SeekIsShort == Spec => []ShortScan
<1>1. IInv => ShortScan
  BY DEF IInv
<1>2. QED
  BY <1>1, Invariance, PTL

(* On the first entry of the next interval restart_index_ is not the index *)
(* of the interval in which current_ falls, as Block.cpp:227 has it.       *)
THEOREM RestartIndexLagsBehind == Spec => []RestartIndexLags
<1>1. IInv => RestartIndexLags
  BY DEF IInv, IndexInv, RestartIndexLags
<1>2. QED
  BY <1>1, Invariance, PTL

-----------------------------------------------------------------------------
(* The turns Seek can still take: the bisection's, then the scan's.        *)
TurnsLeft ==
  IF pc = "bisect" THEN (right - left) + block.count + 2
  ELSE IF pc = "scan" THEN (block.count - end) + 1
  ELSE 0

(* Every turn brings Seek nearer to its end, and one of the bisection      *)
(* leaves at most half of the interval.                                    *)
Advance ==
  pc \in {"bisect", "scan"} =>
    /\ TurnsLeft' < TurnsLeft
    /\ pc = "bisect" /\ pc' = "bisect" => 2 * (right' - left') <= right - left

(* What the measure is made of.                                            *)
LEMMA TurnsLeftProperties ==
  ASSUME IInv
  PROVE  /\ block.count \in Nat /\ end \in Nat /\ end <= block.count
         /\ left \in Nat /\ right \in Nat /\ (pc = "bisect" => left <= right)
         /\ TurnsLeft \in Nat
<1>1. /\ block.count \in Nat /\ end \in Nat /\ end <= block.count
      /\ left \in Nat /\ right \in Nat /\ (pc = "bisect" => left <= right)
  BY DEF IInv, TypeOK, IsBlock, Points, BisectInv
<1>2. QED
  BY <1>1 DEF TurnsLeft

(* Each step of Seek leaves fewer turns.                                   *)
LEMMA StepAdvances == ASSUME IInv, IInv', [Next]_vars, vars' # vars PROVE Advance
<1> SUFFICES ASSUME pc \in {"bisect", "scan"} PROVE Advance
  BY DEF Advance
<1>1. /\ block.count \in Nat /\ end \in Nat /\ end <= block.count
      /\ left \in Nat /\ right \in Nat /\ (pc = "bisect" => left <= right)
  BY TurnsLeftProperties
<1>2. CASE \E t \in Targets : SeekCall(t)
  BY <1>2 DEF SeekCall
<1>3. CASE Bisect
  <2>1. /\ pc = "bisect" /\ pc' = "bisect" /\ left < right /\ UNCHANGED block
        /\ \/ left' = Mid /\ right' = right
           \/ right' = Mid - 1 /\ left' = left
    BY <1>3 DEF Bisect
  <2>2. Mid \in Nat /\ left < Mid /\ Mid <= right
        /\ 2 * Mid <= left + right + 1 /\ left + right <= 2 * Mid
    BY <1>1, <2>1 DEF Mid
  <2>3. left' \in Nat /\ right' \in Nat
    BY <1>1, <2>1, <2>2
  <2>4. 2 * (right' - left') <= right - left
    BY <1>1, <2>1, <2>2
  <2>5. right' - left' < right - left
    BY <1>1, <2>1, <2>2
  <2>6. TurnsLeft = (right - left) + block.count + 2
        /\ TurnsLeft' = (right' - left') + block.count + 2
    BY <2>1 DEF TurnsLeft
  <2>7. (right' - left') + block.count + 2 < (right - left) + block.count + 2
    <3> DEFINE a == right' - left'
               b == right - left
               c == block.count
    <3>1. a \in Int
      BY <2>3
    <3>2. b \in Int /\ c \in Nat
      BY <1>1
    <3>3. a < b
      BY <2>5
    <3> HIDE DEF a, b, c
    <3>4. a + c + 2 < b + c + 2
      BY <3>1, <3>2, <3>3
    <3>5. QED
      BY <3>4 DEF a, b, c
  <2>8. QED
    BY <2>1, <2>4, <2>6, <2>7 DEF Advance
<1>4. CASE BisectFails \/ ParseFails \/ NoMoreEntries
  <2>1. pc' = "idle"
    BY <1>4 DEF BisectFails, ParseFails, NoMoreEntries, CorruptionError, Return
  <2>2. QED
    BY <1>1, <2>1 DEF Advance, TurnsLeft
<1>5. CASE SeekToRestartPoint
  <2>1. pc = "bisect" /\ pc' = "scan" /\ UNCHANGED block
    BY <1>5 DEF SeekToRestartPoint
  <2>2. end' \in Nat
    BY TurnsLeftProperties, IInv' DEF IInv, TypeOK, IsBlock
  <2>3. QED
    BY <1>1, <2>1, <2>2 DEF Advance, TurnsLeft
<1>6. CASE ParseNextKey
  <2>1. pc = "scan" /\ end < block.count /\ end' = end + 1 /\ UNCHANGED block
        /\ pc' \in {"scan", "idle"}
    BY <1>6 DEF ParseNextKey, Return
  <2>2. QED
    BY <1>1, <2>1 DEF Advance, TurnsLeft
<1>7. QED
  BY <1>2, <1>3, <1>4, <1>5, <1>6 DEF Next, Seek

(* A Seek takes finitely many turns in every block: its bisection halves   *)
(* what is left of the restart points, its scan goes on by one entry.  So  *)
(* it returns if its thread goes on.                                       *)
THEOREM SeekAdvances == Spec => [](TurnsLeft \in Nat) /\ [][Advance]_vars
<1>1. IInv => TurnsLeft \in Nat
  BY TurnsLeftProperties
<1>2. IInv /\ IInv' /\ [Next]_vars => [Advance]_vars
  BY StepAdvances
<1>3. QED
  BY <1>1, <1>2, Invariance, PTL DEF Spec

-----------------------------------------------------------------------------
(* A set of natural numbers has a least member: what induction is for, as  *)
(* a fact about sets.                                                      *)
LEMMA Least ==
  ASSUME NEW T \in SUBSET Nat, T # {}
  PROVE  \E n \in T : \A m \in T : n <= m
<1> DEFINE R == {ss \in Nat \X Nat : ss[1] < ss[2]}
<1>1. IsWellFoundedOn(R, Nat)
  <2>1. OpToRel(<, Nat) = R
    BY DEF OpToRel
  <2>2. QED
    BY <2>1, NatLessThanWellFounded
<1>2. \E n \in T : \A m \in T : ~(<<m, n>> \in R)
  <2> HIDE DEF R
  <2>1. QED
    BY <1>1, WFMin
<1>3. PICK n \in T : \A m \in T : ~(<<m, n>> \in R)
  BY <1>2
<1>4. ASSUME NEW m \in T PROVE n <= m
  <2>1. <<m, n>> \in Nat \X Nat
    OBVIOUS
  <2>2. m < n => <<m, n>> \in R
    BY <2>1
  <2>3. QED
    BY <1>3, <2>2
<1>5. QED
  BY <1>4

(* What holds of 0 and, with each number below w, of the next one.         *)
LEMMA UpTo ==
  ASSUME NEW w \in Nat, NEW T \in SUBSET (0..w), 0 \in T,
         \A n \in 0..w : n \in T /\ n < w => n + 1 \in T
  PROVE  T = 0..w
<1> SUFFICES ASSUME (0..w) \ T # {} PROVE FALSE
  OBVIOUS
<1>1. (0..w) \ T \in SUBSET Nat
  OBVIOUS
<1>2. PICK n \in (0..w) \ T : \A m \in (0..w) \ T : n <= m
  BY <1>1, Least
<1>3. n - 1 \in T /\ n - 1 < w
  BY <1>2
<1>4. QED
  BY <1>2, <1>3

Recursive(f, w, a, g) == f[0] = a /\ \A n \in 1..w : f[n] = g[<<n, f[n - 1]>>]

(* A function that is defined by recursion exists.                         *)
LEMMA Recursion ==
  ASSUME NEW w \in Nat, NEW S, NEW a \in S, NEW g \in [Nat \X S -> S]
  PROVE  \E f \in [0..w -> S] : Recursive(f, w, a, g)
<1> DEFINE Is(f, v) == f[0] = a /\ \A n \in 1..v : f[n] = g[<<n, f[n - 1]>>]
           T == {v \in 0..w : \E f \in [0..v -> S] : Is(f, v)}
<1>1. 0 \in T
  <2> DEFINE f == [n \in 0..0 |-> a]
  <2>1. f \in [0..0 -> S] /\ f[0] = a /\ \A n \in 1..0 : FALSE
    OBVIOUS
  <2> HIDE DEF f
  <2>2. QED
    BY <2>1
<1>2. ASSUME NEW v \in 0..w, v \in T, v < w PROVE v + 1 \in T
  <2>1. v \in Nat /\ v + 1 \in Nat /\ v + 1 \in 0..w
    <3> HIDE DEF T
    <3>1. QED
      BY <1>2
  <2>2. PICK f \in [0..v -> S] : Is(f, v)
    BY <1>2
  <2> HIDE DEF T
  <2> DEFINE h == [n \in 0..(v + 1) |-> IF n = v + 1 THEN g[<<v + 1, f[v]>>] ELSE f[n]]
  <2>3. f[v] \in S
    BY <2>1
  <2>4. g[<<v + 1, f[v]>>] \in S
    BY <2>1, <2>3
  <2>5. h \in [0..(v + 1) -> S]
    BY <2>1, <2>4
  <2>6. h[v + 1] = g[<<v + 1, f[v]>>] /\ \A n \in 0..v : h[n] = f[n]
    BY <2>1
  <2> HIDE DEF h
  <2>7. h[0] = a
    BY <2>1, <2>2, <2>6
  <2>8. ASSUME NEW n \in 1..(v + 1) PROVE h[n] = g[<<n, h[n - 1]>>]
    <3>1. CASE n = v + 1
      <4>1. n - 1 = v /\ v \in 0..v
        BY <2>1, <3>1
      <4>2. QED
        BY <2>6, <3>1, <4>1
    <3>2. CASE n # v + 1
      <4>1. n \in 1..v /\ n \in 0..v /\ n - 1 \in 0..v
        BY <2>1, <3>2
      <4>2. QED
        BY <2>2, <2>6, <4>1
    <3>3. QED
      BY <3>1, <3>2
  <2>9. QED
    BY <2>1, <2>5, <2>7, <2>8 DEF T
<1>3. T \in SUBSET (0..w)
  OBVIOUS
<1> HIDE DEF T
<1>4. w \in T
  <2>1. T = 0..w
    BY <1>1, <1>2, <1>3, UpTo
  <2>2. QED
    BY <2>1
<1>5. QED
  BY <1>4 DEF T, Recursive

(* Powers is the function that multiplies by b.                            *)
LEMMA PowersDef ==
  ASSUME NEW b \in Nat, NEW w \in Nat
  PROVE  /\ Powers(b, w) \in [0..w -> Nat]
         /\ Powers(b, w)[0] = 1
         /\ \A n \in 1..w : Powers(b, w)[n] = b * Powers(b, w)[n - 1]
<1> DEFINE g == [p \in Nat \X Nat |-> b * p[2]]
           Is(f) == f = [n \in 0..w |-> IF n = 0 THEN 1 ELSE b * f[n - 1]]
<1>1. g \in [Nat \X Nat -> Nat] /\ \A n, m \in Nat : g[<<n, m>>] = b * m
  OBVIOUS
<1> HIDE DEF g
<1>2. PICK f \in [0..w -> Nat] : Recursive(f, w, 1, g)
  <2>1. 1 \in Nat
    OBVIOUS
  <2>2. QED
    BY <1>1, <2>1, Recursion
<1>3. f[0] = 1 /\ \A n \in 1..w : f[n] = b * f[n - 1]
  <2>1. \A n \in 1..w : n \in Nat /\ n - 1 \in 0..w
    OBVIOUS
  <2>2. QED
    BY <1>1, <1>2, <2>1 DEF Recursive
<1>4. Is(f)
  BY <1>2, <1>3
<1> DEFINE p == Powers(b, w)
<1>5. p = CHOOSE h : Is(h)
  BY DEF Powers
<1>6. Is(p)
  <2> HIDE DEF Is, p
  <2>1. QED
    BY <1>4, <1>5
<1> HIDE DEF p
<1>7. /\ p[0] = 1 /\ DOMAIN p = 0..w /\ p = [n \in 0..w |-> p[n]]
      /\ \A n \in 1..w : p[n] = b * p[n - 1]
  BY <1>6
<1> DEFINE T == {n \in 0..w : p[n] \in Nat}
<1>8. 0 \in T /\ T \in SUBSET (0..w)
  BY <1>7
<1>9. ASSUME NEW n \in 0..w, n \in T, n < w PROVE n + 1 \in T
  <2>1. n + 1 \in 1..w /\ (n + 1) - 1 = n /\ p[n] \in Nat
    BY <1>9
  <2>2. p[n + 1] = b * p[n]
    BY <1>7, <2>1
  <2>3. QED
    BY <2>1, <2>2
<1> HIDE DEF T
<1>10. T = 0..w
  BY <1>8, <1>9, UpTo
<1>11. \A n \in 0..w : p[n] \in Nat
  BY <1>10 DEF T
<1>12. QED
  BY <1>7, <1>11 DEF p

(* A power is positive, and the same wherever the others end.              *)
LEMMA PowersPositive ==
  ASSUME NEW b \in Nat \ {0}, NEW w \in Nat
  PROVE  \A n \in 0..w : Powers(b, w)[n] \in Nat \ {0}
<1> DEFINE p == Powers(b, w)
           T == {n \in 0..w : p[n] \in Nat \ {0}}
<1>1. p[0] = 1 /\ \A n \in 1..w : p[n] = b * p[n - 1]
  BY PowersDef
<1> HIDE DEF p
<1>2. 0 \in T /\ T \in SUBSET (0..w)
  BY <1>1
<1>3. ASSUME NEW n \in 0..w, n \in T, n < w PROVE n + 1 \in T
  <2>1. n + 1 \in 1..w /\ (n + 1) - 1 = n /\ p[n] \in Nat \ {0}
    BY <1>3
  <2>2. p[n + 1] = b * p[n]
    BY <1>1, <2>1
  <2>3. QED
    BY <2>1, <2>2
<1> HIDE DEF T
<1>4. T = 0..w
  BY <1>2, <1>3, UpTo
<1>5. QED
  BY <1>4 DEF T, p

(* How many powers are asked for does not change them.                     *)
LEMMA PowersSame ==
  ASSUME NEW b \in Nat, NEW w \in Nat, NEW v \in 0..w
  PROVE  \A n \in 0..v : Powers(b, v)[n] = Powers(b, w)[n]
<1> DEFINE p == Powers(b, w)
           q == Powers(b, v)
           T == {n \in 0..v : q[n] = p[n]}
<1>1. p[0] = 1 /\ \A n \in 1..w : p[n] = b * p[n - 1]
  BY PowersDef
<1>2. q[0] = 1 /\ \A n \in 1..v : q[n] = b * q[n - 1]
  BY PowersDef
<1> HIDE DEF p, q
<1>3. 0 \in T /\ T \in SUBSET (0..v) /\ v \in Nat
  BY <1>1, <1>2
<1>4. ASSUME NEW n \in 0..v, n \in T, n < v PROVE n + 1 \in T
  <2>1. n + 1 \in 1..v /\ n + 1 \in 1..w /\ (n + 1) - 1 = n /\ q[n] = p[n]
    BY <1>4
  <2>2. p[n + 1] = b * p[n] /\ q[n + 1] = b * q[n]
    BY <1>1, <1>2, <2>1
  <2>3. QED
    BY <2>1, <2>2
<1> HIDE DEF T
<1>5. T = 0..v
  BY <1>3, <1>4, UpTo
<1>6. QED
  BY <1>5 DEF T, p, q

(* Sums adds one digit's share after the other.                            *)
LEMMA SumsDef ==
  ASSUME NEW b \in Nat, NEW d \in Seq(Nat)
  PROVE  /\ Sums(d, b) \in [0..Len(d) -> Nat]
         /\ Sums(d, b)[0] = 0
         /\ \A n \in 1..Len(d) :
              Sums(d, b)[n] = Sums(d, b)[n - 1] + d[n] * Powers(b, Len(d))[n - 1]
<1> DEFINE w == Len(d)
           p == Powers(b, w)
           add == [n \in Nat |-> IF n \in 1..w THEN d[n] * p[n - 1] ELSE 0]
           g == [u \in Nat \X Nat |-> u[2] + add[u[1]]]
           Is(f) == f = [n \in 0..w |-> IF n = 0 THEN 0 ELSE f[n - 1] + d[n] * p[n - 1]]
<1>2. w \in Nat /\ \A n \in 1..w : d[n] \in Nat /\ n - 1 \in 0..w /\ n \in Nat
  OBVIOUS
<1> HIDE DEF w
<1>1. w \in Nat /\ p \in [0..w -> Nat]
  BY <1>2, PowersDef
<1> HIDE DEF p
<1>3. add \in [Nat -> Nat]
  <2>1. \A n \in 1..w : d[n] \in Nat /\ p[n - 1] \in Nat
    BY <1>1, <1>2
  <2>2. QED
    BY <2>1
<1>4. \A n \in 1..w : add[n] = d[n] * p[n - 1]
  BY <1>2
<1> HIDE DEF add
<1>5. g \in [Nat \X Nat -> Nat] /\ \A n, m \in Nat : g[<<n, m>>] = m + add[n]
  <2>1. ASSUME NEW u \in Nat \X Nat PROVE u[1] \in Nat /\ u[2] + add[u[1]] \in Nat
    <3>1. u[1] \in Nat /\ u[2] \in Nat
      OBVIOUS
    <3>2. add[u[1]] \in Nat
      BY <1>3, <3>1
    <3>3. QED
      BY <3>1, <3>2
  <2>2. QED
    BY <1>3, <2>1
<1> HIDE DEF g
<1>6. PICK f \in [0..w -> Nat] : Recursive(f, w, 0, g)
  <2>1. 0 \in Nat
    OBVIOUS
  <2>2. QED
    BY <1>1, <1>5, <2>1, Recursion
<1>7. f[0] = 0 /\ \A n \in 1..w : f[n] = f[n - 1] + d[n] * p[n - 1]
  <2>1. ASSUME NEW n \in 1..w PROVE f[n] = f[n - 1] + d[n] * p[n - 1]
    <3>1. f[n] = g[<<n, f[n - 1]>>] /\ f[n - 1] \in Nat /\ n \in Nat
      BY <1>2, <1>6 DEF Recursive
    <3>2. QED
      BY <1>4, <1>5, <3>1
  <2>2. QED
    BY <1>6, <2>1 DEF Recursive
<1>8. Is(f)
  BY <1>6, <1>7
<1> DEFINE s == Sums(d, b)
<1>9. s = CHOOSE h : Is(h)
  BY DEF Sums, w, p
<1>10. Is(s)
  <2> HIDE DEF Is, s
  <2>1. QED
    BY <1>8, <1>9
<1> HIDE DEF s
<1>11. /\ s[0] = 0 /\ DOMAIN s = 0..w /\ s = [n \in 0..w |-> s[n]]
       /\ \A n \in 1..w : s[n] = s[n - 1] + d[n] * p[n - 1]
  <2>1. s = [n \in 0..w |-> IF n = 0 THEN 0 ELSE s[n - 1] + d[n] * p[n - 1]]
    BY <1>10
  <2>2. 0 \in 0..w /\ \A n \in 1..w : n \in 0..w /\ n # 0
    BY <1>2
  <2>3. QED
    BY <2>1, <2>2, Zenon
<1> DEFINE T == {n \in 0..w : s[n] \in Nat}
<1>12. 0 \in T /\ T \in SUBSET (0..w)
  BY <1>1, <1>11
<1>13. ASSUME NEW n \in 0..w, n \in T, n < w PROVE n + 1 \in T
  <2>1. n + 1 \in 1..w /\ (n + 1) - 1 = n /\ s[n] \in Nat
    BY <1>1, <1>13
  <2>2. s[n + 1] = s[n] + add[n + 1] /\ add[n + 1] \in Nat
    BY <1>2, <1>3, <1>4, <1>11, <2>1
  <2>3. QED
    BY <1>1, <2>1, <2>2
<1> HIDE DEF T
<1>14. T = 0..w
  BY <1>1, <1>12, <1>13, UpTo
<1>15. \A n \in 0..w : s[n] \in Nat
  BY <1>14 DEF T
<1>16. QED
  BY <1>11, <1>15 DEF s, w, p

(* Sums depend on the digits they add.                                     *)
LEMMA SumsSame ==
  ASSUME NEW b \in Nat, NEW d \in Seq(Nat), NEW e \in Seq(Nat), Len(d) <= Len(e),
         \A n \in 1..Len(d) : d[n] = e[n]
  PROVE  \A n \in 0..Len(d) : Sums(d, b)[n] = Sums(e, b)[n]
<1> DEFINE v == Len(d)
           w == Len(e)
           p == Powers(b, v)
           q == Powers(b, w)
           r == Sums(d, b)
           s == Sums(e, b)
           T == {n \in 0..v : r[n] = s[n]}
<1>1. v \in Nat /\ w \in Nat /\ v \in 0..w
  OBVIOUS
<1>2. r[0] = 0 /\ \A n \in 1..v : r[n] = r[n - 1] + d[n] * p[n - 1]
  BY SumsDef
<1>3. s[0] = 0 /\ \A n \in 1..w : s[n] = s[n - 1] + e[n] * q[n - 1]
  BY SumsDef
<1>4. \A n \in 1..v : d[n] = e[n]
  OBVIOUS
<1> HIDE DEF v, w, r, s
<1>5. \A n \in 0..v : p[n] = q[n]
  BY <1>1, PowersSame
<1> HIDE DEF p, q
<1>6. 0 \in T /\ T \in SUBSET (0..v)
  BY <1>1, <1>2, <1>3
<1>7. ASSUME NEW n \in 0..v, n \in T, n < v PROVE n + 1 \in T
  <2>1. n + 1 \in 1..v /\ n + 1 \in 1..w /\ (n + 1) - 1 = n /\ r[n] = s[n]
    BY <1>1, <1>7
  <2>2. r[n + 1] = r[n] + d[n + 1] * p[n] /\ s[n + 1] = s[n] + e[n + 1] * q[n]
    BY <1>2, <1>3, <2>1
  <2>3. QED
    BY <1>1, <1>4, <1>5, <2>1, <2>2
<1> HIDE DEF T
<1>8. T = 0..v
  BY <1>1, <1>6, <1>7, UpTo
<1>9. QED
  BY <1>8 DEF T, r, s, v

(* One digit c more, of weight p, still fits.                              *)
LEMMA DigitFits ==
  ASSUME NEW b \in Nat \ {0}, NEW p \in Nat \ {0}, NEW s \in 0..(p - 1), NEW c \in 0..(b - 1)
  PROVE  s + c * p < b * p
<1>1. c * p <= (b - 1) * p
  OBVIOUS
<1>2. (b - 1) * p = b * p - p
  OBVIOUS
<1>3. c * p \in Nat /\ b * p \in Nat
  OBVIOUS
<1>4. QED
  BY <1>1, <1>2, <1>3

(* The sum of some digits is less than the power of their number.          *)
LEMMA SumsBelow ==
  ASSUME NEW b \in Nat \ {0}, NEW d \in Seq(0..(b - 1))
  PROVE  /\ d \in Seq(Nat)
         /\ \A n \in 0..Len(d) : Sums(d, b)[n] < Powers(b, Len(d))[n]
<1> DEFINE w == Len(d)
           p == Powers(b, w)
           s == Sums(d, b)
           T == {n \in 0..w : s[n] < p[n]}
<1>1. d \in Seq(Nat) /\ w \in Nat /\ \A n \in 1..w : d[n] \in 0..(b - 1)
  OBVIOUS
<1>2. s \in [0..w -> Nat] /\ s[0] = 0 /\ \A n \in 1..w : s[n] = s[n - 1] + d[n] * p[n - 1]
  BY <1>1, SumsDef
<1> HIDE DEF w, s
<1>3. /\ p[0] = 1 /\ \A n \in 1..w : p[n] = b * p[n - 1]
      /\ \A n \in 0..w : p[n] \in Nat \ {0}
  BY <1>1, PowersDef, PowersPositive
<1> HIDE DEF p
<1>4. 0 \in T /\ T \in SUBSET (0..w)
  BY <1>1, <1>2, <1>3
<1>5. ASSUME NEW n \in 0..w, n \in T, n < w PROVE n + 1 \in T
  <2>1. n + 1 \in 1..w /\ (n + 1) - 1 = n /\ s[n] < p[n] /\ n + 1 \in 0..w
    BY <1>1, <1>5
  <2>2. s[n + 1] = s[n] + d[n + 1] * p[n] /\ p[n + 1] = b * p[n]
    BY <1>2, <1>3, <2>1
  <2>3. s[n] \in 0..(p[n] - 1) /\ p[n] \in Nat \ {0} /\ d[n + 1] \in 0..(b - 1)
    BY <1>1, <1>2, <1>3, <2>1
  <2>4. s[n + 1] < p[n + 1]
    BY <2>2, <2>3, DigitFits
  <2>5. QED
    BY <2>1, <2>4
<1> HIDE DEF T
<1>6. T = 0..w
  BY <1>1, <1>4, <1>5, UpTo
<1>7. QED
  BY <1>1, <1>6 DEF T, p, s, w

Splits(x, b, p, s, c, h) == x = (s + c * p) + (b * p) * h

(* The digit of weight p is read off.                                      *)
LEMMA DigitAt ==
  ASSUME NEW b \in Nat \ {0}, NEW p \in Nat \ {0}, NEW s \in 0..(p - 1), NEW c \in 0..(b - 1),
         NEW h \in Nat, NEW x, Splits(x, b, p, s, c, h)
  PROVE  (x \div p) % b = c
<1> DEFINE q == c + b * h
<1>1. q \in Nat
  OBVIOUS
<1>2. x = p * q + s
  BY DEF Splits
<1>3. (q % b) = c
  OBVIOUS
<1> HIDE DEF q
<1>4. x \div p = q
  BY <1>1, <1>2
<1>5. QED
  BY <1>3, <1>4

(* The digits of a number that is made of digits.                          *)
LEMMA DigitsOfNumber ==
  ASSUME NEW b \in Nat \ {0}, NEW d \in Seq(0..(b - 1))
  PROVE  /\ Number(d, b) \in Nat
         /\ Number(d, b) < Powers(b, Len(d))[Len(d)]
         /\ Digits(Number(d, b), b, Len(d)) = d
<1> DEFINE w == Len(d)
           p == Powers(b, w)
           s == Sums(d, b)
           x == Number(d, b)
           T == {n \in 0..w : \E h \in Nat : x = s[w - n] + p[w - n] * h}
<1>1. d \in Seq(Nat) /\ w \in Nat /\ \A n \in 1..w : d[n] \in 0..(b - 1)
  OBVIOUS
<1>2. s \in [0..w -> Nat] /\ s[0] = 0 /\ \A n \in 1..w : s[n] = s[n - 1] + d[n] * p[n - 1]
  BY <1>1, SumsDef
<1>3. /\ p[0] = 1 /\ \A n \in 1..w : p[n] = b * p[n - 1]
      /\ \A n \in 0..w : p[n] \in Nat \ {0}
  BY <1>1, PowersDef, PowersPositive
<1>4. \A n \in 0..w : s[n] < p[n]
  BY SumsBelow
<1>5. x = s[w]
  BY DEF Number
<1>6. d = [n \in 1..w |-> d[n]]
  OBVIOUS
<1> HIDE DEF p, w, s
<1>7. x \in Nat /\ x < p[w]
  BY <1>1, <1>2, <1>4, <1>5
<1> HIDE DEF x
<1>8. 0 \in T /\ T \in SUBSET (0..w)
  <2>1. x = s[w - 0] + p[w - 0] * 0 /\ 0 \in Nat /\ 0 \in 0..w
    BY <1>1, <1>2, <1>3, <1>5
  <2>2. QED
    BY <2>1
<1>9. ASSUME NEW n \in 0..w, n \in T, n < w PROVE n + 1 \in T
  <2> DEFINE m == w - (n + 1)
  <2>1. m + 1 = w - n /\ m \in 0..w /\ m + 1 \in 1..w /\ (m + 1) - 1 = m /\ n + 1 \in 0..w
    BY <1>1, <1>9
  <2>2. PICK h \in Nat : x = s[m + 1] + p[m + 1] * h
    BY <1>9, <2>1
  <2> HIDE DEF m
  <2>3. s[m + 1] = s[m] + d[m + 1] * p[m] /\ p[m + 1] = b * p[m] /\ d[m + 1] \in Nat
        /\ s[m] \in Nat /\ p[m] \in Nat
    BY <1>1, <1>2, <1>3, <2>1
  <2> DEFINE c == d[m + 1]
             pm == p[m]
             sm == s[m]
  <2>4. x = (sm + c * pm) + (b * pm) * h /\ c \in Nat /\ pm \in Nat /\ sm \in Nat
    BY <2>2, <2>3
  <2> HIDE DEF c, pm, sm
  <2>5. c + b * h \in Nat /\ x = sm + pm * (c + b * h)
    BY <2>4
  <2>6. QED
    BY <2>1, <2>5 DEF m, pm, sm
<1> HIDE DEF T
<1>10. T = 0..w
  BY <1>1, <1>8, <1>9, UpTo
<1>11. ASSUME NEW n \in 1..w PROVE (x \div p[n - 1]) % b = d[n]
  <2>1. w - n \in T /\ w - (w - n) = n
    BY <1>1, <1>10
  <2>2. PICK h \in Nat : x = s[n] + p[n] * h
    BY <2>1 DEF T
  <2>3. /\ s[n] = s[n - 1] + d[n] * p[n - 1] /\ p[n] = b * p[n - 1]
        /\ s[n - 1] \in 0..(p[n - 1] - 1) /\ p[n - 1] \in Nat \ {0} /\ d[n] \in 0..(b - 1)
    BY <1>1, <1>2, <1>3, <1>4
  <2> DEFINE c == d[n]
             pn == p[n - 1]
             sn == s[n - 1]
  <2>4. Splits(x, b, pn, sn, c, h)
    BY <2>2, <2>3 DEF Splits
  <2>5. sn \in 0..(pn - 1) /\ pn \in Nat \ {0} /\ c \in 0..(b - 1)
    BY <2>3
  <2> HIDE DEF c, pn, sn
  <2>6. (x \div pn) % b = c
    BY <2>4, <2>5, DigitAt
  <2>7. QED
    BY <2>6 DEF c, pn
<1>12. Digits(x, b, w) = [n \in 1..w |-> d[n]]
  BY <1>11 DEF Digits, p
<1>13. QED
  BY <1>6, <1>7, <1>12 DEF x, w, p

(* One digit more of a number is kept by a larger modulus.                 *)
LEMMA DigitNext ==
  ASSUME NEW b \in Nat \ {0}, NEW p \in Nat \ {0}, NEW x \in Nat
  PROVE  (x % (b * p)) = (x % p) + (((x \div p) % b) * p)
<1> DEFINE q == x \div p
           s == x % p
           c == q % b
           h == q \div b
<1>1. q \in Nat /\ s \in 0..(p - 1) /\ x = p * q + s
  OBVIOUS
<1> HIDE DEF q, s
<1>2. h \in Nat /\ c \in 0..(b - 1) /\ q = b * h + c
  BY <1>1
<1> HIDE DEF c, h
<1>3. s + c * p < b * p /\ s + c * p \in Nat /\ b * p \in Nat
  BY <1>1, <1>2, DigitFits
<1>4. x = (b * p) * h + (s + c * p)
  BY <1>1, <1>2
<1>5. (x % (b * p)) = s + c * p
  <2> DEFINE m == b * p
             r == s + c * p
  <2>1. m \in Nat /\ r \in Nat /\ r < m /\ x = m * h + r
    BY <1>3, <1>4
  <2> HIDE DEF m, r
  <2>2. (x % m) = r
    BY <1>2, <2>1
  <2>3. QED
    BY <2>2 DEF m, r
<1>6. QED
  BY <1>5 DEF c, q, s

(* A number is made of its digits, if they are enough.                     *)
LEMMA NumberOfDigits ==
  ASSUME NEW b \in Nat \ {0}, NEW w \in Nat, NEW x \in Nat
  PROVE  /\ Digits(x, b, w) \in Seq(0..(b - 1)) /\ Len(Digits(x, b, w)) = w
         /\ x < Powers(b, w)[w] => Number(Digits(x, b, w), b) = x
<1> DEFINE d == Digits(x, b, w)
           p == Powers(b, w)
           s == Sums(d, b)
           T == {n \in 0..w : s[n] = (x % p[n])}
<1>1. /\ p[0] = 1 /\ \A n \in 1..w : p[n] = b * p[n - 1]
      /\ \A n \in 0..w : p[n] \in Nat \ {0}
  BY PowersDef, PowersPositive
<1>2. d = [n \in 1..w |-> (x \div p[n - 1]) % b]
  BY DEF Digits
<1> HIDE DEF p, d
<1>3. \A n \in 1..w : d[n] = ((x \div p[n - 1]) % b) /\ d[n] \in 0..(b - 1)
  <2> SUFFICES ASSUME NEW n \in 1..w
               PROVE  d[n] = ((x \div p[n - 1]) % b) /\ d[n] \in 0..(b - 1)
    OBVIOUS
  <2>1. p[n - 1] \in Nat \ {0}
    BY <1>1
  <2>2. x \div p[n - 1] \in Nat
    BY <2>1
  <2>3. QED
    BY <1>2, <2>2
<1>4. d \in Seq(0..(b - 1)) /\ Len(d) = w /\ d \in Seq(Nat)
  <2>1. d \in [1..w -> 0..(b - 1)]
    BY <1>2, <1>3
  <2>2. QED
    BY <2>1
<1>5. s[0] = 0 /\ \A n \in 1..w : s[n] = s[n - 1] + d[n] * p[n - 1]
  BY <1>4, SumsDef DEF p
<1> HIDE DEF s
<1>6. 0 \in T /\ T \in SUBSET (0..w)
  BY <1>1, <1>5
<1>7. ASSUME NEW n \in 0..w, n \in T, n < w PROVE n + 1 \in T
  <2>1. n + 1 \in 1..w /\ (n + 1) - 1 = n /\ s[n] = (x % p[n]) /\ n + 1 \in 0..w
    BY <1>7
  <2>2. /\ s[n + 1] = (x % p[n]) + ((x \div p[n]) % b) * p[n] /\ p[n + 1] = b * p[n]
        /\ p[n] \in Nat \ {0}
    BY <1>1, <1>3, <1>5, <2>1
  <2> DEFINE pn == p[n]
  <2>3. pn \in Nat \ {0}
    BY <2>2
  <2> HIDE DEF pn
  <2>4. (x % (b * pn)) = (x % pn) + (((x \div pn) % b) * pn)
    BY <2>3, DigitNext
  <2>5. QED
    BY <2>1, <2>2, <2>4 DEF pn
<1> HIDE DEF T
<1>8. T = 0..w
  BY <1>6, <1>7, UpTo
<1>9. s[w] = (x % p[w])
  BY <1>8 DEF T
<1>10. Number(d, b) = s[w]
  BY <1>4 DEF Number, s
<1>11. x < p[w] => s[w] = x
  <2>1. p[w] \in Nat
    BY <1>1
  <2>2. QED
    BY <1>9, <2>1
<1>12. QED
  BY <1>4, <1>10, <1>11 DEF d, p

-----------------------------------------------------------------------------
(* n bytes are equal, and no more.                                         *)
Differ(a, b, n) ==
  /\ n \in Nat /\ n <= Len(a) /\ n <= Len(b)
  /\ \A i \in 1..n : a[i] = b[i]
  /\ n < Len(a) /\ n < Len(b) => a[n + 1] # b[n + 1]

LEMMA DiffIndexDiffers ==
  ASSUME NEW a \in Slice, NEW b \in Slice
  PROVE  Differ(a, b, DiffIndex(a, b))
<1> DEFINE T == {n \in 0..Shorter(a, b) : n = Shorter(a, b) \/ a[n + 1] # b[n + 1]}
<1>1. Shorter(a, b) \in Nat /\ Shorter(a, b) <= Len(a) /\ Shorter(a, b) <= Len(b)
      /\ (Shorter(a, b) = Len(a) \/ Shorter(a, b) = Len(b))
  BY DEF Shorter, Slice
<1>2. T \in SUBSET Nat /\ T # {}
  <2>1. Shorter(a, b) \in T
    BY <1>1
  <2>2. QED
    BY <1>1, <2>1
<1>3. PICK n \in T : \A m \in T : n <= m
  <2> HIDE DEF T
  <2>1. QED
    BY <1>2, Least
<1>4. n \in 0..Shorter(a, b)
  OBVIOUS
<1>5. ASSUME NEW i \in 1..n PROVE a[i] = b[i]
  <2>1. i - 1 \in 0..Shorter(a, b) /\ ~(n <= i - 1) /\ i - 1 # Shorter(a, b) /\ (i - 1) + 1 = i
    BY <1>1, <1>4
  <2>2. ~(i - 1 \in T)
    <3> HIDE DEF T
    <3>1. QED
      BY <1>3, <2>1
  <2>3. QED
    BY <2>1, <2>2
<1>6. n < Shorter(a, b) => a[n + 1] # b[n + 1]
  BY <1>1, <1>4
<1> DEFINE P(m) == /\ \A i \in 1..m : a[i] = b[i]
                   /\ m < Shorter(a, b) => a[m + 1] # b[m + 1]
<1>7. \E m \in 0..Shorter(a, b) : P(m)
  BY <1>4, <1>5, <1>6
<1>8. DiffIndex(a, b) \in 0..Shorter(a, b) /\ P(DiffIndex(a, b))
  <2>1. DiffIndex(a, b) = CHOOSE m \in 0..Shorter(a, b) : P(m)
    BY DEF DiffIndex
  <2> HIDE DEF P
  <2>2. QED
    BY <1>7, <2>1
<1>9. QED
  BY <1>1, <1>8 DEF Differ

LEMMA DifferUnique ==
  ASSUME NEW a \in Slice, NEW b \in Slice, NEW n, NEW m, Differ(a, b, n), Differ(a, b, m)
  PROVE  n = m
<1>1. Len(a) \in Nat /\ Len(b) \in Nat
  BY DEF Slice
<1>2. ~(n < m)
  <2> SUFFICES ASSUME n < m PROVE FALSE
    OBVIOUS
  <2>1. n + 1 \in 1..m /\ n < Len(a) /\ n < Len(b)
    BY <1>1 DEF Differ
  <2>2. QED
    BY <2>1 DEF Differ
<1>3. ~(m < n)
  <2> SUFFICES ASSUME m < n PROVE FALSE
    OBVIOUS
  <2>1. m + 1 \in 1..n /\ m < Len(a) /\ m < Len(b)
    BY <1>1 DEF Differ
  <2>2. QED
    BY <2>1 DEF Differ
<1>4. QED
  BY <1>2, <1>3 DEF Differ

(* What Compare compares, given where the keys differ.                     *)
LEMMA CompareAt ==
  ASSUME NEW a \in Slice, NEW b \in Slice, NEW n, Differ(a, b, n)
  PROVE  /\ DiffIndex(a, b) = n
         /\ Len(a) \in Nat /\ Len(b) \in Nat /\ n \in Nat
         /\ n < Len(a) /\ n < Len(b) =>
              a[n + 1] \in Int /\ b[n + 1] \in Int /\ Compare(a, b) = a[n + 1] - b[n + 1]
         /\ ~(n < Len(a) /\ n < Len(b)) => Compare(a, b) = Len(a) - Len(b)
<1>1. DiffIndex(a, b) = n
  BY DiffIndexDiffers, DifferUnique
<1>2. Len(a) \in Nat /\ Len(b) \in Nat /\ n \in Nat
  BY DEF Slice, Differ
<1>3. n < Shorter(a, b) <=> n < Len(a) /\ n < Len(b)
  BY <1>2 DEF Shorter
<1>4. Byte \subseteq Int
  BY BaseAssumption DEF Byte
<1>5. n < Len(a) /\ n < Len(b) => a[n + 1] \in Byte /\ b[n + 1] \in Byte
  BY <1>2 DEF Slice
<1>6. QED
  BY <1>1, <1>2, <1>3, <1>4, <1>5 DEF Compare

-----------------------------------------------------------------------------
(* Compare is a total order on keys.                                       *)
LEMMA CompareInt ==
  ASSUME NEW a \in Slice, NEW b \in Slice
  PROVE  Compare(a, b) \in Int
BY DiffIndexDiffers, CompareAt

LEMMA CompareEqual ==
  ASSUME NEW a \in Slice, NEW b \in Slice
  PROVE  Compare(a, b) = 0 <=> a = b
<1> DEFINE n == DiffIndex(a, b)
<1>1. Differ(a, b, n)
  BY DiffIndexDiffers
<1> HIDE DEF n
<1>2. ASSUME a = b PROVE Compare(a, b) = 0
  BY <1>1, <1>2, CompareAt DEF Differ
<1>3. ASSUME Compare(a, b) = 0 PROVE a = b
  <2>1. ~(n < Len(a) /\ n < Len(b)) /\ Len(a) = Len(b) /\ n = Len(a)
    BY <1>1, <1>3, CompareAt DEF Differ
  <2>2. \A i \in 1..Len(a) : a[i] = b[i]
    BY <1>1, <2>1 DEF Differ
  <2>3. QED
    BY <2>1, <2>2, SeqEqual DEF Slice
<1>4. QED
  BY <1>2, <1>3

LEMMA CompareConverse ==
  ASSUME NEW a \in Slice, NEW b \in Slice
  PROVE  Compare(a, b) < 0 <=> Compare(b, a) > 0
<1> DEFINE n == DiffIndex(a, b)
<1>1. Differ(a, b, n)
  BY DiffIndexDiffers
<1>2. Differ(b, a, n)
  BY <1>1 DEF Differ
<1> HIDE DEF n
<1>3. QED
  BY <1>1, <1>2, CompareAt

LEMMA CompareTransitive ==
  ASSUME NEW a \in Slice, NEW b \in Slice, NEW c \in Slice,
         Compare(a, b) < 0, Compare(b, c) <= 0
  PROVE  Compare(a, c) < 0
<1> DEFINE n == DiffIndex(a, b)
           m == DiffIndex(b, c)
<1>1. Differ(a, b, n) /\ Differ(b, c, m)
  BY DiffIndexDiffers
<1> HIDE DEF n, m
<1>2. /\ Len(a) \in Nat /\ Len(b) \in Nat /\ Len(c) \in Nat /\ n \in Nat /\ m \in Nat
      /\ n < Len(a) /\ n < Len(b) =>
           a[n + 1] \in Int /\ b[n + 1] \in Int /\ a[n + 1] < b[n + 1]
      /\ ~(n < Len(a) /\ n < Len(b)) => Len(a) < Len(b) /\ n = Len(a)
      /\ m < Len(b) /\ m < Len(c) =>
           b[m + 1] \in Int /\ c[m + 1] \in Int /\ b[m + 1] < c[m + 1]
      /\ ~(m < Len(b) /\ m < Len(c)) => Len(b) <= Len(c) /\ m = Len(b)
      /\ n <= Len(a) /\ n <= Len(b) /\ m <= Len(b) /\ m <= Len(c)
  <2>1. /\ Len(a) \in Nat /\ Len(b) \in Nat /\ n \in Nat
        /\ n < Len(a) /\ n < Len(b) =>
             a[n + 1] \in Int /\ b[n + 1] \in Int /\ Compare(a, b) = a[n + 1] - b[n + 1]
        /\ ~(n < Len(a) /\ n < Len(b)) => Compare(a, b) = Len(a) - Len(b)
    BY <1>1, CompareAt
  <2>2. /\ Len(c) \in Nat /\ m \in Nat
        /\ m < Len(b) /\ m < Len(c) =>
             b[m + 1] \in Int /\ c[m + 1] \in Int /\ Compare(b, c) = b[m + 1] - c[m + 1]
        /\ ~(m < Len(b) /\ m < Len(c)) => Compare(b, c) = Len(b) - Len(c)
    <3>1. Differ(b, c, m)
      BY <1>1
    <3>2. QED
      BY <3>1, CompareAt
  <2>3. /\ n <= Len(a) /\ n <= Len(b)
        /\ n < Len(a) /\ n < Len(b) => a[n + 1] # b[n + 1]
    BY <1>1 DEF Differ
  <2>4. /\ m <= Len(b) /\ m <= Len(c)
        /\ m < Len(b) /\ m < Len(c) => b[m + 1] # c[m + 1]
    BY <1>1 DEF Differ
  <2>5. n < Len(a) /\ n < Len(b) => a[n + 1] < b[n + 1]
    BY <2>1, <2>3
  <2>6. ~(n < Len(a) /\ n < Len(b)) => Len(a) < Len(b) /\ n = Len(a)
    BY <2>1, <2>3
  <2>7. m < Len(b) /\ m < Len(c) => b[m + 1] < c[m + 1]
    BY <2>2, <2>4
  <2>8. ~(m < Len(b) /\ m < Len(c)) => Len(b) <= Len(c) /\ m = Len(b)
    BY <2>1, <2>2, <2>4
  <2>9. QED
    BY <2>1, <2>2, <2>3, <2>4, <2>5, <2>6, <2>7, <2>8
<1>3. CASE n <= m
  <2>1. n <= Len(c)
    BY <1>2, <1>3
  <2>2. \A i \in 1..n : a[i] = c[i]
    BY <1>1, <1>2, <1>3 DEF Differ
  <2>3. CASE n < Len(a)
    <3>1. n < Len(b) /\ n < Len(c) /\ b[n + 1] <= c[n + 1] /\ c[n + 1] \in Int
      BY <1>1, <1>2, <1>3, <2>3 DEF Differ
    <3>2. a[n + 1] < c[n + 1]
      BY <1>2, <2>3, <3>1
    <3>3. Differ(a, c, n)
      BY <1>2, <2>1, <2>2, <3>1, <3>2 DEF Differ
    <3>4. QED
      BY <1>2, <2>3, <3>1, <3>2, <3>3, CompareAt
  <2>4. CASE n = Len(a)
    <3>1. Differ(a, c, n)
      BY <1>2, <2>1, <2>2, <2>4 DEF Differ
    <3>2. Len(a) < Len(c)
      BY <1>2, <1>3, <2>4
    <3>3. QED
      BY <1>2, <2>4, <3>1, <3>2, CompareAt
  <2>5. QED
    BY <1>2, <2>3, <2>4
<1>4. CASE m < n
  <2>1. m < Len(a) /\ m < Len(b)
    BY <1>2, <1>4
  <2>2. m < Len(c) /\ b[m + 1] \in Int /\ c[m + 1] \in Int /\ b[m + 1] < c[m + 1]
    BY <1>2, <2>1
  <2>3. m + 1 \in 1..n
    BY <1>2, <1>4
  <2>4. a[m + 1] = b[m + 1] /\ \A i \in 1..m : a[i] = c[i]
    BY <1>1, <1>2, <1>4, <2>3 DEF Differ
  <2>5. Differ(a, c, m)
    BY <1>2, <2>1, <2>2, <2>4 DEF Differ
  <2>6. QED
    BY <1>2, <2>1, <2>2, <2>4, <2>5, CompareAt
<1>5. QED
  BY <1>2, <1>3, <1>4

(* Compare(a, b) < 0 is what Block assumes of its comparator.              *)
THEOREM BytewiseIsOrder ==
  /\ \A a, b \in Slice : Compare(a, b) = 0 <=> a = b
  /\ \A a, b \in Slice : ~(Compare(a, b) < 0 /\ Compare(b, a) < 0)
  /\ \A a, b, c \in Slice : Compare(a, b) < 0 /\ Compare(b, c) < 0 => Compare(a, c) < 0
  /\ \A a, b, c \in Slice : Compare(a, c) < 0 => Compare(a, b) < 0 \/ Compare(b, c) < 0
<1>1. \A a, b \in Slice : ~(Compare(a, b) < 0 /\ Compare(b, a) < 0)
  BY CompareConverse, CompareInt
<1>2. ASSUME NEW a \in Slice, NEW b \in Slice, NEW c \in Slice,
             Compare(a, b) < 0, Compare(b, c) < 0
      PROVE  Compare(a, c) < 0
  BY <1>2, CompareTransitive, CompareInt
<1>3. ASSUME NEW a \in Slice, NEW b \in Slice, NEW c \in Slice,
             Compare(a, c) < 0, ~(Compare(a, b) < 0)
      PROVE  Compare(b, c) < 0
  <2>1. Compare(b, a) <= 0
    BY <1>3, CompareConverse, CompareEqual, CompareInt
  <2>2. CASE Compare(b, a) < 0
    BY <1>3, <2>2, CompareTransitive, CompareInt
  <2>3. CASE Compare(b, a) = 0
    BY <1>3, <2>3, CompareEqual
  <2>4. QED
    BY <2>1, <2>2, <2>3, CompareInt
<1>4. QED
  BY <1>1, <1>2, <1>3, CompareEqual

-----------------------------------------------------------------------------
(* A key cut off after byte i, which is incremented, comes after it.       *)
LEMMA IncrementedProperties ==
  ASSUME NEW a \in Slice, NEW i \in 1..Len(a), a[i] # Base - 1
  PROVE  /\ Incremented(a, i) \in Slice
         /\ Len(Incremented(a, i)) = i
         /\ \A j \in 1..(i - 1) : Incremented(a, i)[j] = a[j]
         /\ Incremented(a, i)[i] = a[i] + 1
         /\ a[i] \in Int
         /\ Compare(a, Incremented(a, i)) < 0
<1> DEFINE s == Incremented(a, i)
<1>1. Len(a) \in Nat /\ a[i] \in Byte /\ a[i] + 1 \in Byte /\ a[i] \in Int
  BY BaseAssumption DEF Slice, Byte
<1>2. /\ SubSeq(a, 1, i - 1) \in Seq(Byte)
      /\ Len(SubSeq(a, 1, i - 1)) = i - 1
      /\ \A j \in 1..(i - 1) : SubSeq(a, 1, i - 1)[j] = a[j]
  BY <1>1 DEF Slice
<1>3. /\ s \in Slice /\ Len(s) = i /\ s[i] = a[i] + 1
      /\ \A j \in 1..(i - 1) : s[j] = a[j]
  BY <1>1, <1>2 DEF Slice, Incremented
<1> HIDE DEF s
<1>4. Differ(a, s, i - 1)
  <2>1. i - 1 \in Nat /\ i - 1 <= Len(a) /\ i - 1 <= Len(s) /\ (i - 1) + 1 = i
    BY <1>1, <1>3
  <2>2. a[i] # s[i]
    BY <1>1, <1>3
  <2>3. QED
    BY <1>3, <2>1, <2>2 DEF Differ
<1>5. Compare(a, s) < 0
  <2>1. i - 1 < Len(a) /\ i - 1 < Len(s) /\ (i - 1) + 1 = i
    BY <1>1, <1>3
  <2>2. Compare(a, s) = a[i] - s[i]
    BY <1>3, <1>4, <2>1, CompareAt
  <2>3. QED
    BY <1>1, <1>3, <2>2
<1>6. QED
  BY <1>1, <1>3, <1>5 DEF s

(* FindShortestSeparator returns start or a key after it, no longer, and   *)
(* before limit if start is.                                               *)
LEMMA SeparatorProperties ==
  ASSUME NEW start \in Slice, NEW limit \in Slice
  PROVE  LET s == FindShortestSeparator(start, limit) IN
         /\ s \in Slice
         /\ Len(s) <= Len(start)
         /\ \/ s = start
            \/ Compare(start, s) < 0 /\ Compare(s, limit) < 0
<1> DEFINE n == DiffIndex(start, limit)
           s == Incremented(start, n + 1)
           shortened == /\ n < Shorter(start, limit)
                        /\ start[n + 1] < Base - 1
                        /\ start[n + 1] + 1 < limit[n + 1]
<1>1. FindShortestSeparator(start, limit) = IF shortened THEN s ELSE start
  BY DEF FindShortestSeparator
<1>2. Differ(start, limit, n)
  BY DiffIndexDiffers
<1>3. CASE ~shortened
  <2> HIDE DEF s, shortened
  <2>1. Len(start) \in Nat
    BY DEF Slice
  <2>2. QED
    BY <1>1, <1>3, <2>1
<1>4. CASE shortened
  <2>1. /\ Len(start) \in Nat /\ Len(limit) \in Nat /\ n \in Nat
        /\ n < Len(start) /\ n < Len(limit)
        /\ limit[n + 1] \in Int
    BY <1>2, <1>4, CompareAt DEF Shorter, Differ
  <2>2. start[n + 1] # Base - 1 /\ start[n + 1] + 1 < limit[n + 1]
        /\ n + 1 \in 1..Len(start) /\ (n + 1) - 1 = n
    BY <1>4, <2>1, BaseAssumption
  <2> HIDE DEF n
  <2>3. /\ s \in Slice /\ Len(s) = n + 1 /\ Compare(start, s) < 0
        /\ \A j \in 1..n : s[j] = start[j]
        /\ s[n + 1] = start[n + 1] + 1
        /\ start[n + 1] \in Int
    BY <2>2, IncrementedProperties
  <2> HIDE DEF s
  <2>4. Differ(s, limit, n)
    BY <1>2, <2>1, <2>2, <2>3 DEF Differ
  <2>5. Compare(s, limit) = s[n + 1] - limit[n + 1]
    BY <2>1, <2>3, <2>4, CompareAt
  <2>6. Compare(s, limit) < 0
    BY <2>1, <2>2, <2>3, <2>5
  <2>7. QED
    BY <1>1, <1>4, <2>1, <2>3, <2>6
<1>5. QED
  BY <1>3, <1>4

LEMMA SuccessorProperties ==
  ASSUME NEW k \in Slice
  PROVE  LET s == FindShortSuccessor(k) IN
         /\ s \in Slice
         /\ Len(s) <= Len(k)
         /\ s = k \/ Compare(k, s) < 0
<1> DEFINE P(i) == k[i] # Base - 1 /\ \A j \in 1..(i - 1) : k[j] = Base - 1
           i0 == CHOOSE i \in DOMAIN k : P(i)
           unchanged == \A i \in DOMAIN k : k[i] = Base - 1
<1>1. FindShortSuccessor(k) = IF unchanged THEN k ELSE Incremented(k, i0)
  BY DEF FindShortSuccessor
<1>2. DOMAIN k = 1..Len(k) /\ Len(k) \in Nat
  BY DEF Slice
<1>3. CASE unchanged
  BY <1>1, <1>2, <1>3
<1>4. CASE ~unchanged
  <2> DEFINE T == {i \in 1..Len(k) : k[i] # Base - 1}
  <2>1. T \in SUBSET Nat /\ T # {}
    BY <1>2, <1>4
  <2>2. PICK i \in T : \A j \in T : i <= j
    <3> HIDE DEF T
    <3>1. QED
      BY <2>1, Least
  <2>3. P(i) /\ i \in DOMAIN k
    BY <1>2, <2>2
  <2>4. P(i0) /\ i0 \in DOMAIN k
    <3> HIDE DEF P
    <3>1. QED
      BY <2>3
  <2>5. i0 \in 1..Len(k) /\ k[i0] # Base - 1
    BY <1>2, <2>4
  <2> HIDE DEF i0
  <2>6. QED
    BY <1>1, <1>2, <1>4, <2>5, IncrementedProperties
<1>5. QED
  BY <1>3, <1>4

(* The comments of Comparator.h on BytewiseComparator's two functions.     *)
THEOREM ShortKeys ==
  /\ \A start, limit \in Slice : Separates(start, limit)
  /\ \A k \in Slice : Succeeds(k)
<1>1. ASSUME NEW start \in Slice, NEW limit \in Slice
      PROVE  Separates(start, limit)
  BY SeparatorProperties, CompareEqual, CompareInt DEF Separates
<1>2. ASSUME NEW k \in Slice PROVE Succeeds(k)
  BY SuccessorProperties, CompareEqual, CompareInt DEF Succeeds
<1>3. QED
  BY <1>1, <1>2

-----------------------------------------------------------------------------
(* An internal key is a user key and a tag.                                *)
LEMMA UserKeyProperties ==
  ASSUME NEW k \in InternalKey
  PROVE  /\ ExtractUserKey(k) \in Slice
         /\ Len(ExtractUserKey(k)) = Len(k) - TagBytes
         /\ Len(k) \in Nat
<1>1. k \in Seq(Byte) /\ Len(k) \in Nat /\ Len(k) - TagBytes \in Nat /\ TagBytes \in Nat
  BY TagBytesAssumption DEF InternalKey, Slice
<1>2. /\ SubSeq(k, 1, Len(k) - TagBytes) \in Seq(Byte)
      /\ Len(SubSeq(k, 1, Len(k) - TagBytes)) = Len(k) - TagBytes
  BY <1>1
<1>3. QED
  BY <1>1, <1>2 DEF ExtractUserKey, Slice

(* The largest sequence number is one.                                     *)
LEMMA MaxPacked == PackSequenceAndType(kMaxSequenceNumber, kValueTypeForSeek) \in Nat
<1> DEFINE p == Powers(Base, TagBytes)
<1>1. Base \in Nat \ {0} /\ TagBytes \in Nat /\ TagBytes - 1 \in 0..TagBytes
  BY BaseAssumption, TagBytesAssumption
<1>2. p[TagBytes - 1] \in Nat \ {0}
  BY <1>1, PowersPositive
<1> HIDE DEF p
<1>3. p[TagBytes - 1] - 1 \in Nat
  BY <1>2
<1>4. kMaxSequenceNumber \in Nat
  BY <1>3 DEF kMaxSequenceNumber, p
<1>5. QED
  BY <1>1, <1>4 DEF PackSequenceAndType, kValueTypeForSeek, kTypeValue

(* A key that is tacked together is shorter and comes after the old one,   *)
(* and before what the new user key comes before.                          *)
LEMMA TackedProperties ==
  ASSUME NEW k \in InternalKey, NEW tmp \in Slice,
         Len(tmp) < Len(ExtractUserKey(k)), Compare(ExtractUserKey(k), tmp) < 0
  PROVE  /\ Len(Tacked(k, tmp)) < Len(k)
         /\ ExtractUserKey(Tacked(k, tmp)) = tmp
         /\ InternalCompare(k, Tacked(k, tmp)) < 0
<1> DEFINE n == PackSequenceAndType(kMaxSequenceNumber, kValueTypeForSeek)
           tag == EncodeFixed64(n)
           s == tmp \o tag
<1>1. Tacked(k, tmp) = s
  BY DEF Tacked
<1>2. TagBytes \in Nat
  BY TagBytesAssumption
<1>3. n \in Nat
  BY MaxPacked
<1> HIDE DEF n
<1> DEFINE bytes == 0..(Base - 1)
<1>4. tag \in Seq(bytes) /\ Len(tag) = TagBytes
  BY <1>2, <1>3, NumberOfDigits, BaseAssumption DEF EncodeFixed64
<1> HIDE DEF tag, bytes
<1>5. tmp \in Seq(Byte) /\ Len(tmp) \in Nat
  BY DEF Slice
<1>6. /\ Len(s) = Len(tmp) + TagBytes
      /\ \A i \in 1..Len(tmp) : s[i] = tmp[i]
      /\ s \in Seq(Byte \cup bytes)
  <2>1. tmp \in Seq(Byte \cup bytes) /\ tag \in Seq(Byte \cup bytes)
    BY <1>4, <1>5
  <2>2. /\ s \in Seq(Byte \cup bytes)
        /\ Len(s) = Len(tmp) + Len(tag)
        /\ \A i \in 1..(Len(tmp) + Len(tag)) :
             s[i] = IF i <= Len(tmp) THEN tmp[i] ELSE tag[i - Len(tmp)]
    BY <2>1, ConcatProperties
  <2>3. QED
    BY <1>2, <1>4, <1>5, <2>2
<1> HIDE DEF s
<1>7. ExtractUserKey(s) = tmp
  <2>1. ExtractUserKey(s) = SubSeq(s, 1, Len(tmp))
    BY <1>2, <1>5, <1>6 DEF ExtractUserKey
  <2>2. Len(s) \in Nat /\ Len(tmp) <= Len(s)
    BY <1>2, <1>5, <1>6
  <2>3. /\ SubSeq(s, 1, Len(tmp)) \in Seq(Byte \cup bytes)
        /\ Len(SubSeq(s, 1, Len(tmp))) = Len(tmp)
        /\ \A i \in 1..Len(tmp) : SubSeq(s, 1, Len(tmp))[i] = s[i]
    BY <1>5, <1>6, <2>2
  <2>4. tmp \in Seq(Byte \cup bytes)
    BY <1>5
  <2>5. QED
    BY <1>6, <2>1, <2>3, <2>4, SeqEqual
<1>8. Len(s) < Len(k)
  BY <1>2, <1>5, <1>6, UserKeyProperties
<1>9. InternalCompare(k, s) < 0
  <2>1. Compare(ExtractUserKey(k), tmp) \in Int
    BY UserKeyProperties, CompareInt
  <2>2. QED
    BY <1>7, <2>1 DEF InternalCompare
<1>10. QED
  BY <1>1, <1>7, <1>8, <1>9

LEMMA TackedOrNot ==
  ASSUME NEW k \in InternalKey, NEW tmp, Tacked(k, tmp) # k
  PROVE  Len(tmp) < Len(ExtractUserKey(k)) /\ Compare(ExtractUserKey(k), tmp) < 0
BY DEF Tacked

(* The assertions of InternalKeyComparator hold for all internal keys.     *)
THEOREM InternalShortKeys ==
  /\ \A start, limit \in InternalKey : InternalSeparates(start, limit)
  /\ \A k \in InternalKey : InternalSucceeds(k)
<1>1. ASSUME NEW start \in InternalKey, NEW limit \in InternalKey
      PROVE  InternalSeparates(start, limit)
  <2> DEFINE a == ExtractUserKey(start)
             b == ExtractUserKey(limit)
             tmp == FindShortestSeparator(a, b)
             s == Tacked(start, tmp)
  <2>1. a \in Slice /\ b \in Slice
    BY UserKeyProperties
  <2> HIDE DEF a, b
  <2>2. /\ tmp \in Slice
        /\ \/ tmp = a
           \/ Compare(a, tmp) < 0 /\ Compare(tmp, b) < 0
    BY <2>1, SeparatorProperties
  <2>3. InternalSeparator(start, limit) = s
    BY DEF InternalSeparator, a, b
  <2> HIDE DEF tmp
  <2>4. CASE s # start
    <3>1. Len(tmp) < Len(a) /\ Compare(a, tmp) < 0
      BY <2>4, TackedOrNot DEF a
    <3>2. /\ Len(s) < Len(start)
          /\ ExtractUserKey(s) = tmp
          /\ InternalCompare(start, s) < 0
      BY <2>2, <3>1, TackedProperties DEF a
    <3>3. Compare(tmp, b) < 0
      <4>1. tmp # a
        BY <2>1, <3>1, CompareEqual
      <4>2. QED
        BY <2>2, <4>1
    <3>4. InternalCompare(s, limit) < 0
      BY <3>2, <3>3, <2>1, <2>2, CompareInt DEF InternalCompare, b
    <3>5. QED
      BY <2>3, <3>2, <3>4 DEF InternalSeparates
  <2>5. QED
    BY <2>3, <2>4 DEF InternalSeparates
<1>2. ASSUME NEW k \in InternalKey
      PROVE  InternalSucceeds(k)
  <2> DEFINE tmp == FindShortSuccessor(ExtractUserKey(k))
             s == Tacked(k, tmp)
  <2>1. tmp \in Slice
    BY UserKeyProperties, SuccessorProperties
  <2>2. InternalSuccessor(k) = s
    BY DEF InternalSuccessor
  <2> HIDE DEF tmp
  <2>3. CASE s # k
    <3>1. Len(tmp) < Len(ExtractUserKey(k)) /\ Compare(ExtractUserKey(k), tmp) < 0
      BY <2>3, TackedOrNot
    <3>2. Len(s) < Len(k) /\ InternalCompare(k, s) < 0
      BY <2>1, <3>1, TackedProperties
    <3>3. QED
      BY <2>2, <3>2 DEF InternalSucceeds
  <2>4. QED
    BY <2>2, <2>3 DEF InternalSucceeds
<1>3. QED
  BY <1>1, <1>2

-----------------------------------------------------------------------------
(* The inputs are what they are drawn from.                                *)
InputOK ==
  /\ input.for = "keys"     => input.a \in Slice /\ input.b \in Slice
  /\ input.for = "internal" => input.a \in InternalKey /\ input.b \in InternalKey
  /\ input.for = "block"    => input.s \in Seq(Octets) /\ Len(input.s) < Modulus
  /\ input.for = "random"   => input.s \in Nat /\ input.maxLog \in Nat
  /\ input.for = "cleanups" => input.s \in Seq(Functions)

(* Every input is one the functions may be called with.                    *)
LEMMA InputsOK == InputSpec => []InputOK
<1>1. InputInit => InputOK
  BY DEF InputInit, Start, InputOK
<1>2. ASSUME InputOK, [InputNext]_input PROVE InputOK'
  <2>1. CASE CompareKeys
    BY <2>1, InputsAssumption DEF CompareKeys, InputOK
  <2>2. CASE CompareInternalKeys
    BY <2>2, InputsAssumption DEF CompareInternalKeys, InputOK
  <2>3. CASE ReadBlock
    BY <2>3, InputsAssumption DEF ReadBlock, InputOK
  <2>4. CASE Draw
    BY <2>4, InputsAssumption DEF Draw, InputOK
  <2>5. CASE RunCleanups
    BY <2>5, InputsAssumption DEF RunCleanups, InputOK
  <2>6. CASE UNCHANGED input
    BY <1>2, <2>6 DEF InputOK
  <2>7. QED
    BY <1>2, <2>1, <2>2, <2>3, <2>4, <2>5, <2>6 DEF InputNext
<1>3. QED
  BY <1>1, <1>2, PTL DEF InputSpec

(* Comparator.h on separators and successors, for all keys.                *)
THEOREM ShortKeysAlways == InputSpec => []ShortKeysSeparate
<1>1. InputOK => ShortKeysSeparate
  BY ShortKeys, InternalShortKeys DEF InputOK, ShortKeysSeparate
<1>2. QED
  BY <1>1, InputsOK, PTL

-----------------------------------------------------------------------------
(* What div and mod are.                                                   *)
LEMMA Division ==
  ASSUME NEW x \in Nat, NEW y \in Nat \ {0}
  PROVE  x \div y \in Nat /\ (x % y) \in 0..(y - 1) /\ x = y * (x \div y) + (x % y)
OBVIOUS

(* Random::Next without its wrapping around at 2 * (M + 1).                *)
LEMMA NextSeedModular ==
  ASSUME NEW seed \in 1..(M - 1)
  PROVE  NextSeed(seed) = (seed * A) % M /\ NextSeed(seed) \in 1..(M - 1)
<1> DEFINE x == seed * A
           q == x \div (M + 1)
           r == x % (M + 1)
           m == x % M
<1>1. M \in Nat \ {0, 1} /\ A \in 1..M /\ m # 0
  BY RandomAssumption
<1>2. x \in Nat /\ x <= (M - 1) * M
  <2>1. seed * A <= (M - 1) * A /\ (M - 1) * A <= (M - 1) * M
    BY <1>1
  <2>2. seed * A \in Nat /\ (M - 1) * A \in Nat /\ (M - 1) * M \in Nat
    BY <1>1
  <2>3. QED
    BY <2>1, <2>2
<1> HIDE DEF x
<1>3. q \in Nat /\ r \in 0..M /\ x = (M + 1) * q + r
  <2>1. M + 1 \in Nat \ {0}
    BY <1>1
  <2>2. q \in Nat /\ r \in 0..((M + 1) - 1) /\ x = (M + 1) * q + r
    BY <1>2, <2>1, Division
  <2>3. QED
    BY <1>1, <2>2
<1>4. m \in 0..(M - 1)
  BY <1>1, <1>2
<1> HIDE DEF q, r
<1>5. q <= M - 1
  <2> SUFFICES ASSUME q >= M PROVE FALSE
    BY <1>1, <1>3
  <2>1. (M + 1) * q >= (M + 1) * M
    BY <1>1, <1>3
  <2>2. (M + 1) * M > (M - 1) * M
    BY <1>1
  <2>3. (M + 1) * q \in Nat /\ (M + 1) * M \in Nat /\ (M - 1) * M \in Nat
    BY <1>1, <1>3
  <2>4. QED
    BY <1>2, <1>3, <2>1, <2>2, <2>3
<1>6. x = M * q + (q + r)
  BY <1>1, <1>3
<1> DEFINE sum == q + r
           next == IF sum > M THEN sum - M ELSE sum
<1>7. sum \in 0..(2 * M - 1) /\ sum = (sum % (2 * (M + 1)))
  BY <1>1, <1>3, <1>5
<1>8. NextSeed(seed) = next
  BY <1>7 DEF NextSeed, x, q, r
<1>9. sum # M /\ sum # 0
  <2>1. sum = M => x = M * (q + 1) + 0
    BY <1>1, <1>3, <1>6
  <2>2. sum = 0 => x = M * q + 0
    BY <1>1, <1>3, <1>6
  <2>3. \A k \in Nat : x = M * k + 0 => (x % M) = 0
    BY <1>1
  <2>4. QED
    BY <1>1, <1>3, <2>1, <2>2, <2>3
<1>10. next \in 1..(M - 1) /\ \E k \in Nat : x = M * k + next
  <2>1. CASE sum > M
    <3>1. x = M * (q + 1) + (sum - M)
      BY <1>1, <1>3, <1>6
    <3>2. QED
      BY <1>1, <1>3, <1>7, <2>1, <3>1
  <2>2. CASE ~(sum > M)
    <3>1. x = M * q + sum
      BY <1>6
    <3>2. QED
      BY <1>1, <1>3, <1>7, <1>9, <2>2, <3>1
  <2>3. QED
    BY <2>1, <2>2
<1> HIDE DEF next
<1>11. (x % M) = next
  BY <1>1, <1>10
<1>12. QED
  BY <1>8, <1>10, <1>11 DEF x

(* Powers of 2 do not get smaller.                                         *)
LEMMA PowersGrow ==
  ASSUME NEW w \in Nat
  PROVE  \A n \in 0..w : Powers(2, w)[n] \in Nat \ {0} /\ Powers(2, w)[n] <= Powers(2, w)[w]
<1> DEFINE p == Powers(2, w)
           T == {n \in 0..w : p[w - n] <= p[w]}
<1>1. \A n \in 1..w : p[n] = 2 * p[n - 1]
  BY PowersDef
<1>2. \A n \in 0..w : p[n] \in Nat \ {0}
  BY PowersPositive
<1> HIDE DEF p
<1>3. 0 \in T /\ T \in SUBSET (0..w)
  BY <1>2
<1>4. ASSUME NEW n \in 0..w, n \in T, n < w PROVE n + 1 \in T
  <2> DEFINE m == w - (n + 1)
  <2>1. m \in 0..w /\ m + 1 = w - n /\ m + 1 \in 1..w /\ (m + 1) - 1 = m /\ n + 1 \in 0..w
    BY <1>4
  <2>2. p[m + 1] <= p[w]
    BY <1>4, <2>1
  <2> HIDE DEF m
  <2>3. p[m + 1] = 2 * p[m] /\ p[m] \in Nat /\ p[w] \in Nat
    BY <1>1, <1>2, <2>1
  <2>4. p[m] <= p[w]
    BY <2>2, <2>3
  <2>5. QED
    BY <2>1, <2>4 DEF m
<1> HIDE DEF T
<1>5. T = 0..w
  BY <1>3, <1>4, UpTo
<1>6. ASSUME NEW n \in 0..w PROVE p[n] <= p[w]
  <2>1. w - n \in T /\ w - (w - n) = n
    BY <1>5
  <2>2. QED
    BY <2>1 DEF T
<1>7. QED
  BY <1>2, <1>6 DEF p

(* Random::Next multiplies modulo M, and Skewed has as many bits as it may *)
(* have, from every seed.                                                  *)
THEOREM RandomAlwaysModular == InputSpec => []RandomIsModular
<1>1. ASSUME NEW s \in Nat, NEW maxLog \in Nat PROVE IsModular(s, maxLog)
  <2> DEFINE seed == Seed(s)
  <2>1. M \in Nat \ {0, 1}
    BY RandomAssumption
  <2>2. seed \in 1..(M - 1)
    <3>1. (s % (M + 1)) \in 0..M
      BY <2>1
    <3>2. QED
      BY <2>1, <3>1 DEF Seed
  <2> HIDE DEF seed
  <2>3. NextSeed(seed) = (seed * A) % M /\ NextSeed(seed) \in 1..(M - 1)
    BY <2>2, NextSeedModular
  <2> DEFINE first == NextSeed(seed)
             k == first % (maxLog + 1)
             n == Powers(2, maxLog)[k]
             top == Powers(2, maxLog)[maxLog]
  <2>4. first \in 1..(M - 1)
    BY <2>3
  <2> HIDE DEF first
  <2>5. k \in 0..maxLog
    BY <2>1, <2>4
  <2> HIDE DEF k
  <2>6. n \in Nat \ {0} /\ n <= top /\ top \in Nat
    BY <2>5, PowersGrow
  <2>7. NextSeed(first) \in 1..(M - 1)
    BY <2>4, NextSeedModular
  <2> DEFINE second == NextSeed(first)
  <2> HIDE DEF n, top, second
  <2>8. (second % n) \in 0..(top - 1)
    <3>1. second \in Nat
      BY <2>1, <2>7 DEF second
    <3>2. (second % n) \in 0..(n - 1)
      BY <2>6, <3>1
    <3>3. QED
      BY <2>6, <3>2
  <2>9. Skewed(seed, maxLog) = (second % n)
    BY DEF Skewed, Uniform, n, k, second, first
  <2>10. QED
    BY <2>3, <2>8, <2>9 DEF IsModular, seed, top
<1>2. InputOK => RandomIsModular
  BY <1>1 DEF InputOK, RandomIsModular
<1>3. QED
  BY <1>2, InputsOK, PTL

(* A new function is second, unless it is the first.                       *)
Registered(r, c, f) ==
  /\ Len(r) = Len(c) + 1
  /\ c = <<>> => r[1] = f
  /\ c # <<>> => r[1] = c[1] /\ r[2] = f
  /\ \A i \in 3..Len(r) : r[i] = c[i - 1]

(* What RegisterCleanup does is what Registered says.                      *)
LEMMA RegisterProperties ==
  ASSUME NEW F, NEW c \in Seq(F), NEW f \in F
  PROVE  RegisterCleanup(c, f) \in Seq(F) /\ Registered(RegisterCleanup(c, f), c, f)
<1>1. CASE c = <<>>
  <2>1. RegisterCleanup(c, f) = <<f>>
    BY <1>1 DEF RegisterCleanup
  <2> DEFINE r == <<f>>
  <2>2. r \in Seq(F) /\ Len(r) = 1 /\ r[1] = f /\ Len(c) = 0
    BY <1>1
  <2> HIDE DEF r
  <2>3. Registered(r, c, f)
    BY <1>1, <2>2 DEF Registered
  <2>4. QED
    BY <2>1, <2>2, <2>3 DEF r
<1>2. CASE c # <<>>
  <2> DEFINE h == <<c[1], f>>
             t == Tail(c)
             r == h \o t
  <2>1. Len(c) \in Nat /\ Len(c) >= 1 /\ c[1] \in F /\ Head(c) = c[1]
    BY <1>2
  <2>2. h \in Seq(F) /\ Len(h) = 2 /\ h[1] = c[1] /\ h[2] = f
    BY <2>1
  <2>3. t \in Seq(F) /\ Len(t) = Len(c) - 1 /\ \A i \in 1..(Len(c) - 1) : t[i] = c[i + 1]
    BY <1>2, <2>1
  <2>4. RegisterCleanup(c, f) = r
    BY <1>2, <2>1 DEF RegisterCleanup
  <2> HIDE DEF h, t
  <2>5. /\ r \in Seq(F) /\ Len(r) = Len(h) + Len(t)
        /\ \A i \in 1..(Len(h) + Len(t)) :
             r[i] = IF i <= Len(h) THEN h[i] ELSE t[i - Len(h)]
    BY <2>2, <2>3, ConcatProperties
  <2> HIDE DEF r
  <2>6. Len(h) + Len(t) = Len(c) + 1 /\ 1 \in 1..(Len(c) + 1) /\ 2 \in 1..(Len(c) + 1)
    BY <2>1, <2>2, <2>3
  <2>7. r[1] = c[1] /\ r[2] = f
    BY <2>2, <2>5, <2>6
  <2>8. ASSUME NEW i \in 3..(Len(c) + 1) PROVE r[i] = c[i - 1]
    <3>1. i \in 1..(Len(c) + 1) /\ i - 2 \in 1..(Len(c) - 1) /\ ~(i <= 2) /\ (i - 2) + 1 = i - 1
      BY <2>1
    <3>2. QED
      BY <2>2, <2>3, <2>5, <2>6, <3>1
  <2>9. QED
    BY <1>2, <2>4, <2>5, <2>6, <2>7, <2>8 DEF Registered
<1>3. QED
  BY <1>1, <1>2

(* What is run of n functions that were registered.                        *)
Runs(r, f, n) ==
  /\ Len(r) = n
  /\ n > 0 => r[1] = f[1]
  /\ \A i \in 2..n : r[i] = f[n + 2 - i]

(* An iterator runs what it was given, however many functions.             *)
LEMMA DestroyedRuns ==
  ASSUME NEW F, NEW f \in Seq(F)
  PROVE  Destroyed(f) \in Seq(F) /\ Runs(Destroyed(f), f, Len(f))
<1> DEFINE w == Len(f)
           g == [u \in Nat \X Seq(F) |->
                   IF u[1] \in 1..w THEN RegisterCleanup(u[2], f[u[1]]) ELSE u[2]]
           Is(c) == c = [n \in 0..w |->
                           IF n = 0 THEN <<>> ELSE RegisterCleanup(c[n - 1], f[n])]
<1>1. w \in Nat /\ \A n \in 1..w : f[n] \in F /\ n \in Nat /\ n \in 0..w /\ n # 0 /\ n - 1 \in 0..w
  OBVIOUS
<1> HIDE DEF w
<1>2. /\ g \in [Nat \X Seq(F) -> Seq(F)]
      /\ \A n \in 1..w, c \in Seq(F) : g[<<n, c>>] = RegisterCleanup(c, f[n])
  <2>1. ASSUME NEW u \in Nat \X Seq(F)
        PROVE  (IF u[1] \in 1..w THEN RegisterCleanup(u[2], f[u[1]]) ELSE u[2]) \in Seq(F)
    <3>1. u[2] \in Seq(F)
      OBVIOUS
    <3>2. u[1] \in 1..w => RegisterCleanup(u[2], f[u[1]]) \in Seq(F)
      BY <1>1, <3>1, RegisterProperties
    <3>3. QED
      BY <3>1, <3>2
  <2>2. ASSUME NEW n \in 1..w, NEW c \in Seq(F)
        PROVE  g[<<n, c>>] = RegisterCleanup(c, f[n])
    <3>1. <<n, c>> \in Nat \X Seq(F) /\ <<n, c>>[1] = n /\ <<n, c>>[2] = c
      BY <1>1
    <3>2. QED
      BY <3>1, Zenon
  <2>3. QED
    BY <2>1, <2>2
<1> HIDE DEF g
<1>3. PICK c \in [0..w -> Seq(F)] : Recursive(c, w, <<>>, g)
  <2>1. <<>> \in Seq(F)
    OBVIOUS
  <2>2. QED
    BY <1>1, <1>2, <2>1, Recursion
<1>4. Is(c)
  <2>1. c[0] = <<>> /\ \A n \in 1..w : c[n] = RegisterCleanup(c[n - 1], f[n])
    BY <1>1, <1>2, <1>3 DEF Recursive
  <2>2. \A n \in 0..w : n = 0 \/ n \in 1..w
    BY <1>1
  <2>3. c = [n \in 0..w |-> c[n]]
    BY <1>3
  <2>4. \A n \in 0..w : c[n] = IF n = 0 THEN <<>> ELSE RegisterCleanup(c[n - 1], f[n])
    BY <1>1, <2>1, <2>2
  <2>5. QED
    BY <2>3, <2>4
<1> DEFINE r == CHOOSE h : Is(h)
<1>5. Destroyed(f) = r[w]
  BY DEF Destroyed, w
<1>6. Is(r)
  <2> HIDE DEF Is
  <2>1. QED
    BY <1>4
<1> HIDE DEF r
<1>7. r[0] = <<>> /\ \A n \in 1..w : r[n] = RegisterCleanup(r[n - 1], f[n])
  <2>1. 0 \in 0..w
    BY <1>1
  <2>2. QED
    BY <1>1, <1>6, <2>1, Zenon
<1> DEFINE T == {n \in 0..w : r[n] \in Seq(F) /\ Runs(r[n], f, n)}
<1>8. 0 \in T /\ T \in SUBSET (0..w)
  <2>1. <<>> \in Seq(F) /\ Runs(<<>>, f, 0)
    BY DEF Runs
  <2>2. 0 \in 0..w /\ r[0] = <<>>
    BY <1>1, <1>7
  <2>3. r[0] \in Seq(F) /\ Runs(r[0], f, 0)
    BY <2>1, <2>2
  <2>4. QED
    BY <2>2, <2>3
<1>9. ASSUME NEW n \in 0..w, n \in T, n < w PROVE n + 1 \in T
  <2> DEFINE c0 == r[n]
             c1 == r[n + 1]
             new == f[n + 1]
  <2>1. n + 1 \in 1..w /\ (n + 1) - 1 = n /\ n + 1 \in 0..w /\ n \in Nat
        /\ c0 \in Seq(F) /\ Runs(c0, f, n) /\ new \in F
    BY <1>1, <1>9
  <2>2. c1 = RegisterCleanup(c0, new)
    BY <1>7, <2>1
  <2> HIDE DEF c0, c1, new, T
  <2>3. /\ c1 \in Seq(F)
        /\ Len(c1) = Len(c0) + 1
        /\ c0 = <<>> => c1[1] = new
        /\ c0 # <<>> => c1[1] = c0[1] /\ c1[2] = new
        /\ \A i \in 3..Len(c1) : c1[i] = c0[i - 1]
    <3>1. c1 \in Seq(F) /\ Registered(c1, c0, new)
      BY <2>1, <2>2, RegisterProperties
    <3>2. QED
      BY <3>1 DEF Registered
  <2>4. Len(c0) = n /\ (c0 = <<>> <=> n = 0)
    BY <2>1 DEF Runs
  <2>5. c1[1] = f[1]
    <3>1. CASE n = 0
      BY <2>3, <2>4, <3>1 DEF new
    <3>2. CASE n # 0
      BY <2>1, <2>3, <2>4, <3>2 DEF Runs
    <3>3. QED
      BY <3>1, <3>2
  <2>6. ASSUME NEW i \in 2..(n + 1) PROVE c1[i] = f[(n + 1) + 2 - i]
    <3>1. CASE i = 2
      <4>1. c0 # <<>> /\ (n + 1) + 2 - i = n + 1
        BY <2>1, <2>4, <3>1
      <4>2. QED
        BY <2>3, <3>1, <4>1 DEF new
    <3>2. CASE i # 2
      <4>1. i \in 3..(n + 1) /\ i - 1 \in 2..n /\ n + 2 - (i - 1) = (n + 1) + 2 - i
        BY <2>1, <3>2
      <4>2. c1[i] = c0[i - 1]
        BY <2>1, <2>3, <2>4, <4>1
      <4>3. c0[i - 1] = f[n + 2 - (i - 1)]
        BY <2>1, <4>1 DEF Runs
      <4>4. QED
        BY <4>1, <4>2, <4>3
    <3>3. QED
      BY <3>1, <3>2
  <2>7. Runs(c1, f, n + 1)
    BY <2>1, <2>3, <2>4, <2>5, <2>6 DEF Runs
  <2>8. QED
    BY <2>1, <2>3, <2>7 DEF T, c1
<1> HIDE DEF T
<1>10. T = 0..w
  BY <1>1, <1>8, <1>9, UpTo
<1>11. r[w] \in Seq(F) /\ Runs(r[w], f, w)
  <2>1. w \in T
    BY <1>1, <1>10
  <2>2. QED
    BY <2>1 DEF T
<1>12. QED
  BY <1>5, <1>11 DEF w

(* An iterator runs its cleanup functions once each.                       *)
THEOREM CleanupsAlwaysRunOnce == InputSpec => []CleanupsRunOnce
<1>1. ASSUME NEW f \in Seq(Functions) PROVE RunsEach(f)
  <2> DEFINE r == Destroyed(f)
             e == [i \in 1..Len(f) |-> IF i = 1 THEN f[1] ELSE f[Len(f) + 2 - i]]
  <2>1. r \in Seq(Functions) /\ Runs(r, f, Len(f))
    BY DestroyedRuns
  <2> HIDE DEF r
  <2>2. Len(f) \in Nat /\ Len(r) = Len(f)
    BY <2>1 DEF Runs
  <2>3. r = [i \in 1..Len(f) |-> r[i]]
    BY <2>1, <2>2
  <2>4. \A i \in 1..Len(f) : r[i] = IF i = 1 THEN f[1] ELSE f[Len(f) + 2 - i]
    BY <2>1, <2>2 DEF Runs
  <2>5. r = e
    BY <2>3, <2>4
  <2>6. QED
    BY <2>5 DEF RunsEach, r
<1>2. InputOK => CleanupsRunOnce
  BY <1>1 DEF InputOK, CleanupsRunOnce
<1>3. QED
  BY <1>2, InputsOK, PTL

-----------------------------------------------------------------------------
(* An internal key is put together from what it parses to.                 *)
LEMMA TagProperties ==
  ASSUME NEW k \in InternalKey
  PROVE  /\ Tag(k) \in Nat
         /\ ExtractUserKey(k) \o EncodeFixed64(Tag(k)) = k
<1> DEFINE n == Len(k) - TagBytes
           t == SubSeq(k, n + 1, Len(k))
<1>1. k \in Seq(Byte) /\ Len(k) \in Nat /\ TagBytes \in Nat /\ n \in Nat /\ n <= Len(k)
  BY TagBytesAssumption DEF InternalKey, Slice
<1> HIDE DEF n
<1>2. t \in Seq(Byte) /\ Len(t) = Len(k) - n
  BY <1>1
<1>3. Len(t) = TagBytes
  BY <1>1, <1>2 DEF n
<1>4. SubSeq(k, 1, n) \o t = k
  <2>1. \A i \in 1..n : k[i] = k[i]
    OBVIOUS
  <2>2. QED
    BY <1>1, <2>1, Rebuild
<1> HIDE DEF t
<1>5. Number(t, Base) \in Nat /\ Digits(Number(t, Base), Base, TagBytes) = t
  <2>1. t \in Seq(0..(Base - 1)) /\ Base \in Nat \ {0}
    BY <1>2, BaseAssumption DEF Byte
  <2>2. QED
    BY <1>3, <2>1, DigitsOfNumber
<1>6. Tag(k) = Number(t, Base)
  BY DEF Tag, DecodeFixed64, t, n
<1>7. ExtractUserKey(k) = SubSeq(k, 1, n)
  BY DEF ExtractUserKey, n
<1>8. QED
  BY <1>4, <1>5, <1>6, <1>7 DEF EncodeFixed64

(* A sequence number and a type are packed so that they are compared one   *)
(* after the other.                                                        *)
LEMMA PackedOrder ==
  ASSUME NEW x \in Nat, NEW y \in Nat
  PROVE  /\ PackSequenceAndType(x \div Base, x % Base) = x
         /\ x > y <=> \/ x \div Base > y \div Base
                      \/ x \div Base = y \div Base /\ (x % Base) > (y % Base)
<1> DEFINE q == x \div Base
           r == x % Base
           s == y \div Base
           t == y % Base
<1>1. Base \in Nat \ {0}
  BY BaseAssumption
<1>2. q \in Nat /\ r \in 0..(Base - 1) /\ x = Base * q + r
  BY <1>1, Division
<1>3. s \in Nat /\ t \in 0..(Base - 1) /\ y = Base * s + t
  BY <1>1, Division
<1> HIDE DEF q, r, s, t
<1>4. q * Base + r = x
  BY <1>1, <1>2
<1>5. ASSUME NEW m \in Nat, NEW n \in Nat, m > n PROVE Base * m >= Base * n + Base
  <2>1. Base * m >= Base * (n + 1)
    BY <1>1, <1>5
  <2>2. QED
    BY <1>1, <2>1
<1>6. Base * q \in Nat /\ Base * s \in Nat
  BY <1>1, <1>2, <1>3
<1>7. q > s => x > y
  BY <1>1, <1>2, <1>3, <1>5, <1>6
<1>8. s > q => y > x
  BY <1>1, <1>2, <1>3, <1>5, <1>6
<1>9. q = s => (x > y <=> r > t)
  BY <1>1, <1>2, <1>3, <1>6
<1>10. x > y <=> q > s \/ (q = s /\ r > t)
  BY <1>2, <1>3, <1>7, <1>8, <1>9
<1>11. QED
  BY <1>4, <1>10 DEF q, r, s, t, PackSequenceAndType

(* Internal keys are ordered by what they parse to, for all keys.          *)
THEOREM InternalKeysAlwaysOrdered == InputSpec => []InternalKeysOrdered
<1>1. ASSUME NEW a \in InternalKey, NEW b \in InternalKey PROVE Ordered(a, b)
  <2> DEFINE u == ExtractUserKey(a)
             v == ExtractUserKey(b)
             x == Tag(a)
             y == Tag(b)
  <2>1. u \in Slice /\ v \in Slice /\ x \in Nat /\ y \in Nat
    BY UserKeyProperties, TagProperties
  <2>2. u \o EncodeFixed64(x) = a /\ v \o EncodeFixed64(y) = b
    BY TagProperties
  <2>3. InternalCompare(a, b) = IF Compare(u, v) # 0 THEN Compare(u, v) ELSE y - x
    BY DEF InternalCompare
  <2>4. ParseInternalKey(a) = [user_key |-> u, sequence |-> x \div Base, type |-> x % Base]
        /\ ParseInternalKey(b) = [user_key |-> v, sequence |-> y \div Base, type |-> y % Base]
    BY DEF ParseInternalKey
  <2> HIDE DEF u, v, x, y
  <2>5. Compare(u, v) \in Int /\ (Compare(u, v) = 0 <=> u = v)
    BY <2>1, CompareInt, CompareEqual
  <2>6. /\ PackSequenceAndType(x \div Base, x % Base) = x
        /\ x > y <=> \/ x \div Base > y \div Base
                     \/ x \div Base = y \div Base /\ (x % Base) > (y % Base)
    BY <2>1, PackedOrder
  <2>7. InternalCompare(a, b) < 0 <=>
          \/ Compare(u, v) < 0
          \/ u = v /\ x > y
    BY <2>1, <2>3, <2>5
  <2>8. InternalCompare(a, b) = 0 <=> a = b
    <3>1. InternalCompare(a, b) = 0 <=> u = v /\ x = y
      BY <2>1, <2>3, <2>5
    <3>2. a = b <=> u = v /\ x = y
      BY <2>2 DEF u, v, x, y
    <3>3. QED
      BY <3>1, <3>2
  <2>9. AppendInternalKey(ParseInternalKey(a)) = a
    BY <2>2, <2>4, <2>6 DEF AppendInternalKey
  <2>10. QED
    BY <2>4, <2>6, <2>7, <2>8, <2>9 DEF Ordered
<1>2. InputOK => InternalKeysOrdered
  BY <1>1 DEF InputOK, InternalKeysOrdered
<1>3. QED
  BY <1>2, InputsOK, PTL

-----------------------------------------------------------------------------
(* What CodingAssumption says of each constant.                            *)
LEMMA CodingConstants ==
  /\ Radix \in Nat \ {0} /\ More \in Nat \ {0} /\ More <= Modulus
  /\ Groups \in Nat \ {0} /\ Groups64 \in Nat \ {0} /\ WordBytes \in Nat \ {0}
  /\ Modulus \in Nat \ {0} /\ Modulus64 \in Nat \ {0}
BY CodingAssumption DEF More

(* The word that is read is the one that is there.                         *)
LEMMA WordRead ==
  ASSUME NEW s \in Seq(Octets), NEW p \in Nat \ {0}, p + WordBytes - 1 <= Len(s)
  PROVE  /\ DecodeFixed32(s, p) \in Nat
         /\ Word(DecodeFixed32(s, p)) = SubSeq(s, p, p + WordBytes - 1)
<1> DEFINE t == SubSeq(s, p, p + WordBytes - 1)
<1>1. WordBytes \in Nat \ {0} /\ Radix \in Nat \ {0}
  BY CodingConstants
<1>2. t \in Seq(Octets) /\ Len(t) = WordBytes
  <2>1. p + WordBytes - 1 \in Nat /\ Len(s) \in Nat
    BY <1>1
  <2>2. \A i \in p..(p + WordBytes - 1) : s[i] \in Octets
    BY <1>1, <2>1
  <2>3. t \in Seq(Octets)
    BY <2>1, <2>2
  <2>4. Len(t) = (p + WordBytes - 1) - p + 1
    BY <1>1, <2>1
  <2>5. QED
    BY <1>1, <2>3, <2>4
<1> HIDE DEF t
<1>3. Number(t, Radix) \in Nat /\ Digits(Number(t, Radix), Radix, Len(t)) = t
  BY <1>1, <1>2, DigitsOfNumber DEF Octets
<1>4. QED
  BY <1>2, <1>3 DEF DecodeFixed32, Word, t

(* A word holds every number below Modulus.                                *)
LEMMA WordValue ==
  ASSUME NEW n \in Nat, n < Modulus
  PROVE  Number(Word(n), Radix) = n
<1> DEFINE top == Powers(Radix, WordBytes)[WordBytes]
<1>1. WordBytes \in Nat /\ Radix \in Nat \ {0} /\ Modulus \in Nat /\ Modulus <= top
  BY CodingConstants, CodingAssumption
<1>2. top \in Nat
  BY <1>1, PowersPositive
<1> HIDE DEF top
<1>3. n < top
  BY <1>1, <1>2
<1>4. QED
  BY <1>1, <1>3, NumberOfDigits DEF Word, top

(* A quotient bounds what its product does.                                *)
LEMMA AtMostQuotient ==
  ASSUME NEW x \in Nat, NEW y \in Nat \ {0}, NEW n \in Nat
  PROVE  n <= x \div y <=> n * y <= x
<1> DEFINE q == x \div y
           r == x % y
<1>1. q \in Nat /\ r \in 0..(y - 1) /\ x = y * q + r
  BY Division
<1> HIDE DEF q, r
<1>2. n <= q => n * y <= x
  <2>1. n <= q => n * y <= q * y
    BY <1>1
  <2>2. n * y \in Nat /\ q * y \in Nat /\ q * y = y * q
    BY <1>1
  <2>3. QED
    BY <1>1, <2>1, <2>2
<1>3. n > q => n * y > x
  <2>1. n > q => n * y >= (q + 1) * y
    BY <1>1
  <2>2. n * y \in Nat /\ (q + 1) * y = y * q + y /\ y * q \in Nat
    BY <1>1
  <2>3. QED
    BY <1>1, <2>1, <2>2
<1>4. n * y \in Nat
  OBVIOUS
<1>5. QED
  BY <1>1, <1>2, <1>3, <1>4 DEF q

(* The restart array is found where it is, for contents of any length.     *)
LEMMA RestartsProperties ==
  ASSUME NEW s \in Seq(Octets), Len(s) < Modulus
  PROVE  RestartsDecode(s)
<1> DEFINE w == WordBytes
           l == Len(s)
           last == SubSeq(s, l - w + 1, l)
           num == NumRestarts(s)
           counts == {n \in 0..(l \div w) : (n + 1) * w <= l /\ last = Word(n)}
           first(n, index) == l - (n + 1 - index) * w + 1
<1>1. w \in Nat \ {0} /\ l \in Nat /\ Modulus \in Nat /\ l < Modulus
  BY CodingConstants
<1> HIDE DEF w, l
<1>2. ASSUME NEW n \in Nat, (n + 1) * w <= l
      PROVE  n \in 0..(l \div w) /\ n <= l /\ w <= l
  <2>1. (n + 1) * w = n * w + w /\ n * w \in Nat /\ n <= n * w
    BY <1>1
  <2>2. n * w <= l /\ n <= l /\ w <= l
    BY <1>1, <1>2, <2>1
  <2>3. QED
    BY <1>1, <2>2, AtMostQuotient
<1>3. CASE l < w
  <2>1. Size(s) = 0
    BY <1>3 DEF Size, w, l
  <2>2. counts = {}
    <3> SUFFICES ASSUME NEW n \in counts PROVE FALSE
      OBVIOUS
    <3>1. n \in Nat /\ (n + 1) * w <= l
      OBVIOUS
    <3>2. w <= l
      BY <1>2, <3>1
    <3>3. QED
      BY <1>1, <1>3, <3>2
  <2>3. QED
    BY <2>1, <2>2 DEF RestartsDecode, l, w
<1>4. CASE ~(l < w)
  <2>1. num \in Nat /\ Word(num) = last
    <3>1. l - w + 1 \in Nat \ {0} /\ (l - w + 1) + w - 1 = l /\ l <= l
      BY <1>1, <1>4
    <3>2. QED
      BY <3>1, WordRead DEF NumRestarts, w, l
  <2>2. \A n \in counts : n = num
    <3>1. ASSUME NEW n \in counts PROVE n = num
      <4>1. n \in Nat /\ (n + 1) * w <= l /\ last = Word(n)
        BY <3>1
      <4> HIDE DEF last, num, counts
      <4>2. n < Modulus
        BY <1>1, <1>2, <4>1
      <4>3. Number(last, Radix) = n
        BY <4>1, <4>2, WordValue
      <4>4. num = Number(last, Radix)
        <5>1. (l - w + 1) + w - 1 = l
          BY <1>1
        <5>2. num = Number(SubSeq(s, l - w + 1, (l - w + 1) + w - 1), Radix)
          BY DEF num, NumRestarts, DecodeFixed32, l, w
        <5>3. QED
          BY <5>1, <5>2 DEF last
      <4>5. QED
        BY <4>3, <4>4
    <3>2. QED
      BY <3>1
  <2>3. num <= MaxNumRestart(s) <=> (num + 1) * w <= l
    <3>1. num <= (l - w) \div w <=> num * w <= l - w
      BY <1>1, <1>4, <2>1, AtMostQuotient
    <3>2. (num + 1) * w = num * w + w /\ num * w \in Nat
      BY <1>1, <2>1
    <3>3. QED
      BY <1>1, <1>4, <3>1, <3>2 DEF MaxNumRestart, l, w
  <2>4. (num + 1) * w <= l => num \in counts
    BY <1>2, <2>1
  <2>5. Size(s) = IF counts = {} THEN 0 ELSE l
    <3>1. MaxNumRestart(s) \in Nat
      BY <1>1, <1>4 DEF MaxNumRestart, l, w
    <3>2. Size(s) = IF num > MaxNumRestart(s) THEN 0 ELSE l
      BY <1>4 DEF Size, l, w
    <3>3. CASE num <= MaxNumRestart(s)
      <4>1. num \in counts
        BY <2>3, <2>4, <3>3
      <4> HIDE DEF counts, num
      <4>2. counts # {} /\ ~(num > MaxNumRestart(s))
        BY <2>1, <3>1, <3>3, <4>1
      <4>3. QED
        BY <3>2, <4>2
    <3>4. CASE ~(num <= MaxNumRestart(s))
      <4>1. counts = {}
        BY <2>2, <2>3, <3>4
      <4>2. QED
        BY <2>1, <3>1, <3>2, <3>4, <4>1
    <3>5. QED
      BY <3>3, <3>4
  <2>6. ASSUME NEW n \in counts, NEW index \in 0..(n - 1)
        PROVE  Word(GetRestartPoint(s, index)) =
                 SubSeq(s, first(n, index), first(n, index) + w - 1)
    <3> DEFINE m == n + 1 - index
    <3>0. n = num
      <4> HIDE DEF counts, num
      <4>1. QED
        BY <2>2
    <3>1. n \in Nat /\ (n + 1) * w <= l /\ index \in 0..(n - 1)
      OBVIOUS
    <3> HIDE DEF num, counts, first
    <3>2. m \in Nat /\ m >= 1 /\ m <= n + 1 /\ n + 1 = m + index
      BY <3>1
    <3> HIDE DEF m
    <3> DEFINE a == m * w
               b == index * w
               c == (n + 1) * w
    <3>3. c = a + b /\ (1 + n) * w = c /\ c <= l
      BY <1>1, <3>1, <3>2
    <3>4. a \in Nat /\ b \in Nat /\ w <= a
      BY <1>1, <3>1, <3>2
    <3>5. RestartOffset(s) = l - c /\ GetRestartPoint(s, index) = DecodeFixed32(s, RestartOffset(s) + b + 1)
      BY <3>0, <3>3 DEF RestartOffset, GetRestartPoint, l, w, num
    <3> HIDE DEF a, b, c
    <3>6. RestartOffset(s) + b + 1 = l - a + 1
      BY <1>1, <3>3, <3>4, <3>5
    <3>7. l - a + 1 \in Nat \ {0} /\ (l - a + 1) + w - 1 <= l
      BY <1>1, <3>3, <3>4
    <3>8. Word(DecodeFixed32(s, l - a + 1)) = SubSeq(s, l - a + 1, (l - a + 1) + w - 1)
      BY <3>7, WordRead DEF w, l
    <3>9. QED
      BY <3>5, <3>6, <3>8 DEF first, a, m
  <2>7. RestartsDecode(s) <=>
          /\ Size(s) = IF counts = {} THEN 0 ELSE l
          /\ \A n \in counts :
               /\ num = n
               /\ \A index \in 0..(n - 1) :
                    Word(GetRestartPoint(s, index)) =
                      SubSeq(s, first(n, index), first(n, index) + w - 1)
    BY DEF RestartsDecode, w, l
  <2> HIDE DEF counts, num, first
  <2>8. QED
    BY <2>2, <2>5, <2>6, <2>7
<1>5. QED
  BY <1>3, <1>4

(* Block's constructor accepts just what ends with a restart array.        *)
THEOREM RestartsAlwaysDecoded == InputSpec => []RestartsDecoded
<1>1. InputOK => RestartsDecoded
  BY RestartsProperties DEF InputOK, RestartsDecoded
<1>2. QED
  BY <1>1, InputsOK, PTL

-----------------------------------------------------------------------------
(* m bytes from p on are there and say that more follow.                   *)
Going(s, p, m) == \A j \in 0..(m - 1) : p + j <= Len(s) /\ s[p + j] >= More

(* The number in n bytes from p on.                                        *)
Payload(s, p, n) == [i \in 1..n |-> s[p + i - 1] % More]
Value(s, p, n)   == Number(Payload(s, p, n), More)

(* A byte more adds its payload, shifted by what came before it.           *)
LEMMA ValueNext ==
  ASSUME NEW s \in Seq(Octets), NEW p \in Nat \ {0}, NEW groups \in Nat, NEW n \in Nat,
         n < groups, p + n <= Len(s)
  PROVE  /\ Value(s, p, n) \in Nat /\ Value(s, p, n + 1) \in Nat
         /\ s[p + n] \in Octets /\ (s[p + n] % More) * Powers(More, groups)[n] \in Nat
         /\ Value(s, p, n + 1) = Value(s, p, n) + (s[p + n] % More) * Powers(More, groups)[n]
<1> DEFINE d == Payload(s, p, n)
           e == Payload(s, p, n + 1)
           power == Powers(More, groups)[n]
           byte == s[p + n]
<1>1. More \in Nat \ {0} /\ Radix \in Nat \ {0} /\ Len(s) \in Nat
  BY CodingConstants
<1>2. \A i \in 0..n : s[p + i] \in Octets /\ (s[p + i] % More) \in Nat
  <2>1. ASSUME NEW i \in 0..n PROVE s[p + i] \in Octets
    <3>1. p + i \in 1..Len(s)
      BY <1>1
    <3>2. QED
      BY <3>1
  <2>2. \A x \in Octets : (x % More) \in Nat
    BY <1>1 DEF Octets
  <2>3. QED
    BY <2>1, <2>2
<1>3. ASSUME NEW m \in 0..(n + 1)
      PROVE  /\ Payload(s, p, m) \in Seq(Nat) /\ Len(Payload(s, p, m)) = m
             /\ \A i \in 1..m : Payload(s, p, m)[i] = (s[p + i - 1] % More)
  <2>1. \A i \in 1..m : i - 1 \in 0..n /\ p + (i - 1) = p + i - 1
    OBVIOUS
  <2>2. \A i \in 1..m : (s[p + i - 1] % More) \in Nat
    BY <1>2, <2>1
  <2>3. Payload(s, p, m) = [i \in 1..m |-> s[p + i - 1] % More]
    BY DEF Payload
  <2> DEFINE t == Payload(s, p, m)
  <2> HIDE DEF t
  <2>4. t \in [1..m -> Nat] /\ \A i \in 1..m : t[i] = (s[p + i - 1] % More)
    BY <2>2, <2>3 DEF t
  <2>5. m \in Nat
    OBVIOUS
  <2>6. t \in Seq(Nat) /\ Len(t) = m
    BY <2>4, <2>5
  <2>7. QED
    BY <2>4, <2>6 DEF t
<1>4. d \in Seq(Nat) /\ Len(d) = n /\ \A i \in 1..n : d[i] = (s[p + i - 1] % More)
  <2>1. n \in 0..(n + 1)
    OBVIOUS
  <2>2. QED
    BY <1>3, <2>1
<1>5. e \in Seq(Nat) /\ Len(e) = n + 1 /\ \A i \in 1..(n + 1) : e[i] = (s[p + i - 1] % More)
  <2>1. n + 1 \in 0..(n + 1)
    OBVIOUS
  <2>2. QED
    BY <1>3, <2>1
<1> HIDE DEF d, e
<1>6. \A i \in 0..n : Sums(d, More)[i] = Sums(e, More)[i]
  <2>1. n <= n + 1 /\ \A i \in 1..n : d[i] = e[i]
    BY <1>4, <1>5
  <2>2. /\ More \in Nat /\ d \in Seq(Nat) /\ e \in Seq(Nat) /\ Len(d) <= Len(e)
        /\ \A i \in 1..Len(d) : d[i] = e[i]
    BY <1>1, <1>4, <1>5, <2>1
  <2>3. \A i \in 0..Len(d) : Sums(d, More)[i] = Sums(e, More)[i]
    BY <2>2, SumsSame
  <2>4. QED
    BY <1>4, <2>3
<1>7. Sums(e, More)[n + 1] = Sums(e, More)[n] + e[n + 1] * Powers(More, n + 1)[n]
  <2>1. n + 1 \in 1..Len(e) /\ (n + 1) - 1 = n
    BY <1>5
  <2>2. QED
    BY <1>1, <1>5, <2>1, SumsDef
<1>8. Powers(More, n + 1)[n] = power
  <2>1. n + 1 \in 0..groups /\ n \in 0..(n + 1)
    OBVIOUS
  <2>2. QED
    BY <1>1, <2>1, PowersSame
<1>9. e[n + 1] = (byte % More) /\ byte \in Octets /\ (byte % More) \in Nat
  <2>1. n + 1 \in 1..(n + 1) /\ p + (n + 1) - 1 = p + n /\ n \in 0..n
    OBVIOUS
  <2>2. e[n + 1] = (s[p + n] % More)
    BY <1>5, <2>1
  <2>3. QED
    BY <1>2, <2>1, <2>2
<1>10. /\ Sums(d, More)[n] \in Nat /\ Sums(e, More)[n + 1] \in Nat
       /\ Sums(d, More)[n] = Sums(e, More)[n]
  <2>1. Sums(d, More) \in [0..n -> Nat] /\ Sums(e, More) \in [0..(n + 1) -> Nat]
    BY <1>1, <1>4, <1>5, SumsDef
  <2>2. n \in 0..n /\ n + 1 \in 0..(n + 1)
    OBVIOUS
  <2>3. QED
    BY <1>6, <2>1, <2>2
<1>11. Value(s, p, n) = Sums(d, More)[n] /\ Value(s, p, n + 1) = Sums(e, More)[n + 1]
  BY <1>4, <1>5 DEF Value, Number, d, e
<1>12. (byte % More) * power \in Nat
  <2>1. n \in 0..groups
    OBVIOUS
  <2>2. power \in Nat
    BY <1>1, <2>1, PowersDef
  <2>3. QED
    BY <1>9, <2>2
<1>13. QED
  BY <1>7, <1>8, <1>9, <1>10, <1>11, <1>12

(* No byte has been read yet.                                              *)
LEMMA ValueNone ==
  ASSUME NEW s \in Seq(Octets), NEW p \in Nat \ {0}
  PROVE  Value(s, p, 0) = 0
<1> DEFINE d == Payload(s, p, 0)
<1>1. d = <<>>
  BY DEF Payload
<1> HIDE DEF d
<1>2. d \in Seq(Nat) /\ Len(d) = 0
  BY <1>1
<1>3. QED
  BY <1>2, SumsDef, CodingConstants DEF Value, Number, d

(* A number ends with the first byte that says so.                         *)
LEMMA VarintEnd ==
  ASSUME NEW s \in Seq(Octets), NEW p \in Nat \ {0}, NEW groups \in Nat \ {0},
         NEW modulus \in Nat \ {0}, NEW m \in 0..(groups - 1),
         Going(s, p, m), p + m <= Len(s), s[p + m] < More
  PROVE  Varint(s, p, groups, modulus) =
           [next |-> p + m + 1, value |-> Value(s, p, m + 1) % modulus]
<1> DEFINE ends == {i \in 0..(groups - 1) : p + i <= Len(s) /\ s[p + i] < More}
           P(i) == \A j \in ends : i <= j
           last == CHOOSE i \in ends : P(i)
<1>1. m \in ends
  OBVIOUS
<1>2. P(m)
  <2> SUFFICES ASSUME NEW j \in ends, j < m PROVE FALSE
    OBVIOUS
  <2>1. j \in 0..(m - 1) /\ p + j <= Len(s) /\ s[p + j] < More
    OBVIOUS
  <2>2. s[p + j] >= More /\ p + j \in 1..Len(s)
    BY <2>1 DEF Going
  <2>3. s[p + j] \in Int /\ More \in Int
    BY <2>2, CodingConstants DEF Octets
  <2>4. QED
    BY <2>1, <2>2, <2>3
<1>3. \A i, j \in ends : i \in Int /\ j \in Int
  OBVIOUS
<1>4. last \in ends /\ P(last)
  <2> HIDE DEF P, ends
  <2>1. QED
    BY <1>1, <1>2
<1>5. last = m
  <2> HIDE DEF ends, last
  <2>1. last <= m /\ m <= last /\ last \in Int /\ m \in Int
    BY <1>1, <1>2, <1>3, <1>4
  <2>2. QED
    BY <2>1
<1>6. Varint(s, p, groups, modulus) =
        IF ends = {} THEN NULL
        ELSE [next  |-> p + last + 1, value |-> Value(s, p, last + 1) % modulus]
  BY DEF Varint, Value, Payload
<1> HIDE DEF ends, last
<1>7. QED
  BY <1>1, <1>5, <1>6

(* Bytes that all say that more follow are no number.                      *)
LEMMA VarintNone ==
  ASSUME NEW s \in Seq(Octets), NEW p \in Nat \ {0}, NEW groups \in Nat \ {0},
         NEW modulus \in Nat \ {0}, NEW m \in 0..groups,
         Going(s, p, m), m = groups \/ p + m > Len(s)
  PROVE  Varint(s, p, groups, modulus) = NULL
<1> DEFINE ends == {i \in 0..(groups - 1) : p + i <= Len(s) /\ s[p + i] < More}
<1>1. ASSUME NEW i \in ends PROVE FALSE
  <2>1. i \in 0..(groups - 1) /\ p + i <= Len(s) /\ s[p + i] < More /\ Len(s) \in Nat
    OBVIOUS
  <2>2. i \in 0..(m - 1) /\ p + i \in 1..Len(s)
    BY <2>1
  <2>3. s[p + i] >= More
    BY <2>2 DEF Going
  <2>4. s[p + i] \in Int /\ More \in Int
    BY <2>2, CodingConstants DEF Octets
  <2>5. QED
    BY <2>1, <2>3, <2>4
<1>2. Varint(s, p, groups, modulus) = IF ends = {} THEN NULL ELSE Varint(s, p, groups, modulus)
  BY DEF Varint
<1> HIDE DEF ends
<1>3. ends = {}
  BY <1>1
<1>4. QED
  BY <1>2, <1>3

(* Bytes go on until one does not, or there are no more.                   *)
LEMMA GoesOn ==
  ASSUME NEW s \in Seq(Octets), NEW p \in Nat \ {0}, NEW groups \in Nat \ {0}
  PROVE  \E m \in 0..groups :
           /\ Going(s, p, m)
           /\ \/ m = groups
              \/ p + m > Len(s)
              \/ m < groups /\ p + m <= Len(s) /\ s[p + m] < More
<1> DEFINE Stops(m) == \/ m = groups
                       \/ p + m > Len(s)
                       \/ s[p + m] < More
           T == {m \in 0..groups : Stops(m)}
<1>1. T \in SUBSET Nat /\ T # {}
  <2>1. groups \in 0..groups /\ Stops(groups)
    OBVIOUS
  <2>2. groups \in T
    BY <2>1
  <2> HIDE DEF Stops
  <2>3. QED
    BY <2>2
<1>2. PICK m \in T : \A j \in T : m <= j
  <2> HIDE DEF T
  <2>1. QED
    BY <1>1, Least
<1>3. m \in 0..groups /\ Stops(m) /\ Len(s) \in Nat
  OBVIOUS
<1>4. ASSUME NEW j \in 0..(m - 1) PROVE p + j <= Len(s) /\ s[p + j] >= More
  <2>1. j \in 0..groups /\ ~(m <= j) /\ j # groups
    BY <1>3
  <2>2. j \notin T
    <3> HIDE DEF T
    <3>1. QED
      BY <1>2, <2>1
  <2>3. ~Stops(j)
    BY <2>1, <2>2
  <2>4. p + j \in 1..Len(s)
    BY <1>3, <2>1, <2>3
  <2>5. s[p + j] \in Int /\ More \in Int
    BY <2>4, CodingConstants DEF Octets
  <2>6. QED
    BY <1>3, <2>3, <2>4, <2>5
<1>5. Going(s, p, m)
  BY <1>4 DEF Going
<1>6. QED
  BY <1>3, <1>5

(* What the loop knows after n turns: it goes on behind bytes that say so, *)
(* unless there are no more, or it has ended with the first other one.     *)
Turned(t, s, p, groups, modulus, n) ==
  \E m \in 0..n :
    /\ Going(s, p, m)
    /\ \/ /\ t = [next |-> p + m, value |-> Value(s, p, m) % modulus, more |-> TRUE]
          /\ m = n \/ p + m > Len(s)
       \/ /\ t = [next |-> p + m + 1, value |-> Value(s, p, m + 1) % modulus, more |-> FALSE]
          /\ m < n /\ p + m <= Len(s) /\ s[p + m] < More

Turn(t, s, groups, modulus, n) ==
  IF ~t.more \/ t.next > Len(s) THEN t
  ELSE [next  |-> t.next + 1,
        value |-> (t.value + (s[t.next] % More) * Powers(More, groups)[n - 1]) % modulus,
        more  |-> s[t.next] >= More]

(* A sum may be reduced at any time.                                       *)
LEMMA AddModulo ==
  ASSUME NEW x \in Nat, NEW y \in Nat, NEW m \in Nat \ {0}
  PROVE  ((x % m) + y) % m = (x + y) % m
<1> DEFINE q == x \div m
           r == x % m
           c == (r + y) \div m
           d == (r + y) % m
<1>1. q \in Nat /\ r \in 0..(m - 1) /\ x = m * q + r
  BY Division
<1> HIDE DEF q, r
<1>2. r + y \in Nat
  BY <1>1
<1>3. c \in Nat /\ d \in 0..(m - 1) /\ r + y = m * c + d
  BY <1>2, Division
<1> HIDE DEF c, d
<1> DEFINE z == x + y
           k == q + c
<1>4. z \in Nat /\ k \in Nat /\ z = m * k + d
  BY <1>1, <1>3
<1> HIDE DEF z, k
<1>5. (z % m) = d
  BY <1>3, <1>4
<1>6. QED
  BY <1>5 DEF d, r, z

(* The loop invariant is kept by a turn.                                   *)
LEMMA TurnTurned ==
  ASSUME NEW s \in Seq(Octets), NEW p \in Nat \ {0}, NEW groups \in Nat \ {0},
         NEW modulus \in Nat \ {0}, NEW n \in 1..groups, NEW t,
         Turned(t, s, p, groups, modulus, n - 1)
  PROVE  Turned(Turn(t, s, groups, modulus, n), s, p, groups, modulus, n)
<1>1. PICK m \in 0..(n - 1) :
        /\ Going(s, p, m)
        /\ \/ /\ t = [next |-> p + m, value |-> Value(s, p, m) % modulus, more |-> TRUE]
              /\ m = n - 1 \/ p + m > Len(s)
           \/ /\ t = [next |-> p + m + 1, value |-> Value(s, p, m + 1) % modulus,
                      more |-> FALSE]
              /\ m < n - 1 /\ p + m <= Len(s) /\ s[p + m] < More
  BY DEF Turned
<1>2. m \in Nat /\ m \in 0..n /\ n \in Nat /\ Len(s) \in Nat /\ m < groups
  OBVIOUS
<1>3. CASE t.more = FALSE
  <2>1. Turn(t, s, groups, modulus, n) = t
    BY <1>3 DEF Turn
  <2>2. /\ t = [next |-> p + m + 1, value |-> Value(s, p, m + 1) % modulus, more |-> FALSE]
        /\ m < n /\ p + m <= Len(s) /\ s[p + m] < More
    BY <1>1, <1>2, <1>3
  <2>3. QED
    BY <1>1, <1>2, <2>1, <2>2 DEF Turned
<1>4. CASE t.more = TRUE
  <2>1. /\ t = [next |-> p + m, value |-> Value(s, p, m) % modulus, more |-> TRUE]
        /\ m = n - 1 \/ p + m > Len(s)
    BY <1>1, <1>4
  <2>2. CASE p + m > Len(s)
    <3>1. Turn(t, s, groups, modulus, n) = t
      BY <2>1, <2>2 DEF Turn
    <3>2. QED
      BY <1>1, <1>2, <2>1, <2>2, <3>1 DEF Turned
  <2>3. CASE ~(p + m > Len(s))
    <3> DEFINE byte == s[p + m]
               x == Value(s, p, m)
               y == (byte % More) * Powers(More, groups)[m]
               v == ((x % modulus) + y) % modulus
               goes == byte >= More
    <3>1. m = n - 1 /\ p + m <= Len(s) /\ m + 1 = n
      BY <1>2, <2>1, <2>3
    <3>2. /\ x \in Nat /\ byte \in Octets /\ y \in Nat
          /\ Value(s, p, m + 1) = x + y
      BY <1>2, <3>1, ValueNext
    <3>3. Turn(t, s, groups, modulus, n) =
            [next |-> p + m + 1, value |-> v, more |-> goes]
      BY <2>1, <2>3, <3>1 DEF Turn
    <3> HIDE DEF x, y
    <3>4. v = (x + y) % modulus
      BY <3>2, AddModulo
    <3> DEFINE v1 == Value(s, p, m + 1) % modulus
    <3>5. v = v1
      BY <3>2, <3>4, Zenon
    <3>6. byte \in Int /\ More \in Int /\ (byte >= More <=> goes)
      BY <3>2, CodingConstants DEF Octets
    <3> HIDE DEF v, v1, goes
    <3>7. CASE byte >= More
      <4>1. p + m + 1 = p + n
        BY <1>2, <3>1
      <4>2. goes = TRUE
        BY <3>6, <3>7
      <4>3. Turn(t, s, groups, modulus, n) = [next |-> p + n, value |-> v1, more |-> TRUE]
        BY <3>3, <3>5, <4>1, <4>2, Zenon
      <4>4. v1 = Value(s, p, n) % modulus
        BY <3>1, Zenon DEF v1
      <4>5. Going(s, p, n)
        <5>1. ASSUME NEW j \in 0..(n - 1) PROVE p + j <= Len(s) /\ s[p + j] >= More
          <6>1. j \in 0..(m - 1) \/ j = m
            BY <1>2, <3>1
          <6>2. QED
            BY <1>1, <3>1, <3>7, <6>1 DEF Going
        <5>2. QED
          BY <5>1 DEF Going
      <4>6. n \in 0..n
        BY <1>2
      <4>7. QED
        BY <4>3, <4>4, <4>5, <4>6 DEF Turned
    <3>8. CASE ~(byte >= More)
      <4>1. goes = FALSE
        BY <3>6, <3>8 DEF goes
      <4>2. Turn(t, s, groups, modulus, n) =
              [next |-> p + m + 1, value |-> v1, more |-> FALSE]
        BY <3>3, <3>5, <4>1, Zenon
      <4>3. byte < More /\ m < n
        BY <1>2, <3>1, <3>6, <3>8
      <4>4. QED
        BY <1>1, <1>2, <3>1, <4>2, <4>3 DEF Turned, v1
    <3>9. QED
      BY <3>7, <3>8
  <2>4. QED
    BY <2>2, <2>3
<1>5. t.more = TRUE \/ t.more = FALSE
  BY <1>1
<1>6. QED
  BY <1>3, <1>4, <1>5

(* What a turn returns may be given to the next one.                       *)
LEMMA TurnType ==
  ASSUME NEW s \in Seq(Octets), NEW groups \in Nat \ {0}, NEW modulus \in Nat \ {0},
         NEW n \in 1..groups, NEW t \in [next : Nat \ {0}, value : Nat, more : BOOLEAN]
  PROVE  Turn(t, s, groups, modulus, n) \in [next : Nat \ {0}, value : Nat, more : BOOLEAN]
<1>1. CASE ~t.more \/ t.next > Len(s)
  BY <1>1 DEF Turn
<1>2. CASE ~(~t.more \/ t.next > Len(s))
  <2> DEFINE byte == s[t.next]
             x == byte % More
             power == Powers(More, groups)[n - 1]
             sum == t.value + x * power
             v == sum % modulus
             goes == byte >= More
  <2>1. More \in Nat \ {0} /\ t.next \in 1..Len(s) /\ t.value \in Nat /\ n - 1 \in 0..groups
    BY <1>2, CodingConstants
  <2>2. byte \in Octets
    BY <2>1
  <2>3. power \in Nat
    <3>1. Powers(More, groups) \in [0..groups -> Nat]
      BY <2>1, PowersDef
    <3>2. QED
      BY <2>1, <3>1
  <2>4. x \in Nat
    BY <2>1, <2>2, CodingConstants DEF Octets
  <2> HIDE DEF x, power
  <2>5. sum \in Nat
    BY <2>1, <2>3, <2>4
  <2> HIDE DEF sum
  <2>6. v \in Nat
    BY <2>5, Division
  <2>7. goes \in BOOLEAN
    OBVIOUS
  <2>8. Turn(t, s, groups, modulus, n) = [next |-> t.next + 1, value |-> v, more |-> goes]
    BY <1>2 DEF Turn, sum, x, power
  <2> HIDE DEF v, goes
  <2>9. t.next + 1 \in Nat \ {0}
    BY <2>1
  <2>10. QED
    BY <2>6, <2>7, <2>8, <2>9
<1>3. QED
  BY <1>1, <1>2

(* The loop computes what it is to compute.                                *)
LEMMA LoopIsVarint ==
  ASSUME NEW s \in Seq(Octets), NEW p \in Nat \ {0}, NEW groups \in Nat \ {0},
         NEW modulus \in Nat \ {0}
  PROVE  GetVarintLoop(s, p, groups, modulus) = Varint(s, p, groups, modulus)
<1> DEFINE first == [next |-> p, value |-> 0, more |-> TRUE]
           S == [next : Nat \ {0}, value : Nat, more : BOOLEAN]
           Is(f) ==
             f = [n \in 0..groups |->
                    IF n = 0 THEN first ELSE Turn(f[n - 1], s, groups, modulus, n)]
           turn == CHOOSE f : Is(f)
           g == [u \in Nat \X S |->
                   IF u[1] \in 1..groups THEN Turn(u[2], s, groups, modulus, u[1]) ELSE u[2]]
<1>1. GetVarintLoop(s, p, groups, modulus) =
        IF turn[groups].more THEN NULL
        ELSE [next |-> turn[groups].next, value |-> turn[groups].value]
  BY DEF GetVarintLoop, Turn
<1>2. first \in S
  OBVIOUS
<1> HIDE DEF first
<1>3. \A n \in 1..groups, t \in S : Turn(t, s, groups, modulus, n) \in S
  BY TurnType
<1> HIDE DEF S
<1>4. /\ g \in [Nat \X S -> S]
      /\ \A n \in 1..groups, t \in S : g[<<n, t>>] = Turn(t, s, groups, modulus, n)
  <2>1. ASSUME NEW u \in Nat \X S
        PROVE  (IF u[1] \in 1..groups THEN Turn(u[2], s, groups, modulus, u[1]) ELSE u[2]) \in S
    BY <1>3
  <2>2. ASSUME NEW n \in 1..groups, NEW t \in S
        PROVE  g[<<n, t>>] = Turn(t, s, groups, modulus, n)
    <3>1. <<n, t>> \in Nat \X S /\ <<n, t>>[1] = n /\ <<n, t>>[2] = t
      OBVIOUS
    <3>2. QED
      BY <3>1, Zenon
  <2>3. QED
    BY <2>1, <2>2
<1> HIDE DEF g
<1>5. PICK f \in [0..groups -> S] : Recursive(f, groups, first, g)
  BY <1>2, <1>4, Recursion
<1>6. \A n \in 1..groups : n \in 0..groups /\ n - 1 \in 0..groups /\ n # 0
  OBVIOUS
<1>7. \A n \in 0..groups : n = 0 \/ n \in 1..groups
  OBVIOUS
<1>8. Is(f)
  <2>1. f[0] = first /\ \A n \in 1..groups : f[n] = Turn(f[n - 1], s, groups, modulus, n)
    BY <1>4, <1>5, <1>6 DEF Recursive
  <2>2. f = [n \in 0..groups |-> f[n]]
    BY <1>5
  <2>3. \A n \in 0..groups :
          f[n] = IF n = 0 THEN first ELSE Turn(f[n - 1], s, groups, modulus, n)
    BY <1>6, <1>7, <2>1
  <2>4. QED
    BY <2>2, <2>3
<1>9. Is(turn)
  <2> HIDE DEF Is
  <2>1. QED
    BY <1>8
<1> HIDE DEF turn
<1>10. turn[0] = first /\ \A n \in 1..groups : turn[n] = Turn(turn[n - 1], s, groups, modulus, n)
  <2>1. 0 \in 0..groups
    OBVIOUS
  <2>2. QED
    BY <1>6, <1>9, <2>1, Zenon
<1> DEFINE T == {n \in 0..groups : Turned(turn[n], s, p, groups, modulus, n)}
<1>11. 0 \in T /\ T \in SUBSET (0..groups)
  <2>1. Going(s, p, 0) /\ Value(s, p, 0) % modulus = 0 /\ p + 0 = p /\ 0 \in 0..0
    BY ValueNone DEF Going
  <2>2. first = [next |-> p + 0, value |-> Value(s, p, 0) % modulus, more |-> TRUE]
    BY <2>1, Zenon DEF first
  <2>3. Turned(first, s, p, groups, modulus, 0)
    BY <2>1, <2>2, Zenon DEF Turned
  <2>4. QED
    BY <1>10, <2>3
<1>12. ASSUME NEW n \in 0..groups, n \in T, n < groups PROVE n + 1 \in T
  <2>1. n + 1 \in 1..groups /\ n + 1 \in 0..groups /\ (n + 1) - 1 = n
        /\ Turned(turn[n], s, p, groups, modulus, n)
    BY <1>12
  <2>2. turn[n + 1] = Turn(turn[n], s, groups, modulus, n + 1)
    BY <1>10, <2>1
  <2>3. Turned(turn[n + 1], s, p, groups, modulus, n + 1)
    BY <2>1, <2>2, TurnTurned
  <2>4. QED
    BY <2>1, <2>3
<1> HIDE DEF T
<1>13. Turned(turn[groups], s, p, groups, modulus, groups)
  <2>1. groups \in T
    BY <1>11, <1>12, UpTo
  <2>2. QED
    BY <2>1 DEF T
<1> DEFINE t == turn[groups]
<1> HIDE DEF t
<1>14. PICK m \in 0..groups :
        /\ Going(s, p, m)
        /\ \/ /\ t = [next |-> p + m, value |-> Value(s, p, m) % modulus, more |-> TRUE]
              /\ m = groups \/ p + m > Len(s)
           \/ /\ t = [next |-> p + m + 1, value |-> Value(s, p, m + 1) % modulus,
                      more |-> FALSE]
              /\ m < groups /\ p + m <= Len(s) /\ s[p + m] < More
  BY <1>13 DEF Turned, t
<1>15. CASE m = groups \/ p + m > Len(s)
  <2>1. Varint(s, p, groups, modulus) = NULL
    BY <1>14, <1>15, VarintNone
  <2>2. t.more = TRUE
    <3>1. ~(m < groups /\ p + m <= Len(s))
      BY <1>15
    <3>2. QED
      BY <1>14, <3>1
  <2>3. QED
    BY <1>1, <2>1, <2>2 DEF t
<1>16. CASE ~(m = groups \/ p + m > Len(s))
  <2>1. /\ t = [next |-> p + m + 1, value |-> Value(s, p, m + 1) % modulus, more |-> FALSE]
        /\ m < groups /\ p + m <= Len(s) /\ s[p + m] < More
    BY <1>14, <1>16
  <2>2. m \in 0..(groups - 1)
    BY <2>1
  <2>3. Varint(s, p, groups, modulus) =
          [next |-> p + m + 1, value |-> Value(s, p, m + 1) % modulus]
    BY <1>14, <2>1, <2>2, VarintEnd
  <2>4. t.more = FALSE /\ t.next = p + m + 1 /\ t.value = Value(s, p, m + 1) % modulus
    BY <2>1
  <2>5. QED
    BY <1>1, <2>3, <2>4 DEF t
<1>17. QED
  BY <1>15, <1>16

(* What a number is like that has been read.                               *)
LEMMA VarintProper ==
  ASSUME NEW s \in Seq(Octets), NEW p \in Nat \ {0}
  PROVE  LET v == Varint(s, p, Groups, Modulus) IN
         v # NULL => /\ v = [next |-> v.next, value |-> v.value]
                     /\ v.next \in (p + 1)..(Len(s) + 1)
                     /\ v.value \in 0..(Modulus - 1)
<1> DEFINE v == Varint(s, p, Groups, Modulus)
<1>1. Groups \in Nat \ {0} /\ Modulus \in Nat \ {0} /\ Len(s) \in Nat
  BY CodingConstants
<1>2. PICK m \in 0..Groups :
        /\ Going(s, p, m)
        /\ \/ m = Groups
           \/ p + m > Len(s)
           \/ m < Groups /\ p + m <= Len(s) /\ s[p + m] < More
  BY <1>1, GoesOn
<1>3. CASE m = Groups \/ p + m > Len(s)
  BY <1>1, <1>2, <1>3, VarintNone
<1>4. CASE ~(m = Groups \/ p + m > Len(s))
  <2> DEFINE x == Value(s, p, m + 1)
  <2>1. m \in 0..(Groups - 1) /\ m \in Nat /\ m < Groups /\ p + m <= Len(s) /\ s[p + m] < More
    BY <1>1, <1>2, <1>4
  <2>2. v = [next |-> p + m + 1, value |-> x % Modulus]
    BY <1>1, <1>2, <2>1, VarintEnd
  <2>3. x \in Nat
    BY <1>1, <2>1, ValueNext
  <2> HIDE DEF x
  <2>4. (x % Modulus) \in 0..(Modulus - 1)
    BY <1>1, <2>3, Division
  <2>5. p + m + 1 \in (p + 1)..(Len(s) + 1)
    BY <1>1, <2>1
  <2> DEFINE y == x % Modulus
  <2> HIDE DEF y, v
  <2>6. v = [next |-> p + m + 1, value |-> y] /\ y \in 0..(Modulus - 1)
    BY <2>2, <2>4 DEF y
  <2>7. QED
    BY <2>5, <2>6 DEF v
<1>5. QED
  BY <1>3, <1>4

(* The fast paths: a byte that says that nothing follows.                  *)
LEMMA VarintShort ==
  ASSUME NEW s \in Seq(Octets), NEW p \in 1..Len(s), s[p] < More
  PROVE  Varint(s, p, Groups, Modulus) = [next |-> p + 1, value |-> s[p]]
<1> DEFINE byte == s[p]
           power == Powers(More, Groups)[0]
<1>1. /\ Groups \in Nat \ {0} /\ Modulus \in Nat \ {0} /\ Len(s) \in Nat
      /\ More \in Nat \ {0} /\ More <= Modulus /\ Radix \in Nat
  BY CodingConstants
<1>2. p \in Nat \ {0} /\ 0 \in 0..(Groups - 1) /\ p + 0 = p /\ p <= Len(s)
      /\ p + 0 + 1 = p + 1 /\ 0 + 1 = 1 /\ Going(s, p, 0)
  BY <1>1 DEF Going
<1>3. Varint(s, p, Groups, Modulus) = [next |-> p + 0 + 1, value |-> Value(s, p, 0 + 1) % Modulus]
  BY <1>1, <1>2, VarintEnd
<1>4. Value(s, p, 0 + 1) = Value(s, p, 0) + (s[p + 0] % More) * Powers(More, Groups)[0]
  <2>1. 0 \in Nat /\ 0 < Groups /\ p + 0 <= Len(s)
    BY <1>1, <1>2
  <2>2. QED
    BY <1>1, <1>2, <2>1, ValueNext
<1>5. byte \in 0..(More - 1) /\ power = 1 /\ Value(s, p, 0) = 0
  <2>1. byte \in Octets
    OBVIOUS
  <2>2. power = 1
    BY <1>1, PowersDef
  <2>3. QED
    BY <1>1, <1>2, <2>1, <2>2, ValueNone DEF Octets
<1>6. Value(s, p, 0 + 1) = 0 + (byte % More) * power
  BY <1>2, <1>4, <1>5
<1> HIDE DEF byte, power
<1>7. (byte % More) = byte /\ (byte % Modulus) = byte
  BY <1>1, <1>5
<1>8. Value(s, p, 0 + 1) = byte
  BY <1>1, <1>5, <1>6, <1>7
<1>9. Value(s, p, 0 + 1) % Modulus = byte
  BY <1>7, <1>8
<1>10. QED
  BY <1>2, <1>3, <1>9 DEF byte

(* The fast path for one byte and the loop agree with the definition.      *)
LEMMA PtrIsVarint ==
  ASSUME NEW s \in Seq(Octets), NEW p \in Nat \ {0}
  PROVE  GetVarint32Ptr(s, p) = Varint(s, p, Groups, Modulus)
<1>1. Groups \in Nat \ {0} /\ Modulus \in Nat \ {0} /\ Len(s) \in Nat
  BY CodingConstants
<1>2. CASE p <= Len(s) /\ s[p] < More
  <2>1. p \in 1..Len(s)
    BY <1>1, <1>2
  <2>2. QED
    BY <1>2, <2>1, VarintShort DEF GetVarint32Ptr
<1>3. CASE ~(p <= Len(s) /\ s[p] < More)
  BY <1>1, <1>3, LoopIsVarint DEF GetVarint32Ptr
<1>4. QED
  BY <1>2, <1>3

(* So do the fast path for three bytes and the three calls.                *)
LEMMA NumbersProperties ==
  ASSUME NEW s \in Seq(Octets), Len(s) >= 3
  PROVE  LET shared == Varint(s, 1, Groups, Modulus)
             nonShared == Varint(s, shared.next, Groups, Modulus)
             valueLength == Varint(s, nonShared.next, Groups, Modulus)
         IN DecodeNumbers(s, 1) =
              IF shared = NULL \/ nonShared = NULL \/ valueLength = NULL THEN NULL
              ELSE Entry(valueLength.next, shared.value, nonShared.value, valueLength.value)
<1> DEFINE a == Varint(s, 1, Groups, Modulus)
           b == Varint(s, a.next, Groups, Modulus)
           c == Varint(s, b.next, Groups, Modulus)
<1>1. Len(s) \in Nat
  OBVIOUS
<1>2. CASE \A i \in 1..(1 + 2) : s[i] < More
  <2>1. 1 \in 1..Len(s) /\ 2 \in 1..Len(s) /\ 3 \in 1..Len(s)
    BY <1>1
  <2>2. s[1] < More /\ s[2] < More /\ s[3] < More
    BY <1>2
  <2>3. a = [next |-> 1 + 1, value |-> s[1]]
    BY <2>1, <2>2, VarintShort
  <2>4. Varint(s, 2, Groups, Modulus) = [next |-> 2 + 1, value |-> s[2]]
    BY <2>1, <2>2, VarintShort
  <2>5. Varint(s, 3, Groups, Modulus) = [next |-> 3 + 1, value |-> s[3]]
    BY <2>1, <2>2, VarintShort
  <2>6. a.next = 2 /\ a.value = s[1] /\ a # NULL
    BY <2>3 DEF NULL
  <2>7. b.next = 3 /\ b.value = s[2] /\ b # NULL
    BY <2>4, <2>6 DEF NULL
  <2>8. c.next = 4 /\ c.value = s[3] /\ c # NULL
    BY <2>5, <2>7 DEF NULL
  <2>9. DecodeNumbers(s, 1) = Entry(1 + 3, s[1], s[1 + 1], s[1 + 2])
    BY <1>2 DEF DecodeNumbers
  <2> HIDE DEF a, b, c
  <2>10. DecodeNumbers(s, 1) =
           IF a = NULL \/ b = NULL \/ c = NULL THEN NULL
           ELSE Entry(c.next, a.value, b.value, c.value)
    BY <2>6, <2>7, <2>8, <2>9
  <2>11. QED
    BY <2>10 DEF a, b, c
<1>3. CASE ~(\A i \in 1..(1 + 2) : s[i] < More)
  <2>1. DecodeNumbers(s, 1) =
          LET shared == GetVarint32Ptr(s, 1) IN
          IF shared = NULL THEN NULL
          ELSE LET nonShared == GetVarint32Ptr(s, shared.next) IN
          IF nonShared = NULL THEN NULL
          ELSE LET valueLength == GetVarint32Ptr(s, nonShared.next) IN
          IF valueLength = NULL THEN NULL
          ELSE Entry(valueLength.next, shared.value, nonShared.value, valueLength.value)
    BY <1>3, Zenon DEF DecodeNumbers
  <2>2. GetVarint32Ptr(s, 1) = a
    BY PtrIsVarint
  <2>3. a # NULL => a.next \in Nat \ {0}
    BY <1>1, VarintProper
  <2>4. a # NULL => GetVarint32Ptr(s, a.next) = b
    BY <2>3, PtrIsVarint
  <2>5. a # NULL /\ b # NULL => b.next \in Nat \ {0}
    BY <1>1, <2>3, VarintProper
  <2>6. a # NULL /\ b # NULL => GetVarint32Ptr(s, b.next) = c
    BY <2>5, PtrIsVarint
  <2> HIDE DEF a, b, c
  <2>7. DecodeNumbers(s, 1) =
          IF a = NULL \/ b = NULL \/ c = NULL THEN NULL
          ELSE Entry(c.next, a.value, b.value, c.value)
    BY <2>1, <2>2, <2>4, <2>6
  <2>8. QED
    BY <2>7 DEF a, b, c
<1>4. QED
  BY <1>2, <1>3

(* DecodeEntry accepts what the definition does, whatever its numbers are. *)
LEMMA EntryProperties ==
  ASSUME NEW s \in Seq(Octets), Len(s) < Modulus
  PROVE  EntryDecodes(s)
<1> DEFINE a == Varint(s, 1, Groups, Modulus)
           b == Varint(s, a.next, Groups, Modulus)
           c == Varint(s, b.next, Groups, Modulus)
           e == DecodeEntry(s, 1)
           needed == (b.value + c.value) % Modulus
           entry == Entry(c.next, a.value, b.value, c.value)
<1>1. Len(s) \in Nat /\ Modulus \in Nat \ {0} /\ Groups64 \in Nat \ {0} /\ Modulus64 \in Nat \ {0}
  BY CodingConstants
<1>2. GetVarint64Ptr(s, 1) = Varint(s, 1, Groups64, Modulus64)
  BY <1>1, LoopIsVarint DEF GetVarint64Ptr
<1>3. EntryDecodes(s) <=>
        /\ GetVarint64Ptr(s, 1) = Varint(s, 1, Groups64, Modulus64)
        /\ IF Len(s) < 3 \/ a = NULL \/ b = NULL \/ c = NULL THEN e = NULL
           ELSE e = IF c.next + needed > Len(s) + 1 THEN NULL ELSE entry
  BY DEF EntryDecodes
<1>4. CASE Len(s) < 3
  <2>1. e = NULL
    BY <1>1, <1>4 DEF DecodeEntry
  <2>2. QED
    BY <1>2, <1>3, <1>4, <2>1
<1>5. CASE ~(Len(s) < 3)
  <2>1. DecodeNumbers(s, 1) = IF a = NULL \/ b = NULL \/ c = NULL THEN NULL ELSE entry
    BY <1>1, <1>5, NumbersProperties
  <2>2. e = IF DecodeNumbers(s, 1) # NULL /\ Fits(s, DecodeNumbers(s, 1))
            THEN DecodeNumbers(s, 1) ELSE NULL
    BY <1>1, <1>5 DEF DecodeEntry
  <2>3. CASE a = NULL \/ b = NULL \/ c = NULL
    <3>1. e = NULL
      BY <2>1, <2>2, <2>3
    <3>2. QED
      BY <1>2, <1>3, <2>3, <3>1
  <2>4. CASE ~(a = NULL \/ b = NULL \/ c = NULL)
    <3>1. a.next \in Nat \ {0}
      BY <1>1, <2>4, VarintProper
    <3>2. b.next \in Nat \ {0} /\ b.value \in Nat
      BY <1>1, <2>4, <3>1, VarintProper
    <3>3. c.next \in 2..(Len(s) + 1) /\ c.value \in Nat
      <4>1. c.next \in (b.next + 1)..(Len(s) + 1) /\ c.value \in Nat
        BY <1>1, <2>4, <3>2, VarintProper
      <4>2. QED
        BY <1>1, <3>2, <4>1
    <3> HIDE DEF a, b, c
    <3>4. entry.next = c.next /\ entry.nonShared = b.value /\ entry.valueLength = c.value
          /\ entry # NULL
      BY <3>3 DEF Entry, NULL
    <3> DEFINE room == Len(s) - c.next + 1
    <3>5. Fits(s, entry) <=> (room % Modulus) >= needed
      BY <3>4 DEF Fits
    <3>6. room \in 0..(Modulus - 1) /\ needed \in Nat
      <4>1. room \in Nat /\ room < Len(s) /\ Len(s) < Modulus
        BY <1>1, <3>3
      <4>2. b.value + c.value \in Nat
        BY <3>2, <3>3
      <4>3. (b.value + c.value) % Modulus \in 0..(Modulus - 1)
        BY <1>1, <4>2, Division
      <4> HIDE DEF room
      <4>4. needed \in Nat
        BY <4>3
      <4> HIDE DEF needed
      <4>5. QED
        BY <1>1, <4>1, <4>4
    <3> HIDE DEF needed
    <3>7. room >= needed <=> ~(c.next + needed > Len(s) + 1)
      BY <1>1, <3>3, <3>6
    <3> HIDE DEF entry, room, e
    <3>8. (room % Modulus) = room
      BY <1>1, <3>6
    <3>9. e = IF c.next + needed > Len(s) + 1 THEN NULL ELSE entry
      BY <2>1, <2>2, <2>4, <3>4, <3>5, <3>7, <3>8
    <3>10. QED
      BY <1>2, <1>3, <1>5, <2>4, <3>9
  <2>5. QED
    BY <2>3, <2>4
<1>6. QED
  BY <1>4, <1>5

(* DecodeEntry accepts just the entries whose bytes, counted modulo 2^32   *)
(* as Block.cpp:45 does, are in the block, whatever its numbers are.       *)
THEOREM EntriesAlwaysDecode == InputSpec => []EntriesDecode
<1>1. InputOK => EntriesDecode
  BY EntryProperties DEF InputOK, EntriesDecode
<1>2. QED
  BY <1>1, InputsOK, PTL
=============================================================================
