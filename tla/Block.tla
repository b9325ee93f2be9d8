------------------------------- MODULE Block --------------------------------
(***************************************************************************)
(* Block::Iter of db/Block.cpp: Seek in a block of sorted entries.  Seek   *)
(* bisects the restart points, where keys are stored whole, and then reads *)
(* entry after entry, each of which stores only what its key does not      *)
(* share with the key before it.  (The iterator's other movements are pure *)
(* virtual.)  One turn of a loop is an action.                             *)
(*                                                                         *)
(* An offset into data_ is modelled by the number of the entry that begins *)
(* there; entry count is where the restart array begins.  Values are left  *)
(* out but for where they end.                                             *)
(***************************************************************************)
EXTENDS Integers, Sequences

CONSTANTS
  Letters,      (* the characters of keys                                  *)
  Keys,         (* the keys that are compared                              *)
  Targets,      (* the keys that are sought                                *)
  Less(_, _),   (* the comparator: Compare(a, b) < 0                       *)
  Blocks        (* the blocks that are read                                *)

(* What a block holds: the keys that were written and, as they are read    *)
(* now, whether DecodeEntry accepts an entry and how many characters it    *)
(* says are shared.  A damaged entry is not accepted, or claims to share   *)
(* more than there is.                                                     *)
Entries(b) == 0..(b.count - 1)
Points(b)  == 0..(b.num - 1)

Intact(b, i) ==
  /\ b.readable[i]
  /\ b.shared[i] <= Len(b.keys[i])
  /\ IF i = 0 THEN b.shared[i] = 0
     ELSE /\ b.shared[i] <= Len(b.keys[i - 1])
          /\ \A n \in 1..b.shared[i] : b.keys[i][n] = b.keys[i - 1][n]

Overlong(b, i) == b.shared[i] > IF i = 0 THEN 0 ELSE Len(b.keys[i - 1])

IsBlock(b) ==
  /\ b.count \in Nat
  /\ b.num \in Nat \ {0}
  /\ b.keys \in [Entries(b) -> Keys]
  /\ b.readable \in [Entries(b) -> BOOLEAN]
  /\ b.shared \in [Entries(b) -> Nat]
  /\ b.restarts \in [Points(b) -> 0..b.count]
  /\ b.restarts[0] = 0
  /\ \A p, q \in Points(b) : p < q => b.restarts[p] < b.restarts[q]
  /\ \A p \in Points(b) : p > 0 => b.restarts[p] < b.count
  /\ \A i, j \in Entries(b) : i < j => Less(b.keys[i], b.keys[j])
  /\ \A i \in Entries(b) : Intact(b, i) \/ ~b.readable[i] \/ Overlong(b, i)
  /\ \A p \in Points(b) : b.restarts[p] < b.count /\ Intact(b, b.restarts[p]) =>
       b.shared[b.restarts[p]] = 0

ASSUME BlockAssumption ==
  /\ Keys \subseteq Seq(Letters)
  /\ Targets \subseteq Keys
  /\ \A b \in Blocks : IsBlock(b)
  /\ \A j, k \in Keys : Less(j, k) \in BOOLEAN
  /\ \A j, k \in Keys : ~(Less(j, k) /\ Less(k, j))
  /\ \A j, k, l \in Keys : Less(j, k) /\ Less(k, l) => Less(j, l)
  /\ \A j, k, l \in Keys : Less(j, l) => Less(j, k) \/ Less(k, l)

VARIABLES
  block,        (* data_, restarts_ and num_restarts_                      *)
  pc,           (* where Seek is; "new": it has never been called          *)
  target,       (* the argument of the last Seek                           *)
  left, right,  (* its locals                                              *)
  current,      (* current_                                                *)
  restartIndex, (* restart_index_                                          *)
  key,          (* key_                                                    *)
  end,          (* NextEntryOffset(): where value_ ends                    *)
  status        (* status_                                                 *)

vars == <<block, pc, target, left, right, current, restartIndex, key, end, status>>

Init ==
  /\ block \in Blocks
  /\ pc = "new"
  /\ target = <<>>
  /\ left = 0
  /\ right = 0
  /\ current \in 0..block.count        (* the constructor leaves these two *)
  /\ restartIndex \in 0..block.num     (* as it finds them                 *)
  /\ key = <<>>
  /\ end = 0
  /\ status = "ok"

-----------------------------------------------------------------------------
(* The part of entry i's key that the entry stores, DecodeEntry's result.  *)
Delta(b, i) == SubSeq(b.keys[i], b.shared[i] + 1, Len(b.keys[i]))

Return == pc' = "idle"

CorruptionError ==
  /\ Return
  /\ current' = block.count
  /\ restartIndex' = block.num
  /\ status' = "corruption"
  /\ key' = <<>>
  /\ end' = 0

(* restart_index_ follows current_ past the restart points before it.      *)
Follow(i) ==
  CHOOSE p \in restartIndex..block.num :
    /\ \A q \in (restartIndex + 1)..p : q < block.num /\ block.restarts[q] < i
    /\ p + 1 < block.num => block.restarts[p + 1] >= i

-----------------------------------------------------------------------------
(* Mutants of the definitions below, each a plausible slip in the code.    *)

(* The middle is rounded down.                                             *)
MidRoundedDown == (left + right) \div 2

(* SeekToRestartPoint does not clear the key.                              *)
StartWithKey ==
  /\ pc = "bisect"
  /\ left >= right
  /\ pc' = "scan"
  /\ restartIndex' = left
  /\ end' = block.restarts[left]
  /\ UNCHANGED <<block, target, left, right, current, key, status>>

(* The last restart point is forgotten.                                    *)
SeekCallShort(t) ==
  /\ pc \in {"new", "idle"}
  /\ pc' = "bisect"
  /\ target' = t
  /\ left' = 0
  /\ right' = IF block.num > 1 THEN block.num - 2 ELSE 0
  /\ UNCHANGED <<block, current, restartIndex, key, end, status>>

-----------------------------------------------------------------------------
(* Seek(t): the binary search begins ...                                   *)
SeekCall(t) ==
  /\ pc \in {"new", "idle"}
  /\ pc' = "bisect"
  /\ target' = t
  /\ left' = 0
  /\ right' = block.num - 1
  /\ UNCHANGED <<block, current, restartIndex, key, end, status>>

Mid == (left + right + 1) \div 2

(* ... looks at the entry of a restart point in the middle ...             *)
Bisect ==
  LET i == block.restarts[Mid] IN
  /\ pc = "bisect"
  /\ left < right
  /\ block.readable[i] /\ block.shared[i] = 0
  /\ IF Less(Delta(block, i), target)
     THEN left' = Mid /\ UNCHANGED right
     ELSE right' = Mid - 1 /\ UNCHANGED left
  /\ UNCHANGED <<block, pc, target, current, restartIndex, key, end, status>>

BisectFails ==
  LET i == block.restarts[Mid] IN
  /\ pc = "bisect"
  /\ left < right
  /\ ~(block.readable[i] /\ block.shared[i] = 0)
  /\ CorruptionError
  /\ UNCHANGED <<block, target, left, right>>

(* ... and ends: SeekToRestartPoint(left).                                 *)
SeekToRestartPoint ==
  /\ pc = "bisect"
  /\ left >= right
  /\ pc' = "scan"
  /\ restartIndex' = left
  /\ key' = <<>>
  /\ end' = block.restarts[left]
  /\ UNCHANGED <<block, target, left, right, current, status>>

-----------------------------------------------------------------------------
(* ParseNextKey, until it finds a key that is not before the target.       *)
ParseNextKey ==
  LET i == end rebuilt == SubSeq(key, 1, block.shared[i]) \o Delta(block, i) IN
  /\ pc = "scan"
  /\ i < block.count
  /\ block.readable[i] /\ block.shared[i] <= Len(key)
  /\ current' = i
  /\ key' = rebuilt
  /\ end' = i + 1
  /\ restartIndex' = Follow(i)
  /\ IF Less(rebuilt, target) THEN UNCHANGED pc ELSE Return
  /\ UNCHANGED <<block, target, left, right, status>>

ParseFails ==
  /\ pc = "scan"
  /\ end < block.count
  /\ ~(block.readable[end] /\ block.shared[end] <= Len(key))
  /\ CorruptionError
  /\ UNCHANGED <<block, target, left, right>>

NoMoreEntries ==
  /\ pc = "scan"
  /\ end >= block.count
  /\ Return
  /\ current' = block.count
  /\ restartIndex' = block.num
  /\ UNCHANGED <<block, target, left, right, key, end, status>>

Seek ==
  \/ Bisect \/ BisectFails \/ SeekToRestartPoint
  \/ ParseNextKey \/ ParseFails \/ NoMoreEntries

Next == (\E t \in Targets : SeekCall(t)) \/ Seek

Spec == Init /\ [][Next]_vars

(* Seek keeps running; nobody has to call it.                              *)
FairSpec == Spec /\ WF_vars(Seek)

-----------------------------------------------------------------------------
(* Properties.                                                             *)

(* The members of the iterator and Seek's locals keep their types, and the *)
(* bisection never leaves the restart array.                               *)
TypeOK ==
  /\ IsBlock(block)
  /\ pc \in {"new", "bisect", "scan", "idle"}
  /\ target \in Seq(Letters)
  /\ left \in Points(block) /\ right \in Points(block)
  /\ current \in 0..block.count
  /\ restartIndex \in 0..block.num
  /\ key \in Seq(Letters)
  /\ end \in 0..block.count
  /\ status \in {"ok", "corruption"}

Valid == current < block.count

(* After Seek a valid iterator is on the first entry whose key is not      *)
(* before the target, and has put that entry's key together, although the  *)
(* entry stores only the end of it, earlier Seeks have left another key    *)
(* behind and entries elsewhere in the block are damaged; an iterator that *)
(* is not valid and knows of no damage says that there is no such entry.   *)
FindsFirst ==
  pc = "idle" =>
    /\ Valid => /\ key = block.keys[current]
                /\ ~Less(block.keys[current], target)
                /\ \A i \in 0..(current - 1) : Less(block.keys[i], target)
    /\ ~Valid /\ status = "ok" =>
         \A i \in Entries(block) : Less(block.keys[i], target)

(* i is in the interval that begins at restart point p, or the first entry *)
(* of the next one.                                                        *)
Within(p, i) ==
  /\ block.restarts[p] <= i
  /\ p + 1 < block.num => i <= block.restarts[p + 1]

(* Seek reads one interval between restart points, and one entry behind it *)
(* at most, whether it finds an entry, the end of the block or a damaged   *)
(* entry: the bisection has found the only interval the target can be in,  *)
(* whatever earlier Seeks and damaged entries have left behind.            *)
ShortScan ==
  /\ pc = "scan" => Within(left, end)
  /\ pc = "idle" /\ Valid => Within(left, current)

(* "Index of restart block in which current_ falls" (Block.cpp:227) is not *)
(* what restart_index_ is when Seek has ended on the first entry of the    *)
(* interval behind the one it scanned: it is still the index of the other. *)
(* ParseNextKey (Block.cpp:189) passes only restart points before          *)
(* current_, not one that current_ is on.                                  *)
RestartIndexLags ==
  pc = "idle" /\ Valid /\ left + 1 < block.num /\ current = block.restarts[left + 1] =>
    restartIndex = left

(* Every Seek returns: neither the bisection nor the scan runs on forever. *)
SeekReturns == pc = "bisect" ~> pc = "idle"
=============================================================================
