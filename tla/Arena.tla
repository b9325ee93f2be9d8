------------------------------- MODULE Arena -------------------------------
(***************************************************************************)
(* Arena of db/Arena.h and db/Arena.cpp: pieces of memory cut one after    *)
(* the other from blocks of kBlockSize bytes, larger pieces from blocks of *)
(* their own.  One thread allocates; nothing is freed before the arena.    *)
(*                                                                         *)
(* An address is a block, counted from 1 in the order of blocks_, and an   *)
(* offset in it; block 0 is nullptr.  new char[] returns memory aligned    *)
(* for every type, so an address is aligned exactly if its offset is.      *)
(***************************************************************************)
EXTENDS Integers, Sequences

CONSTANTS
  kBlockSize,     (* 4096 in the code                                      *)
  kAlign,         (* align: 8, or sizeof(void* ) where that is larger      *)
  kPointer,       (* sizeof(char* )                                        *)
  Sizes,          (* the sizes that are asked for                          *)
  MaxPieces       (* bound of the model: how many pieces are asked for     *)

ASSUME ArenaAssumption ==
  /\ kBlockSize \in Nat
  /\ kAlign \in Nat \ {0}
  /\ kPointer \in Nat
  /\ Sizes \subseteq Nat
  /\ MaxPieces \in Nat

VARIABLES
  blocks,         (* the sizes of the blocks in blocks_                    *)
  allocPtr,       (* alloc_ptr_                                            *)
  remaining,      (* alloc_bytes_remaining_                                *)
  usage,          (* memory_usage_                                         *)
  pieces          (* what the calls returned, in their order               *)

vars == <<blocks, allocPtr, remaining, usage, pieces>>

Address(b, o) == [block |-> b, offset |-> o]
Piece(p, bytes, isAligned) == [at |-> p, size |-> bytes, aligned |-> isAligned]

Init ==
  /\ blocks = <<>>
  /\ allocPtr = Address(0, 0)
  /\ remaining = 0
  /\ usage = 0
  /\ pieces = <<>>

-----------------------------------------------------------------------------
(* The unused tail of the current block begins here once n bytes are cut.  *)
Advance(n) ==
  /\ allocPtr' = [allocPtr EXCEPT !.offset = @ + n]
  /\ remaining' = remaining - n

Return(p, bytes, isAligned) == pieces' = Append(pieces, Piece(p, bytes, isAligned))

NewBlock == Address(Len(blocks) + 1, 0)

(* A mutant: a new block is counted without its entry in blocks_.          *)
AllocateNewBlockUncounted(bytes) ==
  /\ blocks' = Append(blocks, bytes)
  /\ usage' = usage + bytes

AllocateNewBlock(bytes) ==
  /\ blocks' = Append(blocks, bytes)
  /\ usage' = usage + bytes + kPointer

(* The distance from alloc_ptr_ to the next aligned address.               *)
Slop ==
  LET mod == allocPtr.offset % kAlign IN IF mod = 0 THEN 0 ELSE kAlign - mod

-----------------------------------------------------------------------------
(* More mutants of the definitions below, each a plausible slip.           *)

(* The pointer moves on by the bytes asked for and not by the slop too.    *)
FitAlignedShort(bytes) ==
  /\ Slop + bytes <= remaining
  /\ Return([allocPtr EXCEPT !.offset = @ + Slop], bytes, TRUE)
  /\ Advance(bytes)
  /\ UNCHANGED <<blocks, usage>>

(* The slop is added to the size but not to the address.                   *)
FitAlignedUnaligned(bytes) ==
  /\ Slop + bytes <= remaining
  /\ Return(allocPtr, bytes, TRUE)
  /\ Advance(Slop + bytes)
  /\ UNCHANGED <<blocks, usage>>

(* Only pieces that no block can hold get a block of their own.            *)
FallbackLarge(bytes, isAligned) ==
  LET size == IF bytes > kBlockSize THEN bytes ELSE kBlockSize IN
  /\ AllocateNewBlock(size)
  /\ Return(NewBlock, bytes, isAligned)
  /\ allocPtr' = Address(Len(blocks) + 1, bytes)
  /\ remaining' = size - bytes

-----------------------------------------------------------------------------
(* AllocateFallback: a large piece gets a block of its own, and the tail   *)
(* of the current block stays in use; else the tail is given up.           *)
OwnBlock(bytes, isAligned) ==
  /\ bytes > kBlockSize \div 4
  /\ AllocateNewBlock(bytes)
  /\ Return(NewBlock, bytes, isAligned)
  /\ UNCHANGED <<allocPtr, remaining>>

NextBlock(bytes, isAligned) ==
  /\ bytes <= kBlockSize \div 4
  /\ AllocateNewBlock(kBlockSize)
  /\ Return(NewBlock, bytes, isAligned)
  /\ allocPtr' = Address(Len(blocks) + 1, bytes)
  /\ remaining' = kBlockSize - bytes

AllocateFallback(bytes, isAligned) ==
  OwnBlock(bytes, isAligned) \/ NextBlock(bytes, isAligned)

(* Allocate(bytes); it asserts that bytes is not 0.                        *)
Fit(bytes) ==
  /\ bytes <= remaining
  /\ Return(allocPtr, bytes, FALSE)
  /\ Advance(bytes)
  /\ UNCHANGED <<blocks, usage>>

Allocate(bytes) ==
  /\ bytes > 0
  /\ Fit(bytes) \/ (bytes > remaining /\ AllocateFallback(bytes, FALSE))

(* AllocateAligned(bytes).                                                 *)
FitAligned(bytes) ==
  /\ Slop + bytes <= remaining
  /\ Return([allocPtr EXCEPT !.offset = @ + Slop], bytes, TRUE)
  /\ Advance(Slop + bytes)
  /\ UNCHANGED <<blocks, usage>>

AllocateAligned(bytes) ==
  FitAligned(bytes) \/ (Slop + bytes > remaining /\ AllocateFallback(bytes, TRUE))

Next ==
  /\ Len(pieces) < MaxPieces
  /\ \E bytes \in Sizes : Allocate(bytes) \/ AllocateAligned(bytes)

Spec == Init /\ [][Next]_vars

-----------------------------------------------------------------------------
(* Properties.                                                             *)

(* The members of Arena and the pieces handed out keep their shapes.       *)
TypeOK ==
  /\ blocks \in Seq(Nat)
  /\ allocPtr \in [block : 0..Len(blocks), offset : Nat]
  /\ remaining \in Nat
  /\ usage \in Nat
  /\ pieces \in Seq([at : [block : Nat, offset : Nat], size : Nat, aligned : BOOLEAN])

(* The bytes a piece occupies; those of an empty piece are none.           *)
Inside(piece) ==
  /\ piece.at.block \in 1..Len(blocks)
  /\ piece.at.offset + piece.size <= blocks[piece.at.block]

Apart(p, q) ==
  \/ p.at.block # q.at.block
  \/ p.at.offset + p.size <= q.at.offset
  \/ q.at.offset + q.size <= p.at.offset

(* Every piece lies inside a block the arena owns, no two pieces share a   *)
(* byte, and the tail the next piece will be cut from is inside its block  *)
(* too and shares no byte with any piece.                                  *)
PiecesDisjoint ==
  /\ \A i \in 1..Len(pieces) : pieces[i].size > 0 => Inside(pieces[i])
  /\ \A i, j \in 1..Len(pieces) : i # j => Apart(pieces[i], pieces[j])
  /\ remaining > 0 => Inside(Piece(allocPtr, remaining, FALSE))
  /\ \A i \in 1..Len(pieces) : Apart(pieces[i], Piece(allocPtr, remaining, FALSE))

(* What AllocateAligned returns is aligned, also when it comes from        *)
(* AllocateFallback (the assertion at Arena.h:78).                         *)
AlignedPieces ==
  \A i \in 1..Len(pieces) : pieces[i].aligned => pieces[i].at.offset % kAlign = 0

(* MemoryUsage() is what was taken from the heap: every block and its      *)
(* entry in blocks_.                                                       *)
Total[n \in 0..Len(blocks)] == IF n = 0 THEN 0 ELSE Total[n - 1] + blocks[n] + kPointer

UsageExact == usage = Total[Len(blocks)]

(* A block is given up only when less than a quarter of it (and the slop)  *)
(* is left: what "to avoid wasting too much space in leftover bytes"       *)
(* (Arena.cpp:24-25) comes to.                                             *)
LittleWaste ==
  [][allocPtr.block # 0 /\ allocPtr'.block # allocPtr.block
       => 4 * remaining < kBlockSize + 4 * kAlign]_vars

=============================================================================
