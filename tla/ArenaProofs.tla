---------------------------- MODULE ArenaProofs -----------------------------
(***************************************************************************)
(* Proofs about Arena, for any block size, alignment and sizes of pieces.  *)
(***************************************************************************)
EXTENDS Arena, SequenceTheorems, WellFoundedInduction, TLAPS

(* A piece is inside one of the blocks bs.                                 *)
InsideOf(p, bs) ==
  p.at.block \in 1..Len(bs) /\ p.at.offset + p.size <= bs[p.at.block]

(* Every piece is in a block there is, or is empty and at nullptr.         *)
KnownBlocks == \A i \in 1..Len(pieces) : pieces[i].at.block <= Len(blocks)

IInv == TypeOK /\ KnownBlocks /\ PiecesDisjoint

-----------------------------------------------------------------------------
(* Nothing has been allocated.                                             *)
LEMMA InitIInv == Init => IInv
BY DEF Init, IInv, TypeOK, KnownBlocks, PiecesDisjoint, Address, Piece, Apart

(* The slop is what alignment asks for, and less than that.                *)
LEMMA SlopIs == TypeOK => Slop \in 0..kAlign
<1> SUFFICES ASSUME TypeOK PROVE Slop \in 0..kAlign
  OBVIOUS
<1>1. allocPtr.offset \in Nat /\ kAlign \in Nat \ {0}
  BY ArenaAssumption DEF TypeOK
<1>2. allocPtr.offset % kAlign \in 0..(kAlign - 1)
  BY <1>1
<1>3. QED
  BY <1>1, <1>2 DEF Slop

(* A piece is put behind the ones there are: what it has to satisfy.       *)
LEMMA PieceAdded ==
  ASSUME TypeOK, KnownBlocks,
         NEW p \in [at : [block : Nat, offset : Nat], size : Nat, aligned : BOOLEAN],
         pieces' = Append(pieces, p),
         blocks' \in Seq(Nat), Len(blocks) <= Len(blocks'),
         allocPtr' \in [block : 0..Len(blocks'), offset : Nat],
         remaining' \in Nat,
         p.at.block <= Len(blocks'),
         p.size > 0 => InsideOf(p, blocks'),
         \A i \in 1..Len(pieces) : pieces[i].size > 0 => InsideOf(pieces[i], blocks'),
         \A i, j \in 1..Len(pieces) : i # j => Apart(pieces[i], pieces[j]),
         \A i \in 1..Len(pieces) :
           Apart(pieces[i], p) /\ Apart(pieces[i], Piece(allocPtr', remaining', FALSE)),
         Apart(p, Piece(allocPtr', remaining', FALSE)),
         remaining' > 0 => InsideOf(Piece(allocPtr', remaining', FALSE), blocks')
  PROVE  KnownBlocks' /\ PiecesDisjoint'
<1> DEFINE n == Len(pieces)
           Shape == [at : [block : Nat, offset : Nat], size : Nat, aligned : BOOLEAN]
<1>1. /\ n \in Nat /\ Len(pieces') = n + 1 /\ pieces'[n + 1] = p
      /\ \A i \in 1..n : pieces'[i] = pieces[i] /\ pieces[i] \in Shape
  <2>1. pieces \in Seq(Shape) /\ p \in Shape
    BY DEF TypeOK
  <2> HIDE DEF Shape
  <2>2. QED
    BY <2>1
<1>2. \A i \in 1..(n + 1) : i = n + 1 \/ i \in 1..n
  BY <1>1
<1>3. ASSUME NEW i \in 1..Len(pieces') PROVE pieces'[i].at.block <= Len(blocks')
  <2>1. CASE i = n + 1
    BY <1>1, <2>1
  <2>2. CASE i \in 1..n
    <3>1. pieces[i].at.block \in Nat /\ pieces[i].at.block <= Len(blocks)
      BY <1>1, <2>2 DEF KnownBlocks
    <3>2. Len(blocks) \in Nat /\ Len(blocks') \in Nat
      BY DEF TypeOK
    <3>3. QED
      BY <1>1, <2>2, <3>1, <3>2
  <2>3. QED
    BY <1>1, <1>2, <2>1, <2>2
<1>4. \A i \in 1..Len(pieces') : pieces'[i].size > 0 => InsideOf(pieces'[i], blocks')
  BY <1>1, <1>2
<1>5. \A i \in 1..n : Apart(pieces[i], p) => Apart(p, pieces[i])
  BY DEF Apart
<1>6. ASSUME NEW i \in 1..Len(pieces'), NEW j \in 1..Len(pieces'), i # j
      PROVE  Apart(pieces'[i], pieces'[j])
  <2>1. CASE i \in 1..n /\ j \in 1..n
    BY <1>1, <1>6, <2>1
  <2>2. CASE i = n + 1 /\ j \in 1..n
    BY <1>1, <1>5, <2>2
  <2>3. CASE j = n + 1 /\ i \in 1..n
    BY <1>1, <2>3
  <2>4. QED
    BY <1>1, <1>2, <1>6, <2>1, <2>2, <2>3
<1>7. \A i \in 1..Len(pieces') : Apart(pieces'[i], Piece(allocPtr', remaining', FALSE))
  BY <1>1, <1>2
<1>8. KnownBlocks'
  BY <1>3 DEF KnownBlocks
<1>9. PiecesDisjoint'
  <2>1. \A i \in 1..Len(pieces') : pieces'[i].size > 0 => Inside(pieces[i])'
    BY <1>4 DEF Inside, InsideOf
  <2>2. remaining' > 0 => Inside(Piece(allocPtr, remaining, FALSE))'
    BY DEF Inside, InsideOf, Piece
  <2>3. \A i \in 1..Len(pieces') : Apart(pieces[i], Piece(allocPtr, remaining, FALSE))'
    BY <1>7 DEF Apart, Piece
  <2>4. \A i, j \in 1..Len(pieces') : i # j => Apart(pieces[i], pieces[j])'
    BY <1>6 DEF Apart
  <2>5. QED
    BY <2>1, <2>2, <2>3, <2>4 DEF PiecesDisjoint
<1>10. QED
  BY <1>8, <1>9

(* What TypeOK says of a piece and of the tail.                            *)
LEMMA Shapes ==
  ASSUME TypeOK
  PROVE  /\ \A i \in 1..Len(pieces) :
              /\ pieces[i].at.block \in Nat /\ pieces[i].at.offset \in Nat
              /\ pieces[i].size \in Nat
         /\ Len(blocks) \in Nat /\ \A b \in 1..Len(blocks) : blocks[b] \in Nat
         /\ allocPtr.block \in 0..Len(blocks) /\ allocPtr.offset \in Nat
         /\ remaining \in Nat
<1> DEFINE Shape == [at : [block : Nat, offset : Nat], size : Nat, aligned : BOOLEAN]
<1>1. ASSUME NEW i \in 1..Len(pieces)
      PROVE  /\ pieces[i].at.block \in Nat /\ pieces[i].at.offset \in Nat
             /\ pieces[i].size \in Nat
  <2>1. pieces \in Seq(Shape)
    BY DEF TypeOK
  <2> HIDE DEF Shape
  <2>2. pieces[i] \in Shape
    BY <2>1
  <2>3. QED
    BY <2>2 DEF Shape
<1>2. Len(blocks) \in Nat /\ \A b \in 1..Len(blocks) : blocks[b] \in Nat
  BY DEF TypeOK
<1>3. allocPtr.block \in 0..Len(blocks) /\ allocPtr.offset \in Nat /\ remaining \in Nat
  BY DEF TypeOK
<1>4. QED
  BY <1>1, <1>2, <1>3

(* The address s bytes behind alloc_ptr_.                                  *)
LEMMA Moved ==
  ASSUME TypeOK, NEW s \in Nat
  PROVE  [allocPtr EXCEPT !.offset = @ + s] = Address(allocPtr.block, allocPtr.offset + s)
BY DEF TypeOK, Address

(* What a piece at an address consists of.                                 *)
LEMMA PieceIs ==
  ASSUME NEW b \in Nat, NEW o \in Nat, NEW size \in Nat, NEW isAligned \in BOOLEAN
  PROVE  LET p == Piece(Address(b, o), size, isAligned) IN
         /\ p \in [at : [block : Nat, offset : Nat], size : Nat, aligned : BOOLEAN]
         /\ p.at.block = b /\ p.at.offset = o /\ p.size = size
BY DEF Piece, Address

(* What is apart from a piece is apart from every part of it.              *)
LEMMA PartApart ==
  ASSUME NEW q, NEW t, NEW p, Apart(q, t),
         q.at.offset \in Nat, q.size \in Nat, t.at.offset \in Nat, t.size \in Nat,
         p.at.offset \in Nat, p.size \in Nat,
         p.at.block = t.at.block, t.at.offset <= p.at.offset,
         p.at.offset + p.size <= t.at.offset + t.size
  PROVE  Apart(q, p)
<1>1. CASE q.at.block # t.at.block
  BY <1>1 DEF Apart
<1>2. CASE q.at.offset + q.size <= t.at.offset
  <2>1. q.at.offset + q.size <= p.at.offset
    BY <1>2
  <2>2. QED
    BY <2>1 DEF Apart
<1>3. CASE t.at.offset + t.size <= q.at.offset
  <2>1. p.at.offset + p.size <= q.at.offset
    BY <1>3
  <2>2. QED
    BY <2>1 DEF Apart
<1>4. QED
  BY <1>1, <1>2, <1>3 DEF Apart

(* What is cut from the tail, after s bytes, and the rest are within it.   *)
LEMMA WithinTail ==
  ASSUME NEW o \in Nat, NEW r \in Nat, NEW s \in Nat, NEW b \in Nat, s + b <= r
  PROVE  /\ o <= o + s /\ (o + s) + b <= o + r
         /\ o <= o + (s + b) /\ (o + (s + b)) + (r - (s + b)) <= o + r
OBVIOUS

(* A part of a stretch that is inside its block is inside it.              *)
LEMMA PartInside ==
  ASSUME NEW bs, NEW q, NEW k, NEW o \in Nat, NEW r \in Nat,
         r > 0 => k \in 1..Len(bs) /\ o + r <= bs[k] /\ bs[k] \in Nat,
         q.at.block = k, q.at.offset \in Nat, q.size \in Nat,
         o <= q.at.offset, q.at.offset + q.size <= o + r, q.size > 0
  PROVE  InsideOf(q, bs)
<1>1. r > 0
  OBVIOUS
<1>2. QED
  BY <1>1 DEF InsideOf

(* A piece, with the slop before it, is cut from the tail.                 *)
LEMMA CutFromTail ==
  ASSUME IInv, NEW bytes \in Nat, NEW s \in Nat, s + bytes <= remaining,
         NEW isAligned \in BOOLEAN,
         pieces' = Append(pieces,
                     Piece([allocPtr EXCEPT !.offset = @ + s], bytes, isAligned)),
         allocPtr' = [allocPtr EXCEPT !.offset = @ + (s + bytes)],
         remaining' = remaining - (s + bytes),
         UNCHANGED <<blocks, usage>>
  PROVE  IInv'
<1> DEFINE p == Piece([allocPtr EXCEPT !.offset = @ + s], bytes, isAligned)
           t == Piece(allocPtr, remaining, FALSE)
           u == Piece(allocPtr', remaining', FALSE)
<1>1. TypeOK /\ KnownBlocks /\ PiecesDisjoint
  BY DEF IInv
<1>2. /\ remaining \in Nat /\ allocPtr.offset \in Nat /\ Len(blocks) \in Nat
      /\ allocPtr.block \in 0..Len(blocks)
  BY <1>1, Shapes
<1>a. /\ p = Piece(Address(allocPtr.block, allocPtr.offset + s), bytes, isAligned)
      /\ t = Piece(Address(allocPtr.block, allocPtr.offset), remaining, FALSE)
      /\ allocPtr' = Address(allocPtr.block, allocPtr.offset + (s + bytes))
  <2>1. s + bytes \in Nat
    OBVIOUS
  <2>2. allocPtr = Address(allocPtr.block, allocPtr.offset)
    BY <1>1 DEF TypeOK, Address
  <2>3. [allocPtr EXCEPT !.offset = @ + s] = Address(allocPtr.block, allocPtr.offset + s)
    BY <1>1, Moved
  <2>4. allocPtr' = Address(allocPtr.block, allocPtr.offset + (s + bytes))
    BY <1>1, <2>1, Moved
  <2> QED
    BY <2>2, <2>3, <2>4
<1>5. /\ allocPtr' \in [block : 0..Len(blocks'), offset : Nat]
      /\ remaining' \in Nat /\ remaining' = remaining - (s + bytes)
  <2>1. remaining' \in Nat /\ allocPtr.offset + (s + bytes) \in Nat
    BY <1>2
  <2>2. blocks' = blocks
    OBVIOUS
  <2>3. QED
    BY <1>2, <1>a, <2>1, <2>2 DEF Address
<1>b. u = Piece(Address(allocPtr.block, allocPtr.offset + (s + bytes)), remaining', FALSE)
  BY <1>a
<1>c. /\ allocPtr.block \in Nat /\ allocPtr.offset + s \in Nat
      /\ allocPtr.offset + (s + bytes) \in Nat
  BY <1>2
<1> HIDE DEF p, t, u
<1>3. /\ p \in [at : [block : Nat, offset : Nat], size : Nat, aligned : BOOLEAN]
      /\ p.at.block = allocPtr.block /\ p.at.offset = allocPtr.offset + s
      /\ p.size = bytes
  BY <1>a, <1>c, PieceIs
<1>4. /\ u.at.block = allocPtr.block /\ u.at.offset = allocPtr.offset + (s + bytes)
      /\ u.size = remaining - (s + bytes)
      /\ t.at.block = allocPtr.block /\ t.at.offset = allocPtr.offset /\ t.size = remaining
  <2>1. /\ u.at.block = allocPtr.block /\ u.at.offset = allocPtr.offset + (s + bytes)
        /\ u.size = remaining'
    BY <1>b DEF Piece, Address
  <2>2. t.at.block = allocPtr.block /\ t.at.offset = allocPtr.offset /\ t.size = remaining
    BY <1>a DEF Piece, Address
  <2>3. QED
    BY <2>1, <2>2, <1>5
<1>w. /\ allocPtr.offset <= allocPtr.offset + s
      /\ (allocPtr.offset + s) + bytes <= allocPtr.offset + remaining
      /\ allocPtr.offset <= allocPtr.offset + (s + bytes)
      /\ (allocPtr.offset + (s + bytes)) + (remaining - (s + bytes))
           <= allocPtr.offset + remaining
  BY <1>2, WithinTail
<1>6. ASSUME NEW i \in 1..Len(pieces)
      PROVE  Apart(pieces[i], p) /\ Apart(pieces[i], u)
  <2>1. Apart(pieces[i], t)
    BY <1>1 DEF PiecesDisjoint, t
  <2>2. /\ pieces[i].at.offset \in Nat /\ pieces[i].size \in Nat
    BY <1>1, Shapes
  <2>3. /\ t.at.offset \in Nat /\ t.size \in Nat
        /\ p.at.offset \in Nat /\ p.size \in Nat
        /\ u.at.offset \in Nat /\ u.size \in Nat
    BY <1>2, <1>3, <1>4, <1>5, <1>c
  <2>4. /\ t.at.offset <= p.at.offset /\ p.at.offset + p.size <= t.at.offset + t.size
        /\ t.at.offset <= u.at.offset /\ u.at.offset + u.size <= t.at.offset + t.size
    BY <1>3, <1>4, <1>w
  <2>5. Apart(pieces[i], p)
    BY <1>3, <1>4, <2>1, <2>2, <2>3, <2>4, PartApart
  <2>6. Apart(pieces[i], u)
    BY <1>4, <2>1, <2>2, <2>3, <2>4, PartApart
  <2>7. QED
    BY <2>5, <2>6
<1>7. Apart(p, u)
  BY <1>2, <1>3, <1>4 DEF Apart
<1>8. remaining > 0 =>
        /\ allocPtr.block \in 1..Len(blocks)
        /\ allocPtr.offset + remaining <= blocks[allocPtr.block]
        /\ blocks[allocPtr.block] \in Nat
  <2>1. remaining > 0 => Inside(t)
    BY <1>1 DEF PiecesDisjoint, t
  <2>2. QED
    BY <1>1, <1>4, <2>1, Shapes DEF Inside
<1>9. p.size > 0 => InsideOf(p, blocks')
  <2>1. p.at.offset \in Nat /\ p.size \in Nat
    BY <1>3
  <2>2. p.size > 0 => InsideOf(p, blocks)
    BY <1>2, <1>3, <1>8, <1>w, <2>1, PartInside
  <2>3. QED
    BY <2>2
<1>10. remaining' > 0 => InsideOf(u, blocks')
  <2>1. u.at.offset \in Nat /\ u.size \in Nat /\ u.size = remaining'
    BY <1>4, <1>5, <1>c
  <2>2. u.size > 0 => InsideOf(u, blocks)
    BY <1>2, <1>4, <1>8, <1>w, <2>1, PartInside
  <2>3. QED
    BY <2>1, <2>2
<1>11. /\ \A i \in 1..Len(pieces) : pieces[i].size > 0 => InsideOf(pieces[i], blocks')
       /\ \A i, j \in 1..Len(pieces) : i # j => Apart(pieces[i], pieces[j])
  BY <1>1 DEF PiecesDisjoint, Inside, InsideOf
<1>12. p.at.block <= Len(blocks') /\ blocks' \in Seq(Nat) /\ Len(blocks) <= Len(blocks')
  BY <1>1, <1>2, <1>3 DEF TypeOK
<1>13. TypeOK'
  <2>1. pieces' \in Seq([at : [block : Nat, offset : Nat], size : Nat, aligned : BOOLEAN])
    BY <1>1, <1>3 DEF TypeOK, p
  <2>2. QED
    BY <1>1, <1>5, <2>1 DEF TypeOK
<1>14. KnownBlocks' /\ PiecesDisjoint'
  BY <1>1, <1>3, <1>5, <1>6, <1>7, <1>9, <1>10, <1>11, <1>12, PieceAdded DEF p, u
<1>15. QED
  BY <1>13, <1>14 DEF IInv

(* A piece is the beginning of a new block, whose rest is the tail or not. *)
LEMMA CutFromBlock ==
  ASSUME IInv, NEW bytes \in Nat, NEW size \in Nat, bytes <= size,
         NEW isAligned \in BOOLEAN,
         AllocateNewBlock(size),
         pieces' = Append(pieces, Piece(NewBlock, bytes, isAligned)),
         \/ UNCHANGED <<allocPtr, remaining>>
         \/ allocPtr' = Address(Len(blocks) + 1, bytes) /\ remaining' = size - bytes
  PROVE  IInv'
<1> DEFINE p == Piece(NewBlock, bytes, isAligned)
           u == Piece(allocPtr', remaining', FALSE)
           n == Len(blocks)
<1>1. TypeOK /\ KnownBlocks /\ PiecesDisjoint
  BY DEF IInv
<1>2. /\ n \in Nat /\ blocks' \in Seq(Nat) /\ Len(blocks') = n + 1
      /\ blocks'[n + 1] = size /\ \A b \in 1..n : blocks'[b] = blocks[b]
  BY <1>1 DEF TypeOK, AllocateNewBlock
<1>3. /\ p \in [at : [block : Nat, offset : Nat], size : Nat, aligned : BOOLEAN]
      /\ p.at.block = n + 1 /\ p.at.offset = 0 /\ p.size = bytes
  BY <1>2 DEF Piece, NewBlock, Address
<1>4. ASSUME NEW i \in 1..Len(pieces)
      PROVE  /\ pieces[i].at.block \in Nat /\ pieces[i].at.block <= n
             /\ pieces[i].at.offset \in Nat /\ pieces[i].size \in Nat
             /\ pieces[i].size > 0 => InsideOf(pieces[i], blocks')
  <2>1. pieces[i].at.block <= n /\ pieces[i].size > 0 => Inside(pieces[i])
    BY <1>1 DEF KnownBlocks, PiecesDisjoint
  <2>2. /\ pieces[i].at.block \in Nat /\ pieces[i].at.offset \in Nat
        /\ pieces[i].size \in Nat
    BY <1>1, Shapes
  <2>3. pieces[i].at.block <= n
    BY <1>1 DEF KnownBlocks
  <2>4. QED
    BY <1>2, <2>1, <2>2, <2>3 DEF Inside, InsideOf
<1>5. /\ \A i \in 1..Len(pieces) : Apart(pieces[i], p)
      /\ \A i, j \in 1..Len(pieces) : i # j => Apart(pieces[i], pieces[j])
  <2>1. \A i \in 1..Len(pieces) : pieces[i].at.block # p.at.block
    BY <1>2, <1>3, <1>4
  <2>2. QED
    BY <1>1, <2>1 DEF PiecesDisjoint, Apart
<1>6. p.size > 0 => InsideOf(p, blocks')
  BY <1>2, <1>3 DEF InsideOf
<1>7. /\ allocPtr' \in [block : 0..Len(blocks'), offset : Nat] /\ remaining' \in Nat
      /\ \A i \in 1..Len(pieces) : Apart(pieces[i], u)
      /\ Apart(p, u)
      /\ remaining' > 0 => InsideOf(u, blocks')
  <2>1. CASE UNCHANGED <<allocPtr, remaining>>
    <3>a. allocPtr \in [block : 0..n, offset : Nat] /\ remaining \in Nat
      BY <1>1 DEF TypeOK
    <3>b. u = Piece(allocPtr, remaining, FALSE)
      BY <2>1
    <3>1. u.at.block = allocPtr.block /\ allocPtr.block \in 0..n
      BY <3>a, <3>b DEF Piece
    <3> HIDE DEF p, u
    <3>2. \A i \in 1..Len(pieces) : Apart(pieces[i], u)
      BY <1>1, <3>b DEF PiecesDisjoint
    <3>3. Apart(p, u)
      BY <1>2, <1>3, <3>1 DEF Apart
    <3>4. remaining > 0 => Inside(u)
      BY <1>1, <3>b DEF PiecesDisjoint
    <3>5. remaining' > 0 => InsideOf(u, blocks')
      BY <1>2, <2>1, <3>4 DEF Inside, InsideOf
    <3>6. allocPtr' \in [block : 0..Len(blocks'), offset : Nat] /\ remaining' \in Nat
      <4>1. 0..n \subseteq 0..Len(blocks')
        BY <1>2
      <4>2. QED
        BY <2>1, <3>a, <4>1
    <3>7. QED
      BY <3>2, <3>3, <3>5, <3>6
  <2>2. CASE allocPtr' = Address(n + 1, bytes) /\ remaining' = size - bytes
    <3>1. n + 1 \in Nat /\ size - bytes \in Nat
      BY <1>2
    <3>2. u = Piece(Address(n + 1, bytes), size - bytes, FALSE)
      BY <2>2
    <3>3. allocPtr' \in [block : 0..Len(blocks'), offset : Nat] /\ remaining' \in Nat
      BY <1>2, <2>2, <3>1 DEF Address
    <3> HIDE DEF p, u
    <3>4. u.at.block = n + 1 /\ u.at.offset = bytes /\ u.size = size - bytes
      BY <3>2 DEF Piece, Address
    <3>5. \A i \in 1..Len(pieces) : pieces[i].at.block # u.at.block
      BY <1>2, <1>4, <3>4
    <3>6. Apart(p, u) /\ InsideOf(u, blocks')
      BY <1>2, <1>3, <3>4 DEF Apart, InsideOf
    <3>7. QED
      BY <3>3, <3>5, <3>6 DEF Apart
  <2>3. QED
    BY <2>1, <2>2
<1>8. TypeOK'
  <2>1. pieces' \in Seq([at : [block : Nat, offset : Nat], size : Nat, aligned : BOOLEAN])
    BY <1>1, <1>3 DEF TypeOK
  <2>2. usage' \in Nat
    BY <1>1, ArenaAssumption DEF AllocateNewBlock, TypeOK
  <2>3. QED
    BY <1>2, <1>7, <2>1, <2>2 DEF TypeOK
<1> HIDE DEF p, u
<1>9. p.at.block <= Len(blocks') /\ Len(blocks) <= Len(blocks')
  BY <1>2, <1>3
<1>10. KnownBlocks' /\ PiecesDisjoint'
  BY <1>1, <1>2, <1>3, <1>4, <1>5, <1>6, <1>7, <1>9, PieceAdded DEF p, u
<1>11. QED
  BY <1>8, <1>10 DEF IInv

-----------------------------------------------------------------------------
(* Allocate finds room in the tail.                                        *)
LEMMA FitIInv == ASSUME IInv, NEW bytes \in Nat, Fit(bytes) PROVE IInv'
<1>1. TypeOK
  BY DEF IInv
<1>2. allocPtr = [allocPtr EXCEPT !.offset = @ + 0]
  BY <1>1 DEF TypeOK
<1>3. 0 + bytes = bytes /\ bytes <= remaining
  BY DEF Fit
<1>4. QED
  BY <1>2, <1>3, CutFromTail DEF Fit, Return, Advance

(* AllocateAligned does, behind the slop.                                  *)
LEMMA FitAlignedIInv == ASSUME IInv, NEW bytes \in Nat, FitAligned(bytes) PROVE IInv'
<1>1. Slop \in Nat
  BY SlopIs, ArenaAssumption DEF IInv
<1>2. QED
  BY <1>1, CutFromTail DEF FitAligned, Return, Advance

(* There is no room and a new block is taken.                              *)
LEMMA FallbackIInv ==
  ASSUME IInv, NEW bytes \in Nat, NEW isAligned \in BOOLEAN,
         AllocateFallback(bytes, isAligned)
  PROVE  IInv'
<1>1. CASE OwnBlock(bytes, isAligned)
  BY <1>1, CutFromBlock DEF OwnBlock, Return
<1>2. CASE NextBlock(bytes, isAligned)
  <2>1. kBlockSize \in Nat /\ bytes <= kBlockSize
    BY <1>2, ArenaAssumption DEF NextBlock
  <2>2. QED
    BY <1>2, <2>1, CutFromBlock DEF NextBlock, Return
<1>3. QED
  BY <1>1, <1>2 DEF AllocateFallback

(* A step leaves the pieces and the tail as IInv has them.                 *)
LEMMA NextIInv == IInv /\ [Next]_vars => IInv'
<1> SUFFICES ASSUME IInv, [Next]_vars PROVE IInv'
  OBVIOUS
<1>1. CASE UNCHANGED vars
  BY <1>1 DEF vars, IInv, TypeOK, KnownBlocks, PiecesDisjoint, Inside, Apart, Piece
<1>2. ASSUME NEW bytes \in Sizes, Allocate(bytes) PROVE IInv'
  <2>1. bytes \in Nat /\ FALSE \in BOOLEAN
    BY ArenaAssumption
  <2>2. CASE Fit(bytes)
    BY <2>1, <2>2, FitIInv
  <2>3. CASE AllocateFallback(bytes, FALSE)
    BY <2>1, <2>3, FallbackIInv
  <2>4. QED
    BY <1>2, <2>2, <2>3 DEF Allocate
<1>3. ASSUME NEW bytes \in Sizes, AllocateAligned(bytes) PROVE IInv'
  <2>1. bytes \in Nat /\ TRUE \in BOOLEAN
    BY ArenaAssumption
  <2>2. CASE FitAligned(bytes)
    BY <2>1, <2>2, FitAlignedIInv
  <2>3. CASE AllocateFallback(bytes, TRUE)
    BY <2>1, <2>3, FallbackIInv
  <2>4. QED
    BY <1>3, <2>2, <2>3 DEF AllocateAligned
<1>4. QED
  BY <1>1, <1>2, <1>3 DEF Next

(* No two pieces share a byte, every piece is inside a block of the arena, *)
(* and so is the tail from which the next piece will be cut (Arena::       *)
(* Allocate, AllocateAligned, AllocateFallback).                           *)
THEOREM Disjoint == Spec => []PiecesDisjoint
<1>1. IInv => PiecesDisjoint
  BY DEF IInv
<1>2. QED
  BY <1>1, InitIInv, NextIInv, PTL DEF Spec

(* The members of Arena and the pieces keep their shapes: above all,       *)
(* alloc_bytes_remaining_ never wraps below 0.                             *)
THEOREM TypeCorrect == Spec => []TypeOK
<1>1. IInv => TypeOK
  BY DEF IInv
<1>2. QED
  BY <1>1, InitIInv, NextIInv, PTL DEF Spec

-----------------------------------------------------------------------------
(* The tail is given up for a new block only when it is short.             *)
LEMMA GivenUp ==
  ASSUME IInv, NEW bytes \in Nat, NEW s \in 0..kAlign, s + bytes > remaining,
         NEW isAligned \in BOOLEAN, AllocateFallback(bytes, isAligned)
  PROVE  allocPtr' = allocPtr \/ 4 * remaining < kBlockSize + 4 * kAlign
<1>1. remaining \in Nat /\ kBlockSize \in Nat /\ kAlign \in Nat /\ s \in Nat /\ s <= kAlign
  BY ArenaAssumption DEF IInv, TypeOK
<1>2. CASE OwnBlock(bytes, isAligned)
  BY <1>2 DEF OwnBlock
<1>3. CASE NextBlock(bytes, isAligned)
  <2>1. bytes <= kBlockSize \div 4
    BY <1>3 DEF NextBlock
  <2>2. 4 * (kBlockSize \div 4) <= kBlockSize /\ kBlockSize \div 4 \in Nat
    BY <1>1
  <2>3. QED
    BY <1>1, <2>1, <2>2
<1>4. QED
  BY <1>2, <1>3 DEF AllocateFallback

(* Fewer bytes than a quarter of a block and an alignment are ever left    *)
(* over at the end of a block (Arena::AllocateFallback).                   *)
THEOREM Waste == Spec => LittleWaste
<1> DEFINE Little == allocPtr.block # 0 /\ allocPtr'.block # allocPtr.block
                       => 4 * remaining < kBlockSize + 4 * kAlign
<1>1. ASSUME IInv, Next PROVE Little
  <2>1. TypeOK
    BY <1>1 DEF IInv
  <2>2. PICK bytes \in Sizes : Allocate(bytes) \/ AllocateAligned(bytes)
    BY <1>1 DEF Next
  <2>3. /\ bytes \in Nat /\ FALSE \in BOOLEAN /\ TRUE \in BOOLEAN
        /\ 0 \in 0..kAlign /\ 0 + bytes = bytes
    BY ArenaAssumption
  <2>4. Slop \in 0..kAlign
    BY <2>1, SlopIs
  <2>5. ASSUME NEW n \in Nat, Advance(n) PROVE allocPtr'.block = allocPtr.block
    BY <2>1, <2>5 DEF Advance, TypeOK
  <2>6. CASE Fit(bytes)
    BY <2>3, <2>5, <2>6 DEF Fit
  <2>7. CASE FitAligned(bytes)
    <3>1. Slop + bytes \in Nat
      BY <2>3, <2>4, ArenaAssumption
    <3>2. QED
      BY <2>5, <2>7, <3>1 DEF FitAligned
  <2>8. CASE bytes > remaining /\ AllocateFallback(bytes, FALSE)
    BY <1>1, <2>3, <2>8, GivenUp
  <2>9. CASE Slop + bytes > remaining /\ AllocateFallback(bytes, TRUE)
    BY <1>1, <2>3, <2>4, <2>9, GivenUp
  <2>10. QED
    BY <2>2, <2>6, <2>7, <2>8, <2>9 DEF Allocate, AllocateAligned
<1>2. IInv /\ [Next]_vars => [Little]_vars
  BY <1>1
<1>3. QED
  BY <1>2, InitIInv, NextIInv, PTL DEF Spec, LittleWaste

-----------------------------------------------------------------------------
(* The next address behind the slop is aligned.                            *)
LEMMA SlopAligns ==
  ASSUME TypeOK
  PROVE  (allocPtr.offset + Slop) % kAlign = 0
<1>1. allocPtr.offset \in Nat /\ kAlign \in Nat \ {0}
  BY ArenaAssumption DEF TypeOK
<1>2. CASE allocPtr.offset % kAlign = 0
  BY <1>1, <1>2 DEF Slop
<1>3. CASE allocPtr.offset % kAlign # 0
  <2> DEFINE a == allocPtr.offset
             k == kAlign
  <2>1. Slop = k - (a % k)
    BY <1>3 DEF Slop
  <2> HIDE DEF a, k
  <2>2. a \in Nat /\ k \in Nat \ {0}
    BY <1>1 DEF a, k
  <2>3. (a + (k - (a % k))) % k = 0
    BY <2>2, SMT
  <2>4. QED
    BY <2>1, <2>3 DEF a, k
<1>4. QED
  BY <1>2, <1>3

(* A piece is added that is aligned if it is said to be.                   *)
LEMMA AlignedAdded ==
  ASSUME TypeOK, AlignedPieces, NEW p \in [block : Nat, offset : Nat], NEW bytes \in Nat,
         NEW isAligned \in BOOLEAN, Return(p, bytes, isAligned),
         isAligned => p.offset % kAlign = 0
  PROVE  AlignedPieces'
<1> DEFINE q == Piece(p, bytes, isAligned)
           Shape == [at : [block : Nat, offset : Nat], size : Nat, aligned : BOOLEAN]
<1>1. q \in Shape /\ q.at = p /\ q.aligned = isAligned
  BY DEF Piece
<1>2. pieces \in Seq(Shape) /\ pieces' = Append(pieces, q) /\ Len(pieces) \in Nat
  BY DEF TypeOK, Return
<1> HIDE DEF q, Shape
<1>3. /\ Len(pieces') = Len(pieces) + 1 /\ pieces'[Len(pieces) + 1] = q
      /\ \A i \in 1..Len(pieces) : pieces'[i] = pieces[i]
  BY <1>1, <1>2, AppendProperties
<1>4. ASSUME NEW i \in 1..Len(pieces'), pieces'[i].aligned
      PROVE  pieces'[i].at.offset % kAlign = 0
  <2>1. i = Len(pieces) + 1 \/ i \in 1..Len(pieces)
    BY <1>2, <1>3
  <2>2. CASE i = Len(pieces) + 1
    BY <1>1, <1>3, <1>4, <2>2
  <2>3. CASE i \in 1..Len(pieces)
    BY <1>3, <1>4, <2>3 DEF AlignedPieces
  <2>4. QED
    BY <2>1, <2>2, <2>3
<1>5. QED
  BY <1>4 DEF AlignedPieces

(* A block of its own and a new block both begin at an aligned address.    *)
LEMMA FallbackAligned ==
  ASSUME TypeOK, AlignedPieces, NEW bytes \in Nat, NEW isAligned \in BOOLEAN,
         AllocateFallback(bytes, isAligned)
  PROVE  AlignedPieces'
<1>1. NewBlock \in [block : Nat, offset : Nat] /\ NewBlock.offset = 0
  BY DEF TypeOK, NewBlock, Address
<1>2. 0 % kAlign = 0
  BY ArenaAssumption
<1>3. Return(NewBlock, bytes, isAligned)
  BY DEF AllocateFallback, OwnBlock, NextBlock
<1>4. QED
  BY <1>1, <1>2, <1>3, AlignedAdded

(* AllocateAligned returns aligned addresses only, for any alignment: what *)
(* Arena.h:78 asserts, of the pieces of AllocateFallback, too.             *)
THEOREM Aligned == Spec => []AlignedPieces
<1>1. Init => AlignedPieces
  BY DEF Init, AlignedPieces
<1>2. ASSUME TypeOK, AlignedPieces, NEW bytes \in Sizes, Allocate(bytes)
      PROVE  AlignedPieces'
  <2>1. bytes \in Nat /\ allocPtr \in [block : Nat, offset : Nat]
    BY <1>2, ArenaAssumption DEF TypeOK
  <2> PICK isAligned : isAligned = FALSE
    OBVIOUS
  <2>2. isAligned \in BOOLEAN /\ ~isAligned
    OBVIOUS
  <2>3. CASE Fit(bytes)
    <3>1. Return(allocPtr, bytes, isAligned)
      BY <2>3 DEF Fit
    <3>2. QED
      BY <1>2, <2>1, <2>2, <3>1, AlignedAdded
  <2>4. CASE AllocateFallback(bytes, isAligned)
    BY <1>2, <2>1, <2>2, <2>4, FallbackAligned
  <2>5. QED
    BY <1>2, <2>3, <2>4 DEF Allocate
<1>3. ASSUME TypeOK, AlignedPieces, NEW bytes \in Sizes, AllocateAligned(bytes)
      PROVE  AlignedPieces'
  <2>1. bytes \in Nat /\ TRUE \in BOOLEAN
    BY ArenaAssumption
  <2>2. CASE FitAligned(bytes)
    <3> DEFINE p == [allocPtr EXCEPT !.offset = @ + Slop]
    <3>1. Return(p, bytes, TRUE)
      BY <2>2 DEF FitAligned
    <3>2. Slop \in Nat
      BY <1>3, SlopIs, ArenaAssumption
    <3>3. p \in [block : Nat, offset : Nat] /\ p.offset = allocPtr.offset + Slop
      <4>1. allocPtr \in [block : Nat, offset : Nat]
        BY <1>3 DEF TypeOK
      <4> HIDE DEF TypeOK
      <4>2. QED
        BY <3>2, <4>1
    <3> HIDE DEF p
    <3>4. p.offset % kAlign = 0
      BY <1>3, <3>3, SlopAligns
    <3>5. QED
      BY <1>3, <2>1, <3>1, <3>3, <3>4, AlignedAdded
  <2>3. CASE AllocateFallback(bytes, TRUE)
    BY <1>3, <2>1, <2>3, FallbackAligned
  <2>4. QED
    BY <1>3, <2>2, <2>3 DEF AllocateAligned
<1>4. TypeOK /\ AlignedPieces /\ [Next]_vars => AlignedPieces'
  BY <1>2, <1>3 DEF Next, vars, AlignedPieces
<1>5. QED
  BY <1>1, <1>4, TypeCorrect, PTL DEF Spec

-----------------------------------------------------------------------------
(* f has the sums of the first blocks of bs and of their entries.          *)
Sums(f, bs) ==
  /\ f[0] = 0
  /\ \A n \in 1..Len(bs) : f[n] = f[n - 1] + bs[n] + kPointer

(* A set of natural numbers has a least member.                            *)
LEMMA Least ==
  ASSUME NEW T \in SUBSET Nat, T # {}
  PROVE  \E n \in T : \A m \in T : n <= m
<1> DEFINE R == {ss \in Nat \X Nat : ss[1] < ss[2]}
<1>1. IsWellFoundedOn(R, Nat)
  <2>1. OpToRel(<, Nat) = R
    BY DEF OpToRel
  <2>2. QED
    BY <2>1, NatLessThanWellFounded
<1>2. \E n \in T : \A m \in T : ~(<<m, n>> \in R)
  <2> HIDE DEF R
  <2>1. QED
    BY <1>1, WFMin
<1>3. PICK n \in T : \A m \in T : ~(<<m, n>> \in R)
  BY <1>2
<1>4. ASSUME NEW m \in T PROVE n <= m
  <2>1. <<m, n>> \in Nat \X Nat
    OBVIOUS
  <2>2. m < n => <<m, n>> \in R
    BY <2>1
  <2>3. QED
    BY <1>3, <2>2
<1>5. QED
  BY <1>4

(* Sums are unique: where two differed first, they would be equal.         *)
LEMMA SumsUnique ==
  ASSUME NEW bs \in Seq(Nat), NEW f, NEW g, Sums(f, bs), Sums(g, bs)
  PROVE  f[Len(bs)] = g[Len(bs)]
<1> DEFINE T == {n \in 0..Len(bs) : f[n] # g[n]}
<1>1. Len(bs) \in Nat /\ T \in SUBSET Nat
  OBVIOUS
<1>2. ASSUME T # {} PROVE FALSE
  <2>1. PICK n \in T : \A m \in T : n <= m
    <3> HIDE DEF T
    <3>1. QED
      BY <1>1, <1>2, Least
  <2>2. n \in 0..Len(bs) /\ f[n] # g[n]
    BY <2>1
  <2>3. n # 0
    BY <2>2 DEF Sums
  <2>4. n \in 1..Len(bs) /\ n - 1 \in 0..Len(bs) /\ ~(n <= n - 1)
    BY <1>1, <2>2, <2>3
  <2>5. f[n - 1] = g[n - 1]
    BY <2>1, <2>4
  <2>6. f[n] = f[n - 1] + bs[n] + kPointer /\ g[n] = g[n - 1] + bs[n] + kPointer
    BY <2>4 DEF Sums
  <2>7. QED
    BY <2>2, <2>5, <2>6
<1>3. QED
  BY <1>1, <1>2

(* memory_usage_ is such a sum.                                            *)
UsageInv == \E f \in [0..Len(blocks) -> Nat] : Sums(f, blocks) /\ f[Len(blocks)] = usage

(* It is the one that UsageExact speaks of.                                *)
LEMMA UsageIsTotal ==
  ASSUME TypeOK, UsageInv
  PROVE  UsageExact
<1> DEFINE N == 0..Len(blocks)
           Body(g) == [n \in N |-> IF n = 0 THEN 0 ELSE g[n - 1] + blocks[n] + kPointer]
<1>1. PICK f \in [N -> Nat] : Sums(f, blocks) /\ f[Len(blocks)] = usage
  BY DEF UsageInv
<1>2. blocks \in Seq(Nat) /\ Len(blocks) \in Nat
  BY DEF TypeOK
<1>3. \A n \in N : n = 0 \/ n \in 1..Len(blocks)
  BY <1>2
<1>4. f = Body(f)
  <2>1. \A n \in N : f[n] = IF n = 0 THEN 0 ELSE f[n - 1] + blocks[n] + kPointer
    BY <1>1, <1>3 DEF Sums
  <2>2. f = [n \in N |-> f[n]]
    OBVIOUS
  <2>3. QED
    BY <2>1, <2>2
<1>5. Total = CHOOSE g : g = Body(g)
  BY DEF Total
<1> HIDE DEF Body
<1>6. Total = Body(Total)
  BY <1>4, <1>5
<1>7. Sums(Total, blocks)
  <2>1. /\ 0 \in N
        /\ \A n \in 1..Len(blocks) : n \in N /\ n # 0
    BY <1>2
  <2>2. \A n \in N : Total[n] = IF n = 0 THEN 0 ELSE Total[n - 1] + blocks[n] + kPointer
    BY <1>6 DEF Body
  <2>3. QED
    BY <2>1, <2>2 DEF Sums
<1>8. QED
  BY <1>1, <1>2, <1>7, SumsUnique DEF UsageExact

(* A new block is counted with its entry.                                  *)
LEMMA BlockCounted ==
  ASSUME TypeOK, UsageInv, NEW bytes \in Nat, AllocateNewBlock(bytes)
  PROVE  UsageInv'
<1> DEFINE L == Len(blocks)
<1>1. PICK f \in [0..L -> Nat] : Sums(f, blocks) /\ f[L] = usage
  BY DEF UsageInv
<1>2. /\ blocks' = Append(blocks, bytes) /\ usage' = usage + bytes + kPointer
      /\ blocks \in Seq(Nat) /\ L \in Nat /\ usage \in Nat /\ kPointer \in Nat
  BY ArenaAssumption DEF AllocateNewBlock, TypeOK
<1>3. /\ Len(blocks') = L + 1 /\ blocks'[L + 1] = bytes
      /\ \A n \in 1..L : blocks'[n] = blocks[n]
  BY <1>2, AppendProperties
<1> DEFINE g == [n \in 0..(L + 1) |-> IF n = L + 1 THEN usage' ELSE f[n]]
<1>4. \A n \in 0..(L + 1) : n # L + 1 => n \in 0..L
  BY <1>2
<1>5. usage' \in Nat
  BY <1>2
<1>6. g \in [0..(L + 1) -> Nat]
  BY <1>1, <1>4, <1>5
<1>7. g[L + 1] = usage'
  BY <1>2
<1>8. \A n \in 0..L : g[n] = f[n]
  BY <1>2
<1> HIDE DEF g
<1>9. Sums(g, blocks')
  <2>1. g[0] = 0
    BY <1>1, <1>2, <1>8 DEF Sums
  <2>2. ASSUME NEW n \in 1..(L + 1) PROVE g[n] = g[n - 1] + blocks'[n] + kPointer
    <3>1. CASE n = L + 1
      <4>1. n - 1 = L /\ L \in 0..L
        BY <1>2, <3>1
      <4>2. QED
        BY <1>1, <1>2, <1>3, <1>7, <1>8, <3>1, <4>1
    <3>2. CASE n # L + 1
      <4>1. n \in 1..L /\ n \in 0..L /\ n - 1 \in 0..L
        BY <1>2, <3>2
      <4>2. QED
        BY <1>1, <1>3, <1>8, <4>1 DEF Sums
    <3>3. QED
      BY <3>1, <3>2
  <2>3. QED
    BY <1>3, <2>1, <2>2 DEF Sums
<1>10. QED
  BY <1>3, <1>6, <1>7, <1>9 DEF UsageInv

(* MemoryUsage() is the sum of all blocks and of their entries in blocks_, *)
(* after any number of calls (AllocateNewBlock is the only one to count).  *)
THEOREM UsageCorrect == Spec => []UsageExact
<1>1. Init => UsageInv
  <2> SUFFICES ASSUME Init PROVE UsageInv
    OBVIOUS
  <2> DEFINE f == [n \in 0..0 |-> 0]
  <2>1. blocks = <<>> /\ Len(blocks) = 0 /\ usage = 0
    BY DEF Init
  <2>2. f \in [0..Len(blocks) -> Nat] /\ f[0] = 0
    BY <2>1
  <2> HIDE DEF f
  <2>3. Sums(f, blocks)
    BY <2>1, <2>2 DEF Sums
  <2>4. QED
    BY <2>1, <2>2, <2>3 DEF UsageInv
<1>2. ASSUME UsageInv, UNCHANGED <<blocks, usage>> PROVE UsageInv'
  BY <1>2 DEF UsageInv
<1>3. ASSUME TypeOK, UsageInv, NEW bytes \in Nat, NEW isAligned,
             AllocateFallback(bytes, isAligned)
      PROVE  UsageInv'
  <2>1. AllocateNewBlock(bytes) \/ AllocateNewBlock(kBlockSize)
    BY <1>3 DEF AllocateFallback, OwnBlock, NextBlock
  <2>2. QED
    BY <1>3, <2>1, BlockCounted, ArenaAssumption
<1>4. ASSUME TypeOK, UsageInv, NEW bytes \in Sizes, Allocate(bytes) \/ AllocateAligned(bytes)
      PROVE  UsageInv'
  <2>1. bytes \in Nat
    BY ArenaAssumption
  <2>2. QED
    BY <1>2, <1>3, <1>4, <2>1 DEF Allocate, AllocateAligned, Fit, FitAligned
<1>5. TypeOK /\ UsageInv /\ [Next]_vars => UsageInv'
  BY <1>2, <1>4 DEF Next, vars
<1>6. QED
  BY <1>1, <1>5, TypeCorrect, UsageIsTotal, PTL DEF Spec
=============================================================================
