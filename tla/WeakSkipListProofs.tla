------------------------- MODULE WeakSkipListProofs -------------------------
(***************************************************************************)
(* Proofs about a WeakSkipList, for any keys, readers and heights: that no *)
(* reader depends on raw memory, and that what a reader has found, its     *)
(* later searches find again.                                              *)
(*                                                                         *)
(* For the first, what a store promises travels with it: whoever finds     *)
(* node k in a slot of level l, and has seen everything up to that store,  *)
(* has seen k's key and k's own first stores on the levels up to l.        *)
(*                                                                         *)
(* For the second, the stores to level 0 are ordered in time: as soon as   *)
(* two nodes are both in the list, the slot of the first has a store that  *)
(* leads not past the second, and later stores to it lead less far still.  *)
(***************************************************************************)
EXTENDS WeakSkipList, SequenceTheorems, FiniteSetTheorems, WellFoundedInduction, TLAPS

(* By time t, in memory s with keys stored at the times b, node k can be   *)
(* compared with and its slots can be read from level l down.              *)
ReadyIn(s, b, k, l, t) ==
  /\ b[k] \in 1..t
  /\ \A j \in 0..l : Len(s[k][j]) >= 2 /\ s[k][j][2].time <= t

Ready(k, l, t) == ReadyIn(slot, born, k, l, t)

Stores == [time : Nat, node : Keys \cup {NULL, Uninit}, release : BOOLEAN]

TypeInv ==
  /\ now \in Nat
  /\ slot \in [Nodes -> [Levels -> Seq(Stores)]]
  /\ born \in [Keys -> Nat]
  /\ stage \in {"idle", "found", "own", "publish"}
  /\ rung \in 0..(Height - 1)
  /\ inserted \in Seq(Keys)
  /\ pc \in [Readers -> {"idle", "load", "compare"}]
  /\ x \in [Readers -> Nodes]
  /\ level \in [Readers -> Levels]
  /\ next \in [Readers -> Keys \cup {NULL, Uninit}]
  /\ seen \in [Readers -> Nat]

(* The i-th store to slot l of node n.  Only a slot's first value is raw,  *)
(* and only a node's own first store to it, after that, is not a release.  *)
MessageIn(s, b, n, l, i, u) ==
  /\ s[n][l][i].time <= u
  /\ s[n][l][i].node = Uninit => n \in Keys /\ i = 1
  /\ s[n][l][i].node \in Keys => i # 1 /\ ReadyIn(s, b, s[n][l][i].node, l, s[n][l][i].time)
  /\ ~s[n][l][i].release => i = 1 \/ (n \in Keys /\ i = 2)

MessageInv ==
  \A n \in Nodes, l \in Levels :
    /\ Len(slot[n][l]) >= 1
    /\ \A i \in 1..Len(slot[n][l]) : MessageIn(slot, born, n, l, i, now)

Inserted(k) == \E i \in 1..Len(inserted) : inserted[i] = k

Fresh(k) == born[k] = 0 /\ \A l \in Levels : Len(slot[k][l]) = 1

(* The writer has stored to its node's slots up to rung, in order.         *)
WriterInv ==
  /\ \A k \in Keys : ~Inserted(k) => Fresh(k)
  /\ stage # "idle" => new \in Keys /\ Inserted(new)
  /\ stage \in {"idle", "found"} => rung = 0
  /\ stage = "found" => Fresh(new)
  /\ stage \in {"own", "publish"} =>
       /\ born[new] \in 1..now
       /\ \A l \in Levels :
            IF l < rung \/ (l = rung /\ stage = "publish")
            THEN Len(slot[new][l]) >= 2
            ELSE Len(slot[new][l]) = 1

ReaderInv ==
  \A r \in Readers :
    /\ x[r] \in Keys => Ready(x[r], level[r], seen[r])
    /\ pc[r] = "compare" /\ next[r] # NULL =>
         next[r] \in Keys /\ Ready(next[r], level[r], seen[r])

IInv == TypeInv /\ MessageInv /\ WriterInv /\ ReaderInv

-----------------------------------------------------------------------------
(* Constants.                                                              *)
LEMMA ConstantFacts ==
  /\ Keys \subseteq Int /\ head \notin Keys /\ head \in Nodes /\ Keys \subseteq Nodes
  /\ NULL \notin Keys /\ Uninit \notin Keys /\ NULL # Uninit
  /\ Height \in Nat /\ Height >= 1 /\ kMaxHeight \in Nat
  /\ Levels \subseteq Nat /\ Levels \subseteq Int
  /\ \A h \in 0..(Height - 1) : h \in Levels
  /\ \A l \in Levels : \A j \in 0..l : j \in Levels
BY WeakSkipListAssumption DEF Nodes, Levels

(* A set of natural numbers has a least member.                            *)
LEMMA Least ==
  ASSUME NEW T \in SUBSET Nat, T # {}
  PROVE  \E n \in T : \A m \in T : n <= m
<1> DEFINE R == {ss \in Nat \X Nat : ss[1] < ss[2]}
<1>1. IsWellFoundedOn(R, Nat)
  <2>1. OpToRel(<, Nat) = R
    BY DEF OpToRel
  <2>2. QED
    BY <2>1, NatLessThanWellFounded
<1>2. \E n \in T : \A m \in T : ~(<<m, n>> \in R)
  <2> HIDE DEF R
  <2>1. QED
    BY <1>1, WFMin
<1>3. PICK n \in T : \A m \in T : ~(<<m, n>> \in R)
  BY <1>2
<1>4. ASSUME NEW m \in T PROVE n <= m
  <2>1. <<m, n>> \in Nat \X Nat
    OBVIOUS
  <2>2. m < n => <<m, n>> \in R
    BY <2>1
  <2>3. QED
    BY <1>3, <2>2
<1>5. QED
  BY <1>4

(* What is ready stays ready, later and when more has been stored.         *)
LEMMA ReadyStays ==
  ASSUME NEW s, NEW s2, NEW b, NEW b2, NEW k \in Keys, NEW l \in Levels,
         NEW t \in Nat, NEW u \in Nat, t <= u,
         ReadyIn(s, b, k, l, t),
         \A j \in Levels : Len(s[k][j]) >= 2 =>
           Len(s2[k][j]) >= 2 /\ s2[k][j][2] = s[k][j][2],
         \A j \in Levels : Len(s[k][j]) >= 2 => s[k][j][2].time \in Nat,
         b[k] # 0 => b2[k] = b[k]
  PROVE  ReadyIn(s2, b2, k, l, u)
<1>1. b2[k] \in 1..u
  BY DEF ReadyIn
<1>2. ASSUME NEW j \in 0..l PROVE Len(s2[k][j]) >= 2 /\ s2[k][j][2].time <= u
  <2>1. j \in Levels /\ Len(s[k][j]) >= 2 /\ s[k][j][2].time <= t
    BY ConstantFacts DEF ReadyIn
  <2>2. Len(s2[k][j]) >= 2 /\ s2[k][j][2] = s[k][j][2] /\ s[k][j][2].time \in Nat
    BY <2>1
  <2>3. s[k][j][2].time <= u
    BY <2>1, <2>2
  <2>4. QED
    BY <2>2, <2>3
<1>3. QED
  BY <1>1, <1>2 DEF ReadyIn

(* The stores to a slot.                                                   *)
LEMMA StoresTyped ==
  ASSUME TypeInv, NEW n \in Nodes, NEW l \in Levels
  PROVE  /\ slot[n][l] \in Seq(Stores) /\ Len(slot[n][l]) \in Nat
         /\ \A i \in 1..Len(slot[n][l]) :
              /\ slot[n][l][i] \in Stores
              /\ slot[n][l][i].time \in Nat
              /\ slot[n][l][i].node \in Keys \cup {NULL, Uninit}
              /\ slot[n][l][i].release \in BOOLEAN
         /\ Len(slot[n][l]) >= 2 => slot[n][l][2].time \in Nat
<1>1. slot[n][l] \in Seq(Stores) /\ Len(slot[n][l]) \in Nat
  BY DEF TypeInv
<1>2. ASSUME NEW i \in 1..Len(slot[n][l])
      PROVE  /\ slot[n][l][i] \in Stores
             /\ slot[n][l][i].time \in Nat
             /\ slot[n][l][i].node \in Keys \cup {NULL, Uninit}
             /\ slot[n][l][i].release \in BOOLEAN
  <2>1. slot[n][l][i] \in Stores
    BY <1>1
  <2>2. QED
    BY <2>1 DEF Stores
<1>3. QED
  BY <1>1, <1>2

(* Prev is what it is said to be: the last linked node before the key.     *)
LEMMA PrevIsLast ==
  ASSUME new \in Keys, NEW l \in Levels
  PROVE  \/ Prev(l) = head /\ \A k \in Linked(l) : ~(k < new)
         \/ /\ Prev(l) \in Linked(l) /\ Prev(l) \in Keys /\ Prev(l) < new
            /\ \A k \in Linked(l) : k < new => k <= Prev(l)
<1> DEFINE before == {k \in Linked(l) : k < new}
           Last(k) == \A j \in before : j <= k
<1>1. CASE before = {}
  <2>1. Prev(l) = head
    BY <1>1 DEF Prev
  <2>2. QED
    BY <1>1, <2>1
<1>2. CASE before # {}
  <2> DEFINE T == {new - k : k \in before}
  <2>1. before \subseteq Keys /\ before \subseteq Int /\ new \in Int
    BY ConstantFacts DEF Linked
  <2>2. T \in SUBSET Nat /\ T # {}
    BY <1>2, <2>1
  <2>3. PICK d \in T : \A e \in T : d <= e
    <3> HIDE DEF T
    <3>1. QED
      BY <2>2, Least
  <2>4. PICK k \in before : d = new - k
    BY <2>3
  <2>5. Last(k)
    <3> SUFFICES ASSUME NEW j \in before PROVE j <= k
      OBVIOUS
    <3>1. new - j \in T
      OBVIOUS
    <3>2. new - k <= new - j
      BY <2>3, <2>4, <3>1
    <3>3. QED
      BY <2>1, <3>2
  <2>6. Prev(l) = CHOOSE n \in before : Last(n)
    BY <1>2 DEF Prev
  <2> HIDE DEF Last
  <2>7. Prev(l) \in before /\ Last(Prev(l))
    BY <2>4, <2>5, <2>6
  <2>8. QED
    BY <2>1, <2>7 DEF Last
<1>3. QED
  BY <1>1, <1>2

(* The writer's search ends on head_ or on a linked node before the key.   *)
LEMMA PrevProperties ==
  ASSUME TypeInv, MessageInv, new \in Keys, NEW l \in Levels
  PROVE  /\ Prev(l) \in Nodes /\ Prev(l) # new
         /\ Prev(l) \in Keys => Ready(Prev(l), l, now)
<1>1. CASE Prev(l) = head
  BY <1>1, ConstantFacts
<1>2. CASE Prev(l) # head
  <2> DEFINE p == Prev(l)
  <2>8. p \in Linked(l) /\ p < new /\ p \in Keys
    BY <1>2, PrevIsLast
  <2> HIDE DEF p
  <2>9. PICK n \in Nodes : Newest(n, l) = p
    BY <2>8 DEF Linked
  <2> DEFINE i == Len(slot[n][l])
  <2>10. i \in 1..Len(slot[n][l]) /\ slot[n][l] \in Seq(Stores) /\ slot[n][l][i].node = p
    <3>1. slot[n][l] \in Seq(Stores)
      BY DEF TypeInv
    <3>2. Len(slot[n][l]) \in Nat /\ Len(slot[n][l]) >= 1
      BY <3>1 DEF MessageInv
    <3>3. QED
      BY <2>9, <3>1, <3>2 DEF Newest
  <2>11. MessageIn(slot, born, n, l, i, now)
    BY <2>10 DEF MessageInv
  <2>12. slot[n][l][i].time \in Nat /\ slot[n][l][i].time <= now
    BY <2>10, <2>11, StoresTyped DEF MessageIn
  <2>13. Ready(p, l, slot[n][l][i].time)
    BY <2>8, <2>10, <2>11 DEF MessageIn, Ready
  <2>14. \A j \in Levels : Len(slot[p][j]) >= 2 => slot[p][j][2].time \in Nat
    BY <2>8, ConstantFacts, StoresTyped
  <2>15. Ready(p, l, now)
    BY <2>8, <2>12, <2>13, <2>14, ReadyStays DEF Ready, TypeInv
  <2>16. p \in Nodes /\ p # new
    <3>1. p \in Int /\ new \in Int
      BY <2>8, ConstantFacts
    <3>2. p # new
      BY <2>8, <3>1
    <3>3. QED
      BY <2>8, <3>2, ConstantFacts
  <2>17. QED
    BY <2>15, <2>16 DEF p
<1>3. QED
  BY <1>1, <1>2

(* What a store to a slot changes.                                         *)
LEMMA StoreProperties ==
  ASSUME TypeInv, NEW n \in Nodes, NEW to \in Keys \cup {NULL, Uninit},
         NEW release \in BOOLEAN, Store(n, to, release)
  PROVE  /\ now' = now + 1
         /\ slot' \in [Nodes -> [Levels -> Seq(Stores)]]
         /\ \A m \in Nodes, l \in Levels :
              IF m = n /\ l = rung
              THEN /\ Len(slot'[m][l]) = Len(slot[m][l]) + 1
                   /\ \A i \in 1..Len(slot[m][l]) : slot'[m][l][i] = slot[m][l][i]
                   /\ slot'[m][l][Len(slot[m][l]) + 1] = Stored(now + 1, to, release)
              ELSE slot'[m][l] = slot[m][l]
<1> DEFINE e == Stored(now + 1, to, release)
           q == Append(slot[n][rung], e)
<1>1. e \in Stores
  BY DEF Stored, Stores, TypeInv
<1>2. rung \in Levels
  BY ConstantFacts DEF TypeInv
<1>3. slot[n][rung] \in Seq(Stores)
  BY <1>2, StoresTyped
<1> HIDE DEF e
<1>4. /\ q \in Seq(Stores)
      /\ Len(q) = Len(slot[n][rung]) + 1
      /\ \A i \in 1..Len(slot[n][rung]) : q[i] = slot[n][rung][i]
      /\ q[Len(slot[n][rung]) + 1] = e
  BY <1>1, <1>3, AppendProperties
<1>5. slot' = [slot EXCEPT ![n][rung] = q]
  BY DEF Store, e
<1> HIDE DEF q
<1>6. slot' \in [Nodes -> [Levels -> Seq(Stores)]]
  BY <1>4, <1>5 DEF TypeInv
<1>7. slot'[n][rung] = q
  BY <1>2, <1>5 DEF TypeInv
<1>8. \A m \in Nodes, l \in Levels : ~(m = n /\ l = rung) => slot'[m][l] = slot[m][l]
  BY <1>2, <1>5 DEF TypeInv
<1>9. now' = now + 1
  BY DEF Store
<1>10. QED
  BY <1>4, <1>6, <1>7, <1>8, <1>9 DEF e

(* MessageInv is kept by a store that is a release, or the first one to a  *)
(* node's slot, and that leads to a node that is ready there.              *)
LEMMA StoreMessages ==
  ASSUME TypeInv, MessageInv, NEW n \in Nodes, NEW to \in Keys \cup {NULL},
         NEW release \in BOOLEAN, Store(n, to, release), UNCHANGED born,
         to \in Keys => Ready(to, rung, now),
         ~release => n \in Keys /\ Len(slot[n][rung]) = 1
  PROVE  /\ MessageInv'
         /\ \A k \in Keys, l \in Levels, t \in Nat :
              Ready(k, l, t) => ReadyIn(slot', born', k, l, t)
<1>1. /\ now' = now + 1 /\ now \in Nat /\ born' = born
      /\ \A m \in Nodes, l \in Levels :
           IF m = n /\ l = rung
           THEN /\ Len(slot'[m][l]) = Len(slot[m][l]) + 1
                /\ \A i \in 1..Len(slot[m][l]) : slot'[m][l][i] = slot[m][l][i]
                /\ slot'[m][l][Len(slot[m][l]) + 1] = Stored(now + 1, to, release)
           ELSE slot'[m][l] = slot[m][l]
  <2>1. to \in Keys \cup {NULL, Uninit} /\ born' = born
    OBVIOUS
  <2>2. now \in Nat
    BY DEF TypeInv
  <2>3. QED
    BY <2>1, <2>2, StoreProperties
<1>2. ASSUME NEW k \in Keys, NEW l \in Levels, NEW t \in Nat, NEW u \in Nat, t <= u,
             Ready(k, l, t)
      PROVE  ReadyIn(slot', born', k, l, u)
  <2>1. k \in Nodes
    BY ConstantFacts
  <2>2. \A j \in Levels : Len(slot[k][j]) >= 2 => slot[k][j][2].time \in Nat
    BY <2>1, StoresTyped
  <2>3. \A j \in Levels : Len(slot[k][j]) >= 2 =>
          Len(slot'[k][j]) >= 2 /\ slot'[k][j][2] = slot[k][j][2]
    <3> SUFFICES ASSUME NEW j \in Levels, Len(slot[k][j]) >= 2
                 PROVE  Len(slot'[k][j]) >= 2 /\ slot'[k][j][2] = slot[k][j][2]
      OBVIOUS
    <3>1. Len(slot[k][j]) \in Nat /\ 2 \in 1..Len(slot[k][j])
      BY <2>1, StoresTyped
    <3>2. QED
      BY <1>1, <2>1, <3>1
  <2>4. QED
    BY <1>1, <1>2, <2>2, <2>3, ReadyStays DEF Ready
<1>3. ASSUME NEW m \in Nodes, NEW l \in Levels
      PROVE  /\ Len(slot'[m][l]) >= 1
             /\ \A i \in 1..Len(slot'[m][l]) : MessageIn(slot', born', m, l, i, now')
  <2>1. /\ Len(slot[m][l]) \in Nat /\ Len(slot[m][l]) >= 1
        /\ \A i \in 1..Len(slot[m][l]) :
             /\ MessageIn(slot, born, m, l, i, now)
             /\ slot[m][l][i].time \in Nat
    BY StoresTyped DEF MessageInv
  <2>2. ASSUME NEW i \in 1..Len(slot[m][l]), slot'[m][l][i] = slot[m][l][i]
        PROVE  MessageIn(slot', born', m, l, i, now')
    <3> DEFINE k == slot[m][l][i].node
               t == slot[m][l][i].time
    <3>1. t \in Nat /\ t <= now
      BY <2>1 DEF MessageIn
    <3>2. k \in Keys => ReadyIn(slot', born', k, l, t)
      <4>1. k \in Keys => Ready(k, l, t)
        BY <2>1 DEF MessageIn, Ready
      <4> HIDE DEF k, t
      <4>2. QED
        BY <1>2, <3>1, <4>1
    <3>3. t <= now'
      BY <1>1, <3>1
    <3>4. QED
      BY <2>1, <2>2, <3>2, <3>3 DEF MessageIn
  <2>3. CASE ~(m = n /\ l = rung)
    <3>1. slot'[m][l] = slot[m][l]
      BY <1>1, <2>3
    <3>2. QED
      BY <2>1, <2>2, <3>1
  <2>4. CASE m = n /\ l = rung
    <3> DEFINE i == Len(slot[m][l]) + 1
    <3>1. /\ Len(slot'[m][l]) = i
          /\ \A j \in 1..Len(slot[m][l]) : slot'[m][l][j] = slot[m][l][j]
          /\ slot'[m][l][i] = Stored(now + 1, to, release)
      BY <1>1, <2>4
    <3>2. slot'[m][l][i].time = now + 1 /\ slot'[m][l][i].node = to
          /\ slot'[m][l][i].release = release
      BY <3>1 DEF Stored
    <3>3. to \in Keys => ReadyIn(slot', born', to, l, now + 1)
      <4>1. to \in Keys => Ready(to, l, now)
        BY <2>4
      <4>2. now + 1 \in Nat /\ now <= now + 1
        BY <1>1
      <4>3. QED
        BY <1>1, <1>2, <4>1, <4>2
    <3>4. i # 1 /\ (~release => m \in Keys /\ i = 2)
      BY <2>1, <2>4
    <3>5. MessageIn(slot', born', m, l, i, now')
      BY <1>1, <3>2, <3>3, <3>4, ConstantFacts DEF MessageIn
    <3>6. \A j \in 1..i : j \in 1..Len(slot[m][l]) \/ j = i
      BY <2>1
    <3> HIDE DEF i
    <3>7. \A j \in 1..i : MessageIn(slot', born', m, l, j, now')
      BY <2>2, <3>1, <3>5, <3>6
    <3>8. i >= 1
      BY <2>1 DEF i
    <3>9. QED
      BY <3>1, <3>7, <3>8
  <2>5. QED
    BY <2>3, <2>4
<1>4. QED
  BY <1>2, <1>3 DEF MessageInv

-----------------------------------------------------------------------------
(* The steps of the writer.                                                *)

(* What was stored stays, when there is no store.                          *)
LEMMA MessagesKept ==
  ASSUME MessageInv, now' = now, slot' = slot, born' = born
  PROVE  MessageInv'
<1>1. ASSUME NEW n \in Nodes, NEW l \in Levels
      PROVE  /\ Len(slot'[n][l]) >= 1
             /\ \A i \in 1..Len(slot'[n][l]) : MessageIn(slot', born', n, l, i, now')
  <2>1. /\ Len(slot[n][l]) >= 1
        /\ \A i \in 1..Len(slot[n][l]) : MessageIn(slot, born, n, l, i, now)
    BY DEF MessageInv
  <2>2. QED
    BY <2>1
<1>2. QED
  BY <1>1 DEF MessageInv

(* Readers go on with what they have, when what is ready stays ready.      *)
LEMMA ReadersKept ==
  ASSUME TypeInv, ReaderInv, UNCHANGED readerVars,
         \A k \in Keys, l \in Levels, t \in Nat :
           Ready(k, l, t) => ReadyIn(slot', born', k, l, t)
  PROVE  ReaderInv'
<1>1. ASSUME NEW r \in Readers
      PROVE  /\ x[r] \in Keys => ReadyIn(slot', born', x[r], level[r], seen[r])
             /\ pc[r] = "compare" /\ next[r] # NULL =>
                  next[r] \in Keys /\ ReadyIn(slot', born', next[r], level[r], seen[r])
  <2>1. level[r] \in Levels /\ seen[r] \in Nat
    BY DEF TypeInv
  <2>2. QED
    BY <2>1 DEF ReaderInv
<1>2. QED
  BY <1>1 DEF ReaderInv, Ready, readerVars

LEMMA InitIInv == Init => IInv
<1> SUFFICES ASSUME Init PROVE IInv
  OBVIOUS
<1>1. ASSUME NEW n \in Nodes, NEW l \in Levels
      PROVE  /\ slot[n][l] = <<Stored(0, IF n = head THEN NULL ELSE Uninit, FALSE)>>
             /\ slot[n][l] \in Seq(Stores)
             /\ Len(slot[n][l]) = 1
             /\ slot[n][l][1].time = 0
             /\ slot[n][l][1].node = IF n = head THEN NULL ELSE Uninit
  <2> DEFINE e == Stored(0, IF n = head THEN NULL ELSE Uninit, FALSE)
  <2>1. slot[n][l] = <<e>>
    BY DEF Init
  <2>2. e \in Stores /\ e.time = 0 /\ e.node = IF n = head THEN NULL ELSE Uninit
    BY DEF Stored, Stores
  <2> HIDE DEF e
  <2>3. slot[n][l] \in Seq(Stores) /\ Len(slot[n][l]) = 1 /\ slot[n][l][1] = e
    BY <2>1, <2>2
  <2>4. QED
    BY <2>1, <2>2, <2>3 DEF e
<1>2. slot \in [Nodes -> [Levels -> Seq(Stores)]]
  <2>1. slot = [n \in Nodes |-> [l \in Levels |-> slot[n][l]]]
    BY DEF Init
  <2>2. QED
    BY <1>1, <2>1
<1>3. 0 \in 0..(Height - 1) /\ 0 \in Levels
  BY ConstantFacts
<1>4. TypeInv
  <2>1. /\ now = 0 /\ born = [n \in Keys |-> 0] /\ stage = "idle" /\ rung = 0
        /\ inserted = <<>>
    BY DEF Init
  <2>2. /\ pc = [r \in Readers |-> "idle"]
        /\ x = [r \in Readers |-> head]
        /\ level = [r \in Readers |-> 0]
        /\ next = [r \in Readers |-> NULL]
        /\ seen = [r \in Readers |-> 0]
    BY DEF Init
  <2>3. inserted \in Seq(Keys)
    BY <2>1
  <2>4. /\ pc \in [Readers -> {"idle", "load", "compare"}]
        /\ x \in [Readers -> Nodes]
        /\ level \in [Readers -> Levels]
        /\ next \in [Readers -> Keys \cup {NULL, Uninit}]
        /\ seen \in [Readers -> Nat]
    BY <1>3, <2>2, ConstantFacts
  <2>5. born \in [Keys -> Nat] /\ now \in Nat
    BY <2>1
  <2>6. QED
    BY <1>2, <1>3, <2>1, <2>3, <2>4, <2>5 DEF TypeInv
<1>5. MessageInv
  <2>1. ASSUME NEW n \in Nodes, NEW l \in Levels, NEW i \in 1..Len(slot[n][l])
        PROVE  MessageIn(slot, born, n, l, i, now)
    <3>1. i = 1 /\ now = 0
      BY <1>1 DEF Init
    <3>2. /\ slot[n][l][i].time = 0
          /\ ~(slot[n][l][i].node \in Keys)
          /\ slot[n][l][i].node = Uninit => n \in Keys
      BY <1>1, <3>1, ConstantFacts DEF Nodes
    <3>3. QED
      BY <3>1, <3>2 DEF MessageIn
  <2>2. ASSUME NEW n \in Nodes, NEW l \in Levels PROVE Len(slot[n][l]) >= 1
    <3>1. Len(slot[n][l]) = 1
      BY <1>1
    <3>2. QED
      BY <3>1
  <2>3. QED
    BY <2>1, <2>2 DEF MessageInv
<1>6. WriterInv
  <2>1. ASSUME NEW k \in Keys PROVE Fresh(k)
    BY <1>1, ConstantFacts DEF Init, Fresh
  <2>2. QED
    BY <2>1 DEF Init, WriterInv
<1>7. ReaderInv
  BY ConstantFacts DEF Init, ReaderInv
<1>8. QED
  BY <1>4, <1>5, <1>6, <1>7 DEF IInv

LEMMA InsertCallIInv ==
  ASSUME IInv, NEW k \in Keys, InsertCall(k)
  PROVE  IInv'
<1> USE DEF IInv
<1>1. /\ UNCHANGED <<now, slot, born, raised, rung, readerVars>>
      /\ stage = "idle" /\ stage' = "found" /\ new' = k
      /\ inserted' = Append(inserted, k) /\ ~Inserted(k)
  BY DEF InsertCall, Inserted, TypeInv
<1>2. inserted \in Seq(Keys) /\ Len(inserted) \in Nat
  BY DEF TypeInv
<1>3. /\ inserted' \in Seq(Keys) /\ Len(inserted') = Len(inserted) + 1
      /\ \A i \in 1..Len(inserted) : inserted'[i] = inserted[i]
      /\ inserted'[Len(inserted) + 1] = k
  BY <1>1, <1>2, AppendProperties
<1>4. TypeInv'
  BY <1>1, <1>3 DEF TypeInv, readerVars
<1>5. MessageInv'
  BY <1>1, MessagesKept
<1>6. ReaderInv'
  BY <1>1, ReadersKept DEF Ready
<1>7. WriterInv'
  <2>1. ASSUME NEW j \in Keys, ~Inserted(j)' PROVE Fresh(j)'
    <3>1. ~Inserted(j)
      <4> SUFFICES ASSUME NEW i \in 1..Len(inserted), inserted[i] = j PROVE FALSE
        BY DEF Inserted
      <4>1. i \in 1..Len(inserted') /\ inserted'[i] = j
        BY <1>2, <1>3
      <4>2. QED
        BY <2>1, <4>1 DEF Inserted
    <3>2. QED
      BY <1>1, <3>1 DEF WriterInv, Fresh
  <2>2. Inserted(k)'
    <3>1. Len(inserted) + 1 \in 1..Len(inserted')
      BY <1>2, <1>3
    <3>2. QED
      BY <1>3, <3>1 DEF Inserted
  <2>3. Fresh(k)'
    BY <1>1 DEF WriterInv, Fresh
  <2>4. rung' = 0
    BY <1>1 DEF WriterInv
  <2>5. new' \in Keys /\ Inserted(new)' /\ Fresh(new)'
    BY <1>1, <2>2, <2>3 DEF Inserted, Fresh
  <2>6. QED
    BY <1>1, <2>1, <2>4, <2>5 DEF WriterInv
<1>8. QED
  BY <1>4, <1>5, <1>6, <1>7

LEMMA RaiseHeightIInv ==
  ASSUME IInv, RaiseHeight
  PROVE  IInv'
<1> USE DEF IInv
<1>1. /\ UNCHANGED <<slot, born, stage, new, rung, inserted, readerVars>>
      /\ now' = now + 1 /\ now \in Nat /\ stage = "found"
  BY DEF RaiseHeight, TypeInv
<1>2. TypeInv'
  BY <1>1 DEF TypeInv, readerVars
<1>3. MessageInv'
  <2>1. ASSUME NEW n \in Nodes, NEW l \in Levels, NEW i \in 1..Len(slot[n][l])
        PROVE  MessageIn(slot, born, n, l, i, now + 1)
    <3>1. MessageIn(slot, born, n, l, i, now) /\ slot[n][l][i].time \in Nat
      BY StoresTyped DEF MessageInv
    <3>2. slot[n][l][i].time <= now + 1
      BY <1>1, <3>1 DEF MessageIn
    <3>3. QED
      BY <3>1, <3>2 DEF MessageIn
  <2>2. QED
    BY <1>1, <2>1 DEF MessageInv
<1>4. ReaderInv'
  BY <1>1, ReadersKept DEF Ready
<1>5. WriterInv'
  BY <1>1 DEF WriterInv, Fresh, Inserted
<1>6. QED
  BY <1>2, <1>3, <1>4, <1>5

LEMMA NewNodeIInv ==
  ASSUME IInv, NewNode
  PROVE  IInv'
<1> USE DEF IInv
<1>1. /\ UNCHANGED <<slot, raised, new, rung, inserted, readerVars>>
      /\ now' = now + 1 /\ now \in Nat /\ stage = "found" /\ stage' = "own"
      /\ born' = [born EXCEPT ![new] = now + 1] /\ born \in [Keys -> Nat]
  BY DEF NewNode, TypeInv
<1>2. new \in Keys /\ Inserted(new) /\ Fresh(new) /\ rung = 0
  BY <1>1 DEF WriterInv
<1>3. /\ born' \in [Keys -> Nat] /\ born'[new] = now + 1
      /\ \A k \in Keys : k # new => born'[k] = born[k]
  BY <1>1, <1>2
<1>4. TypeInv'
  BY <1>1, <1>3 DEF TypeInv, readerVars
<1>5. ASSUME NEW k \in Keys, NEW l \in Levels, NEW t \in Nat, ReadyIn(slot, born, k, l, t)
      PROVE  ReadyIn(slot', born', k, l, t)
  <2>1. k # new
    BY <1>2, <1>5 DEF ReadyIn, Fresh
  <2>2. QED
    BY <1>1, <1>3, <1>5, <2>1 DEF ReadyIn
<1>6. MessageInv'
  <2>1. ASSUME NEW n \in Nodes, NEW l \in Levels, NEW i \in 1..Len(slot[n][l])
        PROVE  MessageIn(slot', born', n, l, i, now + 1)
    <3> DEFINE k == slot[n][l][i].node
               t == slot[n][l][i].time
    <3>1. MessageIn(slot, born, n, l, i, now) /\ t \in Nat
      BY StoresTyped DEF MessageInv
    <3>2. t <= now + 1
      BY <1>1, <3>1 DEF MessageIn
    <3>3. k \in Keys => ReadyIn(slot', born', k, l, t)
      <4>1. k \in Keys => ReadyIn(slot, born, k, l, t)
        BY <3>1 DEF MessageIn
      <4> HIDE DEF k, t
      <4>2. QED
        BY <1>5, <3>1, <4>1
    <3>4. QED
      BY <1>1, <3>1, <3>2, <3>3 DEF MessageIn
  <2>2. QED
    BY <1>1, <2>1 DEF MessageInv
<1>7. ReaderInv'
  BY <1>1, <1>5, ReadersKept DEF Ready
<1>8. WriterInv'
  <2>1. ASSUME NEW k \in Keys, ~Inserted(k) PROVE Fresh(k)'
    <3>1. k # new /\ Fresh(k)
      BY <1>2, <2>1 DEF WriterInv
    <3>2. QED
      BY <1>1, <1>3, <3>1 DEF Fresh
  <2>2. born'[new] \in 1..now'
    BY <1>1, <1>3
  <2>3. \A l \in Levels : ~(l < 0) /\ Len(slot[new][l]) = 1
    BY <1>2, ConstantFacts DEF Fresh
  <2>4. QED
    BY <1>1, <1>2, <2>1, <2>2, <2>3 DEF WriterInv, Inserted
<1>9. QED
  BY <1>4, <1>6, <1>7, <1>8

LEMMA SetOwnNextIInv ==
  ASSUME IInv, SetOwnNext
  PROVE  IInv'
<1> USE DEF IInv
<1> DEFINE p == Prev(rung)
           to == Newest(p, rung)
<1>1. /\ UNCHANGED <<born, raised, new, rung, inserted, readerVars>>
      /\ stage = "own" /\ stage' = "publish" /\ Store(new, to, FALSE)
      /\ new \in Keys /\ new \in Nodes /\ rung \in Levels /\ rung \in Nat
  BY ConstantFacts DEF SetOwnNext, WriterInv, TypeInv
<1>2. /\ born[new] \in 1..now /\ Inserted(new) /\ Len(slot[new][rung]) = 1
      /\ \A l \in Levels : IF l < rung THEN Len(slot[new][l]) >= 2 ELSE Len(slot[new][l]) = 1
  <2>1. /\ born[new] \in 1..now /\ Inserted(new)
        /\ \A l \in Levels : IF l < rung THEN Len(slot[new][l]) >= 2 ELSE Len(slot[new][l]) = 1
    BY <1>1 DEF WriterInv
  <2>2. ~(rung < rung)
    BY <1>1
  <2>3. QED
    BY <1>1, <2>1, <2>2
<1>3. to \in Keys \cup {NULL} /\ (to \in Keys => Ready(to, rung, now))
  <2>1. p \in Nodes /\ (p \in Keys => Ready(p, rung, now))
    BY <1>1, PrevProperties
  <2> DEFINE i == Len(slot[p][rung])
  <2> HIDE DEF p
  <2>2. /\ i \in Nat /\ i >= 1 /\ i \in 1..Len(slot[p][rung])
        /\ MessageIn(slot, born, p, rung, i, now)
        /\ slot[p][rung][i].time \in Nat
        /\ slot[p][rung][i].node \in Keys \cup {NULL, Uninit}
    <3>1. Len(slot[p][rung]) \in Nat /\ Len(slot[p][rung]) >= 1
      BY <1>1, <2>1, StoresTyped DEF MessageInv
    <3>2. i \in 1..Len(slot[p][rung])
      BY <3>1
    <3>3. QED
      BY <1>1, <2>1, <3>1, <3>2, StoresTyped DEF MessageInv
  <2>3. to = slot[p][rung][i].node
    BY DEF Newest
  <2>4. to # Uninit
    <3>1. p \in Keys => i >= 2
      BY <1>1, <2>1 DEF Ready, ReadyIn
    <3>2. QED
      BY <2>2, <2>3, <3>1 DEF MessageIn
  <2>5. to \in Keys => Ready(to, rung, now)
    <3> SUFFICES ASSUME to \in Keys PROVE Ready(to, rung, now)
      OBVIOUS
    <3> DEFINE t == slot[p][rung][i].time
    <3>1. ReadyIn(slot, born, to, rung, t) /\ t \in Nat /\ t <= now
      BY <2>2, <2>3 DEF MessageIn
    <3> HIDE DEF t, to, i
    <3>2. to \in Nodes /\ now \in Nat
      BY ConstantFacts DEF TypeInv
    <3>3. \A j \in Levels : Len(slot[to][j]) >= 2 => slot[to][j][2].time \in Nat
      BY <3>2, StoresTyped
    <3>4. QED
      BY <1>1, <3>1, <3>2, <3>3, ReadyStays DEF Ready
  <2>6. QED
    BY <2>2, <2>3, <2>4, <2>5
<1> HIDE DEF to
<1> DEFINE release == FALSE
<1>r. release \in BOOLEAN /\ ~release /\ Store(new, to, release)
  BY <1>1
<1> HIDE DEF release
<1>4. /\ MessageInv'
      /\ \A k \in Keys, l \in Levels, t \in Nat :
           Ready(k, l, t) => ReadyIn(slot', born', k, l, t)
  BY <1>1, <1>2, <1>3, <1>r, StoreMessages
<1>5. /\ now' = now + 1 /\ now \in Nat
      /\ slot' \in [Nodes -> [Levels -> Seq(Stores)]]
      /\ Len(slot'[new][rung]) = 2
      /\ \A m \in Nodes, l \in Levels : ~(m = new /\ l = rung) => slot'[m][l] = slot[m][l]
  <2>1. to \in Keys \cup {NULL, Uninit}
    BY <1>3
  <2>2. /\ now' = now + 1
        /\ slot' \in [Nodes -> [Levels -> Seq(Stores)]]
        /\ \A m \in Nodes, l \in Levels :
             IF m = new /\ l = rung
             THEN Len(slot'[m][l]) = Len(slot[m][l]) + 1
             ELSE slot'[m][l] = slot[m][l]
    BY <1>1, <1>r, <2>1, StoreProperties
  <2>3. Len(slot'[new][rung]) = 2
    <3>1. Len(slot'[new][rung]) = Len(slot[new][rung]) + 1
      BY <1>1, <2>2
    <3>2. QED
      BY <1>2, <3>1
  <2>4. now \in Nat
    BY DEF TypeInv
  <2>5. QED
    BY <2>2, <2>3, <2>4
<1>6. TypeInv'
  BY <1>1, <1>5 DEF TypeInv, readerVars
<1>7. ReaderInv'
  BY <1>1, <1>4, ReadersKept
<1>8. WriterInv'
  <2>1. ASSUME NEW k \in Keys, ~Inserted(k) PROVE Fresh(k)'
    <3>1. k # new /\ k \in Nodes /\ Fresh(k)
      BY <1>2, <2>1, ConstantFacts DEF WriterInv
    <3>2. QED
      BY <1>1, <1>5, <3>1 DEF Fresh
  <2>2. born[new] \in 1..now'
    BY <1>2, <1>5
  <2>3. ASSUME NEW l \in Levels
        PROVE  IF l < rung \/ l = rung THEN Len(slot'[new][l]) >= 2 ELSE Len(slot'[new][l]) = 1
    <3>1. CASE l = rung
      <4>1. Len(slot'[new][l]) = 2
        BY <1>5, <3>1
      <4>2. QED
        BY <3>1, <4>1
    <3>2. CASE l # rung
      BY <1>1, <1>2, <1>5, <3>2
    <3>3. QED
      BY <3>1, <3>2
  <2>4. QED
    BY <1>1, <1>2, <2>1, <2>2, <2>3 DEF WriterInv, Inserted
<1>9. QED
  BY <1>4, <1>6, <1>7, <1>8

LEMMA PublishIInv ==
  ASSUME IInv, Publish
  PROVE  IInv'
<1> USE DEF IInv
<1> DEFINE p == Prev(rung)
<1>1. /\ UNCHANGED <<born, raised, inserted, readerVars>>
      /\ stage = "publish" /\ Store(p, new, TRUE) /\ OnToNextRung
      /\ new \in Keys /\ new \in Nodes /\ rung \in Levels /\ rung \in Nat
      /\ rung \in 0..(Height - 1)
  BY ConstantFacts DEF Publish, WriterInv, TypeInv
<1>2. /\ born[new] \in 1..now /\ Inserted(new)
      /\ \A l \in Levels :
           IF l < rung \/ l = rung THEN Len(slot[new][l]) >= 2 ELSE Len(slot[new][l]) = 1
  BY <1>1 DEF WriterInv
<1>3. p \in Nodes /\ p # new /\ (p \in Keys => Ready(p, rung, now))
  BY <1>1, PrevProperties
<1> HIDE DEF p
<1>4. Ready(new, rung, now)
  <2>1. ASSUME NEW j \in 0..rung PROVE Len(slot[new][j]) >= 2 /\ slot[new][j][2].time <= now
    <3>1. j \in Levels /\ (j < rung \/ j = rung)
      BY <1>1, ConstantFacts
    <3>2. Len(slot[new][j]) >= 2 /\ Len(slot[new][j]) \in Nat
      BY <1>1, <1>2, <3>1, StoresTyped
    <3>3. MessageIn(slot, born, new, j, 2, now)
      BY <1>1, <3>1, <3>2 DEF MessageInv
    <3>4. QED
      BY <3>2, <3>3 DEF MessageIn
  <2>2. QED
    BY <1>2, <2>1 DEF Ready, ReadyIn
<1>5. /\ MessageInv'
      /\ \A k \in Keys, l \in Levels, t \in Nat :
           Ready(k, l, t) => ReadyIn(slot', born', k, l, t)
  <2>1. born' = born /\ TRUE \in BOOLEAN /\ new \in Keys \cup {NULL}
    BY <1>1
  <2>2. QED
    BY <1>1, <1>3, <1>4, <2>1, StoreMessages
<1>6. /\ now' = now + 1 /\ now \in Nat
      /\ slot' \in [Nodes -> [Levels -> Seq(Stores)]]
      /\ \A m \in Nodes, l \in Levels : m # p => slot'[m][l] = slot[m][l]
  <2>1. new \in Keys \cup {NULL, Uninit} /\ TRUE \in BOOLEAN
    BY <1>1
  <2>2. /\ now' = now + 1
        /\ slot' \in [Nodes -> [Levels -> Seq(Stores)]]
        /\ \A m \in Nodes, l \in Levels :
             ~(m = p /\ l = rung) => slot'[m][l] = slot[m][l]
    BY <1>1, <1>3, <2>1, StoreProperties
  <2>3. now \in Nat
    BY DEF TypeInv
  <2>4. QED
    BY <2>2, <2>3
<1>7. \/ rung' = rung + 1 /\ rung + 1 \in 0..(Height - 1) /\ stage' = "own" /\ new' = new
      \/ rung' = 0 /\ stage' = "idle" /\ new' = NULL
  BY <1>1, ConstantFacts DEF OnToNextRung
<1>8. TypeInv'
  <2>1. rung' \in 0..(Height - 1) /\ stage' \in {"idle", "found", "own", "publish"}
    BY <1>7, ConstantFacts
  <2>2. QED
    BY <1>1, <1>6, <2>1 DEF TypeInv, readerVars
<1>9. ReaderInv'
  BY <1>1, <1>5, ReadersKept
<1>10. WriterInv'
  <2>1. ASSUME NEW k \in Keys, ~Inserted(k) PROVE Fresh(k)'
    <3>1. k \in Nodes /\ Fresh(k)
      BY <2>1, ConstantFacts DEF WriterInv
    <3>2. k # p
      BY <1>1, <1>3, <2>1, <3>1 DEF Fresh, Ready, ReadyIn
    <3>3. QED
      BY <1>1, <1>6, <3>1, <3>2 DEF Fresh
  <2>2. CASE rung' = rung + 1 /\ stage' = "own" /\ new' = new
    <3>1. born[new] \in 1..now'
      BY <1>2, <1>6
    <3>2. ASSUME NEW l \in Levels
          PROVE  IF l < rung + 1 THEN Len(slot'[new][l]) >= 2 ELSE Len(slot'[new][l]) = 1
      <4>1. slot'[new][l] = slot[new][l] /\ l \in Nat
        BY <1>1, <1>3, <1>6, ConstantFacts
      <4>2. l < rung + 1 <=> l < rung \/ l = rung
        BY <1>1, <4>1
      <4>3. QED
        BY <1>2, <4>1, <4>2
    <3>3. QED
      BY <1>1, <1>2, <2>1, <2>2, <3>1, <3>2 DEF WriterInv, Inserted
  <2>3. CASE rung' = 0 /\ stage' = "idle"
    BY <1>1, <2>1, <2>3 DEF WriterInv, Inserted
  <2>4. QED
    BY <1>7, <2>2, <2>3
<1>11. QED
  BY <1>5, <1>8, <1>9, <1>10

-----------------------------------------------------------------------------
(* The steps of a reader.                                                  *)

(* They leave the writer and the memory alone.                             *)
LEMMA WriterKept ==
  ASSUME MessageInv, WriterInv, UNCHANGED writerVars
  PROVE  MessageInv' /\ WriterInv'
<1>1. /\ now' = now /\ slot' = slot /\ born' = born /\ stage' = stage /\ new' = new
      /\ rung' = rung /\ inserted' = inserted
  BY DEF writerVars
<1>2. MessageInv'
  BY <1>1, MessagesKept
<1>3. WriterInv'
  BY <1>1 DEF WriterInv, Fresh, Inserted
<1>4. QED
  BY <1>2, <1>3

(* ReaderInv, with only reader r having moved.                             *)
LEMMA OneReader ==
  ASSUME ReaderInv, NEW r \in Readers, UNCHANGED writerVars,
         \A q \in Readers \ {r} :
           /\ pc'[q] = pc[q] /\ x'[q] = x[q] /\ level'[q] = level[q]
           /\ next'[q] = next[q] /\ seen'[q] = seen[q],
         x'[r] \in Keys => Ready(x'[r], level'[r], seen'[r]),
         pc'[r] = "compare" /\ next'[r] # NULL =>
           next'[r] \in Keys /\ Ready(next'[r], level'[r], seen'[r])
  PROVE  ReaderInv'
<1>1. slot' = slot /\ born' = born
  BY DEF writerVars
<1>2. ASSUME NEW q \in Readers
      PROVE  /\ x'[q] \in Keys => ReadyIn(slot, born, x'[q], level'[q], seen'[q])
             /\ pc'[q] = "compare" /\ next'[q] # NULL =>
                  next'[q] \in Keys /\ ReadyIn(slot, born, next'[q], level'[q], seen'[q])
  <2>1. CASE q = r
    BY <2>1 DEF Ready
  <2>2. CASE q # r
    BY <2>2 DEF ReaderInv, Ready
  <2>3. QED
    BY <2>1, <2>2
<1>3. QED
  BY <1>1, <1>2 DEF ReaderInv, Ready

(* What is ready at a level, at some time, is so further down and later.   *)
LEMMA ReadyBelow ==
  ASSUME TypeInv, NEW k \in Keys, NEW l \in Levels, NEW j \in Levels, j <= l,
         NEW t \in Nat, NEW u \in Nat, t <= u, Ready(k, l, t)
  PROVE  Ready(k, j, u)
<1>1. k \in Nodes
  BY ConstantFacts
<1>2. \A i \in Levels : Len(slot[k][i]) >= 2 => slot[k][i][2].time \in Nat
  BY <1>1, StoresTyped
<1>3. Ready(k, j, t)
  <2>1. \A i \in 0..j : i \in 0..l
    BY ConstantFacts
  <2>2. QED
    BY <2>1 DEF Ready, ReadyIn
<1>4. QED
  BY <1>2, <1>3, ReadyStays DEF Ready

LEMMA ContainsCallIInv ==
  ASSUME IInv, NEW r \in Readers, NEW k \in Keys, ContainsCall(r, k)
  PROVE  IInv'
<1> USE DEF IInv
<1>1. PICK h \in Heights(r) : level' = [level EXCEPT ![r] = h - 1]
  BY DEF ContainsCall
<1>2. h - 1 \in Levels
  <2>1. h \in {1, Height}
    BY DEF Heights
  <2>2. QED
    BY <2>1, ConstantFacts
<1>3. /\ pc' = [pc EXCEPT ![r] = "load"] /\ x' = [x EXCEPT ![r] = head]
      /\ UNCHANGED <<writerVars, next, seen>>
  BY DEF ContainsCall
<1>4. TypeInv'
  BY <1>1, <1>2, <1>3, ConstantFacts DEF TypeInv, writerVars
<1>5. ReaderInv'
  <2>1. x'[r] = head /\ pc'[r] = "load"
    BY <1>3 DEF TypeInv
  <2>2. \A q \in Readers \ {r} :
          /\ pc'[q] = pc[q] /\ x'[q] = x[q] /\ level'[q] = level[q]
          /\ next'[q] = next[q] /\ seen'[q] = seen[q]
    BY <1>1, <1>3 DEF TypeInv
  <2>3. QED
    BY <1>3, <2>1, <2>2, ConstantFacts, OneReader
<1>6. QED
  BY <1>3, <1>4, <1>5, WriterKept

(* A reader may load from a slot only what was stored to it by its node or *)
(* later, never the raw memory.                                            *)
LEMMA NoRawLoad ==
  ASSUME IInv, NEW r \in Readers, NEW i \in Readable(r, x[r], level[r])
  PROVE  /\ i \in 1..Len(slot[x[r]][level[r]])
         /\ x[r] \in Keys => i # 1 /\ (i = 2 => slot[x[r]][level[r]][i].time <= seen[r])
         /\ slot[x[r]][level[r]][i].node # Uninit
<1> USE DEF IInv
<1> DEFINE n == x[r]
           l == level[r]
<1>1. n \in Nodes /\ l \in Levels /\ seen[r] \in Nat
  BY DEF TypeInv
<1>2. n \in Keys => Ready(n, l, seen[r])
  BY DEF ReaderInv
<1>3. /\ i \in DOMAIN slot[n][l]
      /\ \A j \in DOMAIN slot[n][l] : j > i => slot[n][l][j].time > seen[r]
  BY DEF Readable
<1> HIDE DEF n, l
<1>4. slot[n][l] \in Seq(Stores) /\ Len(slot[n][l]) \in Nat
  BY <1>1, StoresTyped
<1>5. DOMAIN slot[n][l] = 1..Len(slot[n][l])
  BY <1>4
<1>6. i \in 1..Len(slot[n][l]) /\ i \in Int
  BY <1>3, <1>5
<1>7. n \in Keys => i # 1 /\ (i = 2 => slot[n][l][i].time <= seen[r])
  <2> SUFFICES ASSUME n \in Keys
               PROVE  i # 1 /\ (i = 2 => slot[n][l][i].time <= seen[r])
    OBVIOUS
  <2>1. l \in 0..l
    BY <1>1, ConstantFacts
  <2>2. Len(slot[n][l]) >= 2 /\ slot[n][l][2].time <= seen[r]
    BY <1>2, <2>1 DEF Ready, ReadyIn
  <2>3. 2 \in DOMAIN slot[n][l] /\ slot[n][l][2].time \in Nat
    BY <1>1, <1>4, <1>5, <2>2, StoresTyped
  <2>4. i # 1
    <3>1. ~(slot[n][l][2].time > seen[r])
      BY <1>1, <2>2, <2>3
    <3>2. ~(2 > i)
      BY <1>3, <2>3, <3>1
    <3>3. QED
      BY <3>2
  <2>5. QED
    BY <2>2, <2>4
<1>8. MessageIn(slot, born, n, l, i, now)
  BY <1>1, <1>6 DEF MessageInv
<1>9. slot[n][l][i].node # Uninit
  BY <1>7, <1>8 DEF MessageIn
<1>10. QED
  BY <1>6, <1>7, <1>9 DEF n, l

(* A load with acquire of a store with release tells the reader of all     *)
(* stores up to it; what else it may load it has been told of before.      *)
LEMMA LoadSees ==
  ASSUME IInv, NEW r \in Readers, Load(r)
  PROVE  \E i \in Readable(r, x[r], level[r]), u \in Nat :
           LET m == slot[x[r]][level[r]][i] IN
           /\ next' = [next EXCEPT ![r] = m.node] /\ seen' = [seen EXCEPT ![r] = u]
           /\ seen[r] <= u /\ (u = seen[r] \/ u = m.time)
           /\ i \in 1..Len(slot[x[r]][level[r]])
           /\ m.node \in Keys \cup {NULL} /\ m.time \in Nat
           /\ m.node \in Keys => m.time <= u /\ Ready(m.node, level[r], m.time)
<1> USE DEF IInv
<1> DEFINE n == x[r]
           l == level[r]
<1>1. PICK i \in Readable(r, n, l) :
        /\ next' = [next EXCEPT ![r] = slot[n][l][i].node]
        /\ seen' = [seen EXCEPT ![r] = IF slot[n][l][i].release
                                       THEN Larger(seen[r], slot[n][l][i].time) ELSE seen[r]]
  BY DEF Load
<1>2. n \in Nodes /\ l \in Levels /\ seen[r] \in Nat
  BY DEF TypeInv
<1>3. /\ i \in 1..Len(slot[n][l])
      /\ n \in Keys => i # 1 /\ (i = 2 => slot[n][l][i].time <= seen[r])
      /\ slot[n][l][i].node # Uninit
  BY NoRawLoad
<1> DEFINE m == slot[n][l][i]
           u == IF m.release THEN Larger(seen[r], m.time) ELSE seen[r]
<1> HIDE DEF n, l
<1>4. m.time \in Nat /\ m.node \in Keys \cup {NULL, Uninit} /\ MessageIn(slot, born, n, l, i, now)
  BY <1>2, <1>3, StoresTyped DEF MessageInv
<1>5. /\ m.node \in Keys => Ready(m.node, l, m.time) /\ i # 1
      /\ ~m.release => i = 1 \/ (n \in Keys /\ i = 2)
  BY <1>4 DEF MessageIn, Ready
<1>6. n \in Keys /\ i = 2 => m.time <= seen[r]
  BY <1>3
<1>7. /\ next' = [next EXCEPT ![r] = m.node] /\ seen' = [seen EXCEPT ![r] = u]
  BY <1>1
<1>8. m.node \in Keys \cup {NULL}
  BY <1>3, <1>4
<1> HIDE DEF m
<1>9. u \in Nat /\ seen[r] <= u /\ (u = seen[r] \/ u = m.time)
      /\ (m.node \in Keys => m.time <= u)
  BY <1>2, <1>4, <1>5, <1>6 DEF Larger
<1> HIDE DEF u
<1>10. QED
  BY <1>3, <1>4, <1>5, <1>7, <1>8, <1>9 DEF n, l, m

LEMMA LoadIInv ==
  ASSUME IInv, NEW r \in Readers, Load(r)
  PROVE  IInv'
<1> USE DEF IInv
<1> DEFINE n == x[r]
           l == level[r]
<1>1. PICK i \in Readable(r, n, l), u \in Nat :
        LET m == slot[n][l][i] IN
        /\ next' = [next EXCEPT ![r] = m.node] /\ seen' = [seen EXCEPT ![r] = u]
        /\ seen[r] <= u
        /\ m.node \in Keys \cup {NULL} /\ m.time \in Nat
        /\ m.node \in Keys => m.time <= u /\ Ready(m.node, l, m.time)
  BY LoadSees
<1>2. /\ pc' = [pc EXCEPT ![r] = "compare"]
      /\ UNCHANGED <<writerVars, x, level>>
  BY DEF Load
<1>3. n \in Nodes /\ l \in Levels /\ seen[r] \in Nat
  BY DEF TypeInv
<1>5. n \in Keys => Ready(n, l, seen[r])
  BY DEF ReaderInv
<1> HIDE DEF n, l
<1> DEFINE m == slot[n][l][i]
<1>6. /\ m.node \in Keys \cup {NULL} /\ m.time \in Nat
      /\ m.node \in Keys => m.time <= u /\ Ready(m.node, l, m.time)
  BY <1>1
<1>12. /\ next' = [next EXCEPT ![r] = m.node] /\ seen' = [seen EXCEPT ![r] = u]
  BY <1>1
<1> HIDE DEF m
<1>10. m.node \in Keys => Ready(m.node, l, u)
  <2> SUFFICES ASSUME m.node \in Keys PROVE Ready(m.node, l, u)
    OBVIOUS
  <2>1. l \in Int /\ l <= l
    BY <1>3, ConstantFacts
  <2>2. QED
    BY <1>3, <1>6, <2>1, ReadyBelow
<1>11. n \in Keys => Ready(n, l, u)
  BY <1>1, <1>3, <1>5, ConstantFacts, ReadyBelow
<1>13. TypeInv'
  BY <1>2, <1>6, <1>12 DEF TypeInv, writerVars
<1>14. ReaderInv'
  <2>1. /\ x'[r] = n /\ level'[r] = l /\ next'[r] = m.node /\ seen'[r] = u
    BY <1>2, <1>12 DEF TypeInv, n, l
  <2>2. \A q \in Readers \ {r} :
          /\ pc'[q] = pc[q] /\ x'[q] = x[q] /\ level'[q] = level[q]
          /\ next'[q] = next[q] /\ seen'[q] = seen[q]
    BY <1>2, <1>12 DEF TypeInv
  <2>3. m.node # NULL => m.node \in Keys
    BY <1>6
  <2>4. QED
    BY <1>2, <1>10, <1>11, <2>1, <2>2, <2>3, OneReader
<1>15. QED
  BY <1>2, <1>13, <1>14, WriterKept

LEMMA MoveRightIInv ==
  ASSUME IInv, NEW r \in Readers, MoveRight(r)
  PROVE  IInv'
<1> USE DEF IInv
<1>1. /\ pc[r] = "compare" /\ next[r] \in Keys
      /\ x' = [x EXCEPT ![r] = next[r]] /\ pc' = [pc EXCEPT ![r] = "load"]
      /\ UNCHANGED <<writerVars, level, next, seen>>
  BY DEF MoveRight, KeyIsAfterNode
<1>2. Ready(next[r], level[r], seen[r])
  BY <1>1, ConstantFacts DEF ReaderInv
<1>3. TypeInv'
  BY <1>1, ConstantFacts DEF TypeInv, writerVars
<1>4. ReaderInv'
  <2>1. x'[r] = next[r] /\ pc'[r] = "load" /\ level' = level /\ seen' = seen
    BY <1>1 DEF TypeInv
  <2>2. \A q \in Readers \ {r} :
          /\ pc'[q] = pc[q] /\ x'[q] = x[q] /\ level'[q] = level[q]
          /\ next'[q] = next[q] /\ seen'[q] = seen[q]
    BY <1>1 DEF TypeInv
  <2>3. QED
    BY <1>1, <1>2, <2>1, <2>2, OneReader
<1>5. QED
  BY <1>1, <1>3, <1>4, WriterKept

LEMMA MoveDownIInv ==
  ASSUME IInv, NEW r \in Readers, MoveDown(r)
  PROVE  IInv'
<1> USE DEF IInv
<1>1. /\ level[r] # 0 /\ level' = [level EXCEPT ![r] = level[r] - 1]
      /\ pc' = [pc EXCEPT ![r] = "load"]
      /\ UNCHANGED <<writerVars, x, next, seen>>
  BY DEF MoveDown
<1>2. /\ level[r] \in Levels /\ level[r] - 1 \in Levels /\ level[r] - 1 <= level[r]
      /\ seen[r] \in Nat /\ seen[r] <= seen[r]
  <2>1. level[r] \in Levels /\ seen[r] \in Nat
    BY DEF TypeInv
  <2>2. QED
    BY <1>1, <2>1, ConstantFacts DEF Levels
<1>3. TypeInv'
  BY <1>1, <1>2 DEF TypeInv, writerVars
<1>4. x[r] \in Keys => Ready(x[r], level[r] - 1, seen[r])
  <2>1. x[r] \in Keys => Ready(x[r], level[r], seen[r])
    BY DEF ReaderInv
  <2>2. QED
    BY <1>2, <2>1, ReadyBelow
<1>5. ReaderInv'
  <2>1. x' = x /\ pc'[r] = "load" /\ level'[r] = level[r] - 1 /\ seen' = seen
    BY <1>1 DEF TypeInv
  <2>2. \A q \in Readers \ {r} :
          /\ pc'[q] = pc[q] /\ x'[q] = x[q] /\ level'[q] = level[q]
          /\ next'[q] = next[q] /\ seen'[q] = seen[q]
    BY <1>1 DEF TypeInv
  <2>3. QED
    BY <1>1, <1>4, <2>1, <2>2, OneReader
<1>6. QED
  BY <1>1, <1>3, <1>5, WriterKept

LEMMA ContainsReturnIInv ==
  ASSUME IInv, NEW r \in Readers, ContainsReturn(r)
  PROVE  IInv'
<1> USE DEF IInv
<1>1. /\ pc' = [pc EXCEPT ![r] = "idle"] /\ x' = [x EXCEPT ![r] = head]
      /\ next' = [next EXCEPT ![r] = NULL]
      /\ UNCHANGED <<writerVars, level, seen>>
  BY DEF ContainsReturn
<1>2. TypeInv'
  BY <1>1, ConstantFacts DEF TypeInv, writerVars
<1>3. ReaderInv'
  <2>1. x'[r] = head /\ pc'[r] = "idle"
    BY <1>1 DEF TypeInv
  <2>2. \A q \in Readers \ {r} :
          /\ pc'[q] = pc[q] /\ x'[q] = x[q] /\ level'[q] = level[q]
          /\ next'[q] = next[q] /\ seen'[q] = seen[q]
    BY <1>1 DEF TypeInv
  <2>3. QED
    BY <1>1, <2>1, <2>2, ConstantFacts, OneReader
<1>4. QED
  BY <1>1, <1>2, <1>3, WriterKept

(* Being told raises seen, by either of Synchronize's actions.             *)
LEMMA SynchronizeIInv ==
  ASSUME IInv, NEW r \in Readers, Synchronize(r)
  PROVE  IInv'
<1> USE DEF IInv
<1>1. PICK u \in Nat : seen[r] <= u /\ seen' = [seen EXCEPT ![r] = u]
  <2>1. CASE WriterTells(r)
    <3>1. seen' = [seen EXCEPT ![r] = Larger(seen[r], now)]
      BY <2>1 DEF WriterTells
    <3>2. Larger(seen[r], now) \in Nat /\ seen[r] <= Larger(seen[r], now)
      BY DEF TypeInv, Larger
    <3>3. QED
      BY <3>1, <3>2
  <2>2. CASE \E q \in Readers : ReaderTells(q, r)
    <3>1. PICK q \in Readers : seen' = [seen EXCEPT ![r] = Larger(seen[r], seen[q])]
      BY <2>2 DEF ReaderTells
    <3>2. /\ Larger(seen[r], seen[q]) \in Nat /\ seen[r] <= Larger(seen[r], seen[q])
      BY DEF TypeInv, Larger
    <3>3. QED
      BY <3>1, <3>2
  <2>3. QED
    BY <2>1, <2>2 DEF Synchronize
<1>2. UNCHANGED <<writerVars, pc, x, level, next>>
  BY DEF Synchronize, WriterTells, ReaderTells
<1>3. TypeInv'
  BY <1>1, <1>2 DEF TypeInv, writerVars
<1>4. ReaderInv'
  <2>1. seen'[r] = u /\ level[r] \in Levels /\ seen[r] \in Nat /\ level[r] <= level[r]
    <3>1. level[r] \in Levels /\ seen[r] \in Nat /\ seen'[r] = u
      BY <1>1 DEF TypeInv
    <3>2. level[r] \in Int
      BY <3>1, ConstantFacts
    <3>3. QED
      BY <3>1, <3>2
  <2>2. x[r] \in Keys => Ready(x[r], level[r], u)
    <3>1. x[r] \in Keys => Ready(x[r], level[r], seen[r])
      BY DEF ReaderInv
    <3>2. QED
      BY <1>1, <2>1, <3>1, ReadyBelow
  <2>3. pc[r] = "compare" /\ next[r] # NULL => next[r] \in Keys /\ Ready(next[r], level[r], u)
    <3>1. pc[r] = "compare" /\ next[r] # NULL =>
            next[r] \in Keys /\ Ready(next[r], level[r], seen[r])
      BY DEF ReaderInv
    <3>2. QED
      BY <1>1, <2>1, <3>1, ReadyBelow
  <2>4. \A q \in Readers \ {r} :
          /\ pc'[q] = pc[q] /\ x'[q] = x[q] /\ level'[q] = level[q]
          /\ next'[q] = next[q] /\ seen'[q] = seen[q]
    BY <1>1, <1>2 DEF TypeInv
  <2>5. QED
    BY <1>2, <2>1, <2>2, <2>3, <2>4, OneReader
<1>5. QED
  BY <1>2, <1>3, <1>4, WriterKept

LEMMA NextIInv == IInv /\ [Next]_vars => IInv'
<1> SUFFICES ASSUME IInv, [Next]_vars PROVE IInv'
  OBVIOUS
<1>1. CASE Insert
  BY <1>1, InsertCallIInv, RaiseHeightIInv, NewNodeIInv, SetOwnNextIInv, PublishIInv DEF Insert
<1>2. ASSUME NEW r \in Readers, Contains(r) PROVE IInv'
  BY <1>2, ContainsCallIInv, LoadIInv, MoveRightIInv, MoveDownIInv, ContainsReturnIInv
  DEF Contains
<1>3. ASSUME NEW r \in Readers, Synchronize(r) PROVE IInv'
  BY <1>3, SynchronizeIInv
<1>4. CASE UNCHANGED vars
  <2>1. UNCHANGED writerVars /\ UNCHANGED readerVars /\ slot' = slot /\ born' = born
    BY <1>4 DEF vars, writerVars
  <2>2. TypeInv'
    BY <2>1 DEF IInv, TypeInv, writerVars, readerVars
  <2>3. ReaderInv'
    BY <2>1, ReadersKept DEF IInv, Ready
  <2>4. QED
    BY <2>1, <2>2, <2>3, WriterKept DEF IInv
<1>5. QED
  BY <1>1, <1>2, <1>3, <1>4 DEF Next

-----------------------------------------------------------------------------
(* The list's memory and what each reader has seen of it keep the promises *)
(* of IInv, from whatever time each store of Insert reaches a reader.      *)
THEOREM Invariance == Spec => []IInv
<1>1. QED
  BY InitIInv, NextIInv, PTL DEF Spec

LEMMA IInvReads == IInv => ReadsInitialized
<1> SUFFICES ASSUME IInv, NEW r \in Readers
             PROVE  /\ \A i \in Readable(r, x[r], level[r]) :
                         slot[x[r]][level[r]][i].node # Uninit
                    /\ pc[r] = "compare" /\ next[r] # NULL =>
                         next[r] \in Keys /\ born[next[r]] \in 1..seen[r]
  BY DEF ReadsInitialized
<1>1. \A i \in Readable(r, x[r], level[r]) : slot[x[r]][level[r]][i].node # Uninit
  BY NoRawLoad
<1>2. pc[r] = "compare" /\ next[r] # NULL =>
        next[r] \in Keys /\ born[next[r]] \in 1..seen[r]
  BY DEF IInv, ReaderInv, Ready, ReadyIn
<1>3. QED
  BY <1>1, <1>2

(* No reader of SkipList loads a slot or compares a key it might see raw,  *)
(* however the machine reorders the plain stores of Insert, because SetNext*)
(* releases what Next acquires (db/SkipList.h:66-89).                      *)
THEOREM ReadsAreInitialized == Spec => []ReadsInitialized
<1>1. QED
  BY Invariance, IInvReads, PTL

-----------------------------------------------------------------------------
(* What a reader has found.  By time t, some slot of level 0 has had n in  *)
(* it: its insertion has taken place.                                      *)
NamedIn(s, n, t) ==
  \/ n = head
  \/ \E m \in Nodes : \E j \in 1..Len(s[m][0]) :
       s[m][0][j].node = n /\ s[m][0][j].time <= t

Named(n, t) == NamedIn(slot, n, t)

(* The new node is not in the list yet.                                    *)
Pending == stage # "idle" /\ rung = 0

Nearer(a, b) == a \in Keys /\ (b \in Keys => a < b)

(* A slot of level 0 leads behind its node, and to nearer and nearer ones. *)
SlotsNarrow ==
  \A n \in Nodes : \A i \in 1..Len(slot[n][0]) :
    /\ n \in Keys /\ slot[n][0][i].node \in Keys => n < slot[n][0][i].node
    /\ \A j \in 1..(i - 1) :
         /\ slot[n][0][j].time < slot[n][0][i].time
         /\ n = head \/ j > 1 => Nearer(slot[n][0][i].node, slot[n][0][j].node)

(* No level leads to a node before level 0 does.                           *)
MessagesNamed ==
  \A n \in Nodes, l \in Levels : \A i \in 1..Len(slot[n][l]) :
    slot[n][l][i].node \in Keys => Named(slot[n][l][i].node, slot[n][l][i].time)

(* As soon as both nodes are in the list, the first does not lead past the *)
(* second.                                                                 *)
NothingSkipped ==
  \A t \in Nat, n \in Nodes, k \in Keys :
    Named(n, t) /\ Named(k, t) /\ (n \in Keys => n < k) =>
      \E j \in 1..Len(slot[n][0]) :
        /\ slot[n][0][j].time <= t
        /\ slot[n][0][j].node \in Keys /\ slot[n][0][j].node <= k

(* A node once in the list is there still, and belongs there.              *)
NodesStay == \A k \in Keys : Named(k, now) => k \in Linked(0) /\ Inserted(k)

(* Keys get into the list in the order of the calls of Insert.             *)
CallOrder ==
  \A j \in 1..Len(inserted), t \in Nat : \A i \in 1..j :
    Named(inserted[j], t) => Named(inserted[i], t)

NamedUnlessPending ==
  /\ \A i \in 1..Len(inserted) : (Pending /\ inserted[i] = new) \/ Named(inserted[i], now)
  /\ Pending => ~Named(new, now)
  /\ Pending /\ stage = "publish" => Newest(new, 0) = Newest(Prev(0), 0)

ListInv ==
  /\ SlotsNarrow /\ MessagesNamed /\ NothingSkipped
  /\ NodesStay /\ CallOrder /\ NamedUnlessPending

(* A reader has seen the insertion of all it must find and of where it     *)
(* stands, and on level 0 it has not been led past its key, if it has seen *)
(* the insertion of that.                                                  *)
FindsAs(p, k, n, l, m, t, o) ==
  /\ t <= now
  /\ o \in 0..Len(inserted)
  /\ \A i \in 1..o : Named(inserted[i], t)
  /\ p # "idle" => k \in Keys /\ Named(n, t) /\ (n \in Keys => n < k)
  /\ p = "compare" =>
       /\ m \in Keys => Named(m, t)
       /\ l = 0 /\ Named(k, t) => m \in Keys /\ m <= k

Finds(r) == FindsAs(pc[r], key[r], x[r], level[r], next[r], seen[r], owed[r])

FindInv ==
  /\ owed \in [Readers -> Nat]
  /\ key \in [Readers -> Keys \cup {NULL}]
  /\ \A r \in Readers : Finds(r)

FoundInv == IInv /\ ListInv /\ FindInv

-----------------------------------------------------------------------------
LEMMA LevelZero == 0 \in Levels /\ 0 \in 0..(Height - 1)
BY ConstantFacts

(* The stores to a slot of level 0.                                        *)
LEMMA ZeroTyped ==
  ASSUME TypeInv, MessageInv, NEW n \in Nodes
  PROVE  /\ Len(slot[n][0]) \in Nat /\ Len(slot[n][0]) >= 1
         /\ \A i \in 1..Len(slot[n][0]) :
              /\ slot[n][0][i].time \in Nat /\ slot[n][0][i].time <= now
              /\ slot[n][0][i].node \in Keys \cup {NULL, Uninit}
              /\ slot[n][0][i].node \in Keys => i # 1
BY LevelZero, StoresTyped DEF MessageInv, MessageIn

(* A store to level 0.                                                     *)
LEMMA ZeroStored ==
  ASSUME TypeInv, NEW n \in Nodes, NEW to \in Keys \cup {NULL, Uninit},
         NEW release \in BOOLEAN, Store(n, to, release)
  PROVE  rung = 0 =>
         /\ now' = now + 1
         /\ \A m \in Nodes : m # n => slot'[m][0] = slot[m][0]
         /\ \A m \in Nodes, l \in Levels : l # 0 => slot'[m][l] = slot[m][l]
         /\ Len(slot'[n][0]) = Len(slot[n][0]) + 1
         /\ \A i \in 1..Len(slot[n][0]) : slot'[n][0][i] = slot[n][0][i]
         /\ slot'[n][0][Len(slot[n][0]) + 1] = Stored(now + 1, to, release)
<1>1. /\ now' = now + 1
      /\ \A m \in Nodes, l \in Levels :
           IF m = n /\ l = rung
           THEN /\ Len(slot'[m][l]) = Len(slot[m][l]) + 1
                /\ \A i \in 1..Len(slot[m][l]) : slot'[m][l][i] = slot[m][l][i]
                /\ slot'[m][l][Len(slot[m][l]) + 1] = Stored(now + 1, to, release)
           ELSE slot'[m][l] = slot[m][l]
  BY StoreProperties
<1>2. QED
  BY <1>1, LevelZero

LEMMA NamedLater ==
  ASSUME TypeInv, MessageInv, NEW n, NEW t \in Nat, NEW u \in Nat, t <= u, Named(n, t)
  PROVE  Named(n, u)
<1>1. CASE n = head
  BY <1>1 DEF Named, NamedIn
<1>2. CASE n # head
  <2>m. PICK m \in Nodes : \E j \in 1..Len(slot[m][0]) :
          slot[m][0][j].node = n /\ slot[m][0][j].time <= t
    BY <1>2 DEF Named, NamedIn
  <2>1. PICK j \in 1..Len(slot[m][0]) : slot[m][0][j].node = n /\ slot[m][0][j].time <= t
    BY <2>m
  <2>2. slot[m][0][j].time \in Nat
    BY ZeroTyped
  <2>3. slot[m][0][j].time <= u
    BY <2>1, <2>2
  <2>4. QED
    BY <2>1, <2>3 DEF Named, NamedIn
<1>3. QED
  BY <1>1, <1>2

(* Whatever is in the list at some time is there now: nothing is stored in *)
(* the future.                                                             *)
LEMMA NamedNow ==
  ASSUME TypeInv, MessageInv, NEW n, NEW t \in Nat, Named(n, t)
  PROVE  Named(n, now)
<1>1. CASE n = head
  BY <1>1 DEF Named, NamedIn
<1>2. CASE n # head
  <2>m. PICK m \in Nodes : \E j \in 1..Len(slot[m][0]) :
          slot[m][0][j].node = n
    BY <1>2 DEF Named, NamedIn
  <2>1. PICK j \in 1..Len(slot[m][0]) : slot[m][0][j].node = n
    BY <2>m
  <2>2. slot[m][0][j].time <= now
    BY ZeroTyped
  <2>3. QED
    BY <2>1, <2>2 DEF Named, NamedIn
<1>3. QED
  BY <1>1, <1>2

(* A node's slot leads to nodes that are in the list.                      *)
LEMMA NewestNamed ==
  ASSUME TypeInv, MessageInv, MessagesNamed, NEW n \in Nodes, NEW l \in Levels
  PROVE  /\ Newest(n, l) \in Keys \cup {NULL, Uninit}
         /\ Newest(n, l) \in Keys => Named(Newest(n, l), now)
<1> DEFINE i == Len(slot[n][l])
<1>1. i \in Nat /\ i >= 1 /\ i \in 1..Len(slot[n][l])
  BY StoresTyped DEF MessageInv
<1>2. /\ slot[n][l][i].node \in Keys \cup {NULL, Uninit} /\ slot[n][l][i].time \in Nat
      /\ Newest(n, l) = slot[n][l][i].node
  BY <1>1, StoresTyped DEF Newest
<1>3. slot[n][l][i].node \in Keys => Named(slot[n][l][i].node, slot[n][l][i].time)
  BY <1>1 DEF MessagesNamed
<1>4. QED
  BY <1>2, <1>3, NamedNow

(* Where the writer's search ends on level 0.                              *)
LEMMA PrevNamed ==
  ASSUME TypeInv, MessageInv, MessagesNamed, NodesStay, new \in Keys
  PROVE  /\ Prev(0) \in Nodes /\ Prev(0) # new
         /\ Named(Prev(0), now)
         /\ Prev(0) \in Keys => Prev(0) < new
         /\ \A k \in Keys : Named(k, now) /\ k < new => Prev(0) \in Keys /\ k <= Prev(0)
<1>1. ASSUME NEW k \in Keys PROVE Named(k, now) <=> k \in Linked(0)
  BY <1>1, LevelZero, NewestNamed DEF NodesStay, Linked
<1>2. CASE Prev(0) = head /\ \A k \in Linked(0) : ~(k < new)
  BY <1>1, <1>2, ConstantFacts DEF Named, NamedIn
<1>3. CASE /\ Prev(0) \in Linked(0) /\ Prev(0) \in Keys /\ Prev(0) < new
           /\ \A k \in Linked(0) : k < new => k <= Prev(0)
  <2>1. Prev(0) \in Nodes /\ Prev(0) # new
    <3>1. Prev(0) \in Nodes /\ Prev(0) \in Int /\ new \in Int
      BY <1>3, ConstantFacts
    <3>2. QED
      BY <1>3, <3>1
  <2>2. QED
    BY <1>1, <1>3, <2>1
<1>4. QED
  BY <1>2, <1>3, LevelZero, PrevIsLast

(* What is behind Prev is behind the new node.                             *)
LEMMA BehindPrev ==
  ASSUME TypeInv, MessageInv, SlotsNarrow, MessagesNamed, NodesStay,
         new \in Keys, ~Named(new, now),
         NEW j \in 1..Len(slot[Prev(0)][0]), slot[Prev(0)][0][j].node \in Keys
  PROVE  new < slot[Prev(0)][0][j].node
<1> DEFINE p == Prev(0)
           c == slot[p][0][j].node
<1>1. p \in Nodes /\ \A k \in Keys : Named(k, now) /\ k < new => p \in Keys /\ k <= p
  BY PrevNamed
<1>2. slot[p][0][j].time \in Nat /\ Named(c, slot[p][0][j].time)
  BY <1>1, LevelZero, ZeroTyped DEF MessagesNamed
<1>3. Named(c, now) /\ c # new
  BY <1>2, NamedNow
<1>4. p \in Keys => p < c
  BY <1>1 DEF SlotsNarrow
<1>5. c \in Int /\ new \in Int /\ (p \in Keys => p \in Int)
  BY ConstantFacts
<1> HIDE DEF p, c
<1>6. c \in Keys
  BY DEF p, c
<1>7. ~(c < new)
  <2> SUFFICES ASSUME c < new PROVE FALSE
    OBVIOUS
  <2>1. p \in Keys /\ c <= p /\ p < c
    BY <1>1, <1>3, <1>4, <1>6
  <2>2. QED
    BY <1>5, <2>1
<1>8. QED
  BY <1>3, <1>5, <1>7 DEF p, c

-----------------------------------------------------------------------------
(* Steps of the writer.                                                    *)

(* One store to level 0 puts nothing else into the list, and nothing       *)
(* before its time; one to a higher level nothing at all.                  *)
LEMMA NamedAfterStore ==
  ASSUME TypeInv, MessageInv, NEW n \in Nodes, NEW to \in Keys \cup {NULL, Uninit},
         NEW release \in BOOLEAN, Store(n, to, release), NEW k \in Nodes, NEW t \in Nat
  PROVE  Named(k, t)' <=> Named(k, t) \/ (rung = 0 /\ k = to /\ now + 1 <= t)
<1>1. \A m \in Nodes :
        IF m = n /\ rung = 0
        THEN /\ Len(slot'[m][0]) = Len(slot[m][0]) + 1
             /\ \A i \in 1..Len(slot[m][0]) : slot'[m][0][i] = slot[m][0][i]
             /\ slot'[m][0][Len(slot[m][0]) + 1] = Stored(now + 1, to, release)
        ELSE slot'[m][0] = slot[m][0]
  <2>1. \A m \in Nodes, l \in Levels :
          IF m = n /\ l = rung
          THEN /\ Len(slot'[m][l]) = Len(slot[m][l]) + 1
               /\ \A i \in 1..Len(slot[m][l]) : slot'[m][l][i] = slot[m][l][i]
               /\ slot'[m][l][Len(slot[m][l]) + 1] = Stored(now + 1, to, release)
          ELSE slot'[m][l] = slot[m][l]
    BY StoreProperties
  <2>2. QED
    BY <2>1, LevelZero
<1>2. \A m \in Nodes : Len(slot[m][0]) \in Nat
  BY ZeroTyped
<1>3. k = head => Named(k, t)' /\ Named(k, t)
  BY DEF Named, NamedIn
<1>4. ASSUME k # head, Named(k, t) PROVE Named(k, t)'
  <2>m. PICK m \in Nodes : \E j \in 1..Len(slot[m][0]) :
          slot[m][0][j].node = k /\ slot[m][0][j].time <= t
    BY <1>4 DEF Named, NamedIn
  <2>1. PICK j \in 1..Len(slot[m][0]) : slot[m][0][j].node = k /\ slot[m][0][j].time <= t
    BY <2>m
  <2>2. j \in 1..Len(slot'[m][0]) /\ slot'[m][0][j] = slot[m][0][j]
    BY <1>1, <1>2
  <2>3. QED
    BY <2>1, <2>2 DEF Named, NamedIn
<1>5. ASSUME rung = 0, k = to, now + 1 <= t PROVE Named(k, t)'
  <2> DEFINE j == Len(slot[n][0]) + 1
  <2>1. j \in 1..Len(slot'[n][0]) /\ slot'[n][0][j].node = k /\ slot'[n][0][j].time <= t
    BY <1>1, <1>2, <1>5 DEF Stored
  <2> HIDE DEF j
  <2>2. QED
    BY <2>1 DEF Named, NamedIn
<1>6. ASSUME k # head, Named(k, t)'
      PROVE  Named(k, t) \/ (rung = 0 /\ k = to /\ now + 1 <= t)
  <2>m. PICK m \in Nodes : \E j \in 1..Len(slot'[m][0]) :
          slot'[m][0][j].node = k /\ slot'[m][0][j].time <= t
    BY <1>6 DEF Named, NamedIn
  <2>1. PICK j \in 1..Len(slot'[m][0]) : slot'[m][0][j].node = k /\ slot'[m][0][j].time <= t
    BY <2>m
  <2>2. CASE j \in 1..Len(slot[m][0]) /\ slot'[m][0][j] = slot[m][0][j]
    BY <2>1, <2>2 DEF Named, NamedIn
  <2>3. CASE rung = 0 /\ slot'[m][0][j] = Stored(now + 1, to, release)
    BY <2>1, <2>3 DEF Stored
  <2>4. (j \in 1..Len(slot[m][0]) /\ slot'[m][0][j] = slot[m][0][j])
        \/ (rung = 0 /\ slot'[m][0][j] = Stored(now + 1, to, release))
    <3>1. CASE m = n /\ rung = 0
      <4>1. j \in 1..Len(slot[m][0]) \/ j = Len(slot[m][0]) + 1
        BY <1>1, <1>2, <2>1, <3>1
      <4>2. QED
        BY <1>1, <3>1, <4>1
    <3>2. CASE ~(m = n /\ rung = 0)
      BY <1>1, <2>1, <3>2
    <3>3. QED
      BY <3>1, <3>2
  <2>5. QED
    BY <2>2, <2>3, <2>4
<1>7. QED
  BY <1>3, <1>4, <1>5, <1>6

(* Steps that leave level 0 alone leave alone what is in the list.         *)
LEMMA ZeroKept ==
  ASSUME TypeInv, MessageInv, SlotsNarrow, NothingSkipped, NodesStay, CallOrder,
         \A m \in Nodes : slot'[m][0] = slot[m][0],
         now' \in Nat, now <= now', inserted' = inserted
  PROVE  /\ \A k, t : Named(k, t)' <=> Named(k, t)
         /\ \A k : Named(k, now)' <=> Named(k, now)
         /\ SlotsNarrow' /\ NothingSkipped' /\ NodesStay' /\ CallOrder'
<1>1. ASSUME NEW k, NEW t PROVE Named(k, t)' <=> Named(k, t)
  BY DEF Named, NamedIn
<1>2. ASSUME NEW k PROVE Named(k, now)' <=> Named(k, now)
  <2>1. now \in Nat
    BY DEF TypeInv
  <2>2. Named(k, now)' <=> Named(k, now')
    BY DEF Named, NamedIn
  <2>3. Named(k, now') <=> Named(k, now)
    BY <2>1, NamedNow, NamedLater
  <2>4. QED
    BY <2>2, <2>3
<1>3. SlotsNarrow'
  BY DEF SlotsNarrow
<1>4. NothingSkipped'
  <2>1. ASSUME NEW t \in Nat, NEW n \in Nodes, NEW k \in Keys,
               Named(n, t)', Named(k, t)', n \in Keys => n < k
        PROVE  \E j \in 1..Len(slot'[n][0]) :
                 /\ slot'[n][0][j].time <= t
                 /\ slot'[n][0][j].node \in Keys /\ slot'[n][0][j].node <= k
    <3>1. Named(n, t) /\ Named(k, t)
      BY <1>1, <2>1
    <3>2. QED
      BY <2>1, <3>1 DEF NothingSkipped
  <2>2. QED
    BY <2>1 DEF NothingSkipped
<1>5. NodesStay'
  <2>1. \A n \in Nodes : Newest(n, 0)' = Newest(n, 0)
    BY DEF Newest
  <2>2. Linked(0)' = Linked(0)
    BY <2>1 DEF Linked
  <2>3. \A k : Inserted(k)' <=> Inserted(k)
    BY DEF Inserted
  <2>4. QED
    BY <1>2, <2>2, <2>3 DEF NodesStay
<1>6. CallOrder'
  BY <1>1 DEF CallOrder
<1>7. QED
  BY <1>1, <1>2, <1>3, <1>4, <1>5, <1>6

LEMMA PrevKept == ASSUME Linked(0)' = Linked(0), new' = new PROVE Prev(0)' = Prev(0)
<1>1. {k \in Linked(0)' : k < new'} = {k \in Linked(0) : k < new}
  OBVIOUS
<1> DEFINE LastOf(S) == IF S = {} THEN head ELSE CHOOSE k \in S : \A j \in S : j <= k
<1>2. Prev(0) = LastOf({k \in Linked(0) : k < new})
  BY DEF Prev
<1>3. Prev(0)' = LastOf({k \in Linked(0)' : k < new'})
  BY DEF Prev
<1> HIDE DEF LastOf
<1>4. QED
  BY <1>1, <1>2, <1>3

(* Steps of Insert that store to no slot, but for its call.                *)
LEMMA QuietList ==
  ASSUME TypeInv, MessageInv, ListInv, UNCHANGED <<slot, new, rung, inserted>>,
         now' \in Nat, now <= now', stage = "idle" <=> stage' = "idle",
         stage' = "publish" => stage = "publish"
  PROVE  ListInv'
<1>1. /\ \A k, t : Named(k, t)' <=> Named(k, t)
      /\ \A k : Named(k, now)' <=> Named(k, now)
      /\ SlotsNarrow' /\ NothingSkipped' /\ NodesStay' /\ CallOrder'
  BY ZeroKept DEF ListInv
<1>2. MessagesNamed'
  <2>1. MessagesNamed /\ slot' = slot
    BY DEF ListInv
  <2>2. QED
    BY <1>1, <2>1 DEF MessagesNamed
<1>3. NamedUnlessPending'
  <2>1. Pending' <=> Pending
    BY DEF Pending
  <2>2. NamedUnlessPending /\ new' = new /\ inserted' = inserted
    BY DEF ListInv
  <2>3. \A n : Newest(n, 0)' = Newest(n, 0)
    BY DEF Newest
  <2>4. Linked(0)' = Linked(0)
    BY <2>3 DEF Linked
  <2>5. Prev(0)' = Prev(0)
    BY <2>2, <2>4, PrevKept
  <2>6. Newest(new, 0)' = Newest(new, 0) /\ Newest(Prev(0), 0)' = Newest(Prev(0), 0)
    BY <2>2, <2>5 DEF Newest
  <2>7. QED
    BY <1>1, <2>1, <2>2, <2>6 DEF NamedUnlessPending
<1>4. QED
  BY <1>1, <1>2, <1>3 DEF ListInv

LEMMA InsertCallList ==
  ASSUME IInv, ListInv, NEW k \in Keys, InsertCall(k)
  PROVE  ListInv'
<1>1. TypeInv /\ MessageInv /\ WriterInv /\ now \in Nat
  BY DEF IInv, TypeInv
<1>2. /\ slot' = slot /\ now' = now /\ rung' = rung
      /\ stage = "idle" /\ stage' = "found" /\ new' = k
      /\ inserted' = Append(inserted, k) /\ ~Inserted(k)
  BY DEF InsertCall, Inserted, IInv, TypeInv
<1>3. /\ Len(inserted) \in Nat /\ Len(inserted') = Len(inserted) + 1
      /\ \A i \in 1..Len(inserted) : inserted'[i] = inserted[i]
      /\ inserted'[Len(inserted) + 1] = k
  BY <1>1, <1>2, AppendProperties DEF TypeInv
<1>4. \A n, t : Named(n, t)' <=> Named(n, t)
  BY <1>2 DEF Named, NamedIn
<1>5. \A n : Named(n, now)' <=> Named(n, now)
  BY <1>2 DEF Named, NamedIn
<1>6. \A t \in Nat : ~Named(k, t)
  BY <1>1, <1>2, NamedNow DEF ListInv, NodesStay
<1>7. SlotsNarrow' /\ MessagesNamed' /\ NothingSkipped'
  <2>1. SlotsNarrow'
    BY <1>2 DEF ListInv, SlotsNarrow
  <2>2. MessagesNamed'
    BY <1>2, <1>4 DEF ListInv, MessagesNamed
  <2>3. NothingSkipped'
    BY <1>2, <1>4 DEF ListInv, NothingSkipped
  <2>4. QED
    BY <2>1, <2>2, <2>3
<1>8. NodesStay'
  <2>1. ASSUME NEW j \in Keys, Inserted(j) PROVE Inserted(j)'
    <3>1. PICK i \in 1..Len(inserted) : inserted[i] = j
      BY <2>1 DEF Inserted
    <3>2. i \in 1..Len(inserted') /\ inserted'[i] = j
      BY <1>3, <3>1
    <3>3. QED
      BY <3>2 DEF Inserted
  <2>2. Linked(0)' = Linked(0)
    BY <1>2 DEF Linked, Newest
  <2>3. QED
    BY <1>5, <2>1, <2>2 DEF ListInv, NodesStay
<1>9. CallOrder'
  <2>1. ASSUME NEW j \in 1..Len(inserted'), NEW t \in Nat, NEW i \in 1..j,
               Named(inserted'[j], t)
        PROVE  Named(inserted'[i], t)
    <3>1. j \in 1..Len(inserted)
      BY <1>3, <1>6, <2>1
    <3>2. i \in 1..Len(inserted)
      BY <1>3, <3>1
    <3>3. QED
      BY <1>3, <2>1, <3>1, <3>2 DEF ListInv, CallOrder
  <2>2. QED
    BY <1>4, <2>1 DEF CallOrder
<1>10. NamedUnlessPending'
  <2>1. rung = 0 /\ ~Pending
    BY <1>1, <1>2 DEF WriterInv, Pending
  <2>2. \A i \in 1..Len(inserted) : Named(inserted[i], now)
    BY <2>1 DEF ListInv, NamedUnlessPending
  <2>3. Pending'
    BY <1>2, <2>1 DEF Pending
  <2>4. \A i \in 1..Len(inserted') : inserted'[i] = new' \/ Named(inserted'[i], now)
    BY <1>2, <1>3, <2>2
  <2>5. ~Named(k, now)
    BY <1>1, <1>6
  <2>6. QED
    BY <1>2, <1>5, <2>3, <2>4, <2>5 DEF NamedUnlessPending
<1>11. QED
  BY <1>7, <1>8, <1>9, <1>10 DEF ListInv

(* A store to a level above 0, of a node that is in the list.              *)
LEMMA StoreAbove ==
  ASSUME TypeInv, MessageInv, ListInv, rung # 0,
         NEW n \in Nodes, NEW to \in Keys \cup {NULL, Uninit},
         NEW release \in BOOLEAN, Store(n, to, release), UNCHANGED inserted,
         to \in Keys => Named(to, now), rung' # 0 \/ stage' = "idle"
  PROVE  ListInv'
<1>1. /\ now \in Nat /\ now' = now + 1 /\ rung \in Levels
      /\ \A m \in Nodes, l \in Levels :
           IF m = n /\ l = rung
           THEN /\ Len(slot'[m][l]) = Len(slot[m][l]) + 1
                /\ \A i \in 1..Len(slot[m][l]) : slot'[m][l][i] = slot[m][l][i]
                /\ slot'[m][l][Len(slot[m][l]) + 1] = Stored(now + 1, to, release)
           ELSE slot'[m][l] = slot[m][l]
  <2>1. now \in Nat /\ rung \in Levels
    BY ConstantFacts DEF TypeInv
  <2>2. QED
    BY <2>1, StoreProperties
<1>2. \A m \in Nodes : slot'[m][0] = slot[m][0]
  BY <1>1, LevelZero
<1>3. /\ \A k, t : Named(k, t)' <=> Named(k, t)
      /\ \A k : Named(k, now)' <=> Named(k, now)
      /\ SlotsNarrow' /\ NothingSkipped' /\ NodesStay' /\ CallOrder'
  <2>1. now' \in Nat /\ now <= now'
    BY <1>1
  <2>2. QED
    BY <1>2, <2>1, ZeroKept DEF ListInv
<1>4. MessagesNamed'
  <2>1. ASSUME NEW m \in Nodes, NEW l \in Levels, NEW i \in 1..Len(slot'[m][l]),
               slot'[m][l][i].node \in Keys
        PROVE  Named(slot'[m][l][i].node, slot'[m][l][i].time)
    <3>1. Len(slot[m][l]) \in Nat
      BY StoresTyped
    <3>2. CASE i \in 1..Len(slot[m][l]) /\ slot'[m][l][i] = slot[m][l][i]
      BY <2>1, <3>2 DEF ListInv, MessagesNamed
    <3>3. CASE slot'[m][l][i] = Stored(now + 1, to, release)
      <4>1. to \in Keys /\ slot'[m][l][i].node = to /\ slot'[m][l][i].time = now + 1
        BY <2>1, <3>3 DEF Stored
      <4>2. Named(to, now) /\ now + 1 \in Nat /\ now <= now + 1
        BY <1>1, <4>1
      <4>3. Named(to, now + 1)
        BY <1>1, <4>2, NamedLater
      <4>4. QED
        BY <4>1, <4>3
    <3>4. CASE m = n /\ l = rung
      <4>1. i \in 1..Len(slot[m][l]) \/ i = Len(slot[m][l]) + 1
        BY <1>1, <3>1, <3>4
      <4>2. QED
        BY <1>1, <3>2, <3>3, <3>4, <4>1
    <3>5. CASE ~(m = n /\ l = rung)
      BY <1>1, <3>2, <3>5
    <3>6. QED
      BY <3>4, <3>5
  <2>2. QED
    BY <1>3, <2>1 DEF MessagesNamed
<1>5. NamedUnlessPending'
  <2>1. ~Pending /\ ~Pending'
    BY DEF Pending
  <2>2. QED
    BY <1>3, <2>1 DEF ListInv, NamedUnlessPending
<1>6. QED
  BY <1>3, <1>4, <1>5 DEF ListInv

(* The new node's own slot of level 0 leads where Prev's does.             *)
LEMMA SetOwnNextList ==
  ASSUME IInv, ListInv, SetOwnNext
  PROVE  ListInv'
<1> DEFINE p == Prev(rung)
           to == Newest(p, rung)
<1>1. TypeInv /\ MessageInv /\ WriterInv
  BY DEF IInv
<1>2. /\ Store(new, to, FALSE) /\ UNCHANGED <<new, rung, inserted>>
      /\ stage = "own" /\ stage' = "publish"
      /\ new \in Keys /\ new \in Nodes /\ rung \in Levels
      /\ Len(slot[new][rung]) = 1
  <2>1. stage = "own" /\ rung \in Levels /\ rung \in Nat /\ ~(rung < rung)
    BY <1>1, ConstantFacts DEF SetOwnNext, TypeInv
  <2>2. new \in Keys /\ Len(slot[new][rung]) = 1
    BY <1>1, <2>1 DEF WriterInv
  <2>3. QED
    BY <2>1, <2>2, ConstantFacts DEF SetOwnNext
<1>3. p \in Nodes /\ p # new
  BY <1>1, <1>2, PrevProperties
<1>4. to \in Keys \cup {NULL, Uninit} /\ (to \in Keys => Named(to, now))
  BY <1>1, <1>2, <1>3, NewestNamed DEF ListInv
<1> HIDE DEF to
<1> PICK release : release = FALSE
  OBVIOUS
<1>5. release \in BOOLEAN /\ Store(new, to, release)
  BY <1>2
<1>6. CASE rung # 0
  BY <1>1, <1>2, <1>4, <1>5, <1>6, StoreAbove
<1>7. CASE rung = 0
  <2>1. /\ now \in Nat /\ now' = now + 1
        /\ \A m \in Nodes, l \in Levels :
             IF m = new /\ l = 0
             THEN /\ Len(slot'[m][l]) = Len(slot[m][l]) + 1
                  /\ \A i \in 1..Len(slot[m][l]) : slot'[m][l][i] = slot[m][l][i]
                  /\ slot'[m][l][Len(slot[m][l]) + 1] = Stored(now + 1, to, release)
             ELSE slot'[m][l] = slot[m][l]
    <3>1. now \in Nat
      BY <1>1 DEF TypeInv
    <3>2. QED
      BY <1>1, <1>2, <1>4, <1>5, <1>7, <3>1, StoreProperties
  <2>2. /\ Len(slot[new][0]) = 1 /\ Len(slot'[new][0]) = 2
        /\ slot'[new][0][1] = slot[new][0][1]
        /\ slot'[new][0][2].node = to /\ slot'[new][0][2].time = now + 1
    <3>1. Len(slot[new][0]) = 1
      BY <1>2, <1>7
    <3>2. /\ Len(slot'[new][0]) = Len(slot[new][0]) + 1
          /\ \A i \in 1..Len(slot[new][0]) : slot'[new][0][i] = slot[new][0][i]
          /\ slot'[new][0][Len(slot[new][0]) + 1] = Stored(now + 1, to, release)
      BY <1>2, <2>1, LevelZero
    <3>3. 1 \in 1..1 /\ 1 + 1 = 2
      OBVIOUS
    <3>4. slot'[new][0][2] = Stored(now + 1, to, release)
      BY <3>1, <3>2, <3>3
    <3>5. QED
      BY <3>1, <3>2, <3>3, <3>4 DEF Stored
  <2>3. \A m \in Nodes : m # new => slot'[m][0] = slot[m][0]
    BY <2>1, LevelZero
  <2>4. ~Named(new, now) /\ to = Newest(Prev(0), 0)
    BY <1>2, <1>7 DEF ListInv, NamedUnlessPending, Pending, to
  <2>5. ASSUME NEW k \in Nodes, NEW t \in Nat PROVE Named(k, t)' <=> Named(k, t)
    <3>1. Named(k, t)' <=> Named(k, t) \/ (k = to /\ now + 1 <= t)
      BY <1>1, <1>2, <1>4, <1>5, <1>7, NamedAfterStore
    <3>2. ASSUME k = to, now + 1 <= t PROVE Named(k, t)
      <4>1. Named(k, now)
        <5>1. k = head => Named(k, now)
          BY DEF Named, NamedIn
        <5>2. QED
          BY <1>4, <3>2, <5>1 DEF Nodes
      <4>2. now <= t
        BY <2>1, <3>2
      <4>3. QED
        BY <1>1, <2>1, <4>1, <4>2, NamedLater
    <3>3. QED
      BY <3>1, <3>2
  <2>6. ASSUME NEW k \in Nodes PROVE Named(k, now)' <=> Named(k, now)
    <3>1. Named(k, now)' <=> NamedIn(slot', k, now + 1)
      BY <2>1 DEF Named
    <3>2. now + 1 \in Nat /\ now <= now + 1
      BY <2>1
    <3>3. QED
      <4>1. NamedIn(slot', k, now + 1) <=> Named(k, now + 1)
        BY <2>5, <3>2 DEF Named
      <4>2. QED
        BY <1>1, <2>1, <3>1, <3>2, <4>1, NamedLater, NamedNow
  <2>7. to \in Keys => new < to
    <3>1. Prev(0) \in Nodes
      BY <1>3, <1>7
    <3> DEFINE i == Len(slot[Prev(0)][0])
    <3>2. i \in 1..Len(slot[Prev(0)][0])
      BY <1>1, <3>1, ZeroTyped
    <3>3. to = slot[Prev(0)][0][i].node
      BY <2>4 DEF Newest
    <3> HIDE DEF i
    <3>4. QED
      BY <1>1, <1>2, <2>4, <3>2, <3>3, BehindPrev DEF ListInv
  <2>8. SlotsNarrow'
    <3>1. ASSUME NEW n \in Nodes, NEW i \in 1..Len(slot'[n][0])
          PROVE  /\ n \in Keys /\ slot'[n][0][i].node \in Keys => n < slot'[n][0][i].node
                 /\ \A j \in 1..(i - 1) :
                      /\ slot'[n][0][j].time < slot'[n][0][i].time
                      /\ n = head \/ j > 1 => Nearer(slot'[n][0][i].node, slot'[n][0][j].node)
      <4>1. CASE n # new
        BY <2>3, <3>1, <4>1 DEF ListInv, SlotsNarrow
      <4>2. CASE n = new
        <5>1. n # head /\ (i = 1 \/ i = 2)
          <6>1. i \in 1..2
            BY <2>2, <4>2
          <6>2. QED
            BY <1>2, <4>2, <6>1, ConstantFacts
        <5>2. /\ slot[n][0][1].time \in Nat /\ slot[n][0][1].time <= now
              /\ slot[n][0][1].node \notin Keys
          BY <1>1, <2>2, <4>2, ZeroTyped
        <5>3. CASE i = 1
          BY <2>2, <4>2, <5>2, <5>3
        <5>4. CASE i = 2
          <6>1. \A j \in 1..(i - 1) : j = 1
            BY <5>4
          <6>2. slot'[n][0][1].time < slot'[n][0][2].time
            BY <2>1, <2>2, <4>2, <5>2
          <6>3. slot'[n][0][2].node \in Keys => n < slot'[n][0][2].node
            BY <2>2, <2>7, <4>2
          <6>4. QED
            BY <5>1, <5>4, <6>1, <6>2, <6>3
        <5>5. QED
          BY <5>1, <5>3, <5>4
      <4>3. QED
        BY <4>1, <4>2
    <3>2. QED
      BY <3>1 DEF SlotsNarrow
  <2>9. MessagesNamed'
    <3>1. ASSUME NEW m \in Nodes, NEW l \in Levels, NEW i \in 1..Len(slot'[m][l]),
                 slot'[m][l][i].node \in Keys
          PROVE  NamedIn(slot', slot'[m][l][i].node, slot'[m][l][i].time)
      <4>1. Named(slot'[m][l][i].node, slot'[m][l][i].time) /\ slot'[m][l][i].time \in Nat
        <5>1. CASE ~(m = new /\ l = 0)
          <6>1. slot'[m][l] = slot[m][l]
            BY <2>1, <5>1
          <6>2. QED
            BY <1>1, <3>1, <6>1, StoresTyped DEF ListInv, MessagesNamed
        <5>2. CASE m = new /\ l = 0
          <6>1. i \in 1..2
            BY <2>2, <5>2
          <6>2. slot[new][0][1].node \notin Keys
            BY <1>1, <1>2, <2>2, ZeroTyped
          <6>3. i = 2
            <7>1. i = 1 \/ i = 2
              BY <6>1
            <7>2. QED
              BY <2>2, <3>1, <5>2, <6>2, <7>1
          <6>4. to \in Keys /\ slot'[m][l][i].node = to /\ slot'[m][l][i].time = now + 1
            BY <2>2, <3>1, <5>2, <6>3
          <6>5. now + 1 \in Nat /\ now <= now + 1 /\ Named(to, now)
            BY <1>4, <2>1, <6>4
          <6>6. Named(to, now + 1)
            BY <1>1, <2>1, <6>5, NamedLater
          <6>7. QED
            BY <6>4, <6>5, <6>6
        <5>3. QED
          BY <5>1, <5>2
      <4>2. slot'[m][l][i].node \in Nodes
        BY <3>1, ConstantFacts
      <4> DEFINE k == slot'[m][l][i].node
                 t == slot'[m][l][i].time
      <4>3. \A kk \in Nodes, tt \in Nat : Named(kk, tt) => NamedIn(slot', kk, tt)
        BY <2>5 DEF Named
      <4> HIDE DEF k, t
      <4>4. k \in Nodes /\ t \in Nat /\ Named(k, t)
        BY <4>1, <4>2 DEF k, t
      <4>5. NamedIn(slot', k, t)
        BY <4>3, <4>4
      <4>6. QED
        BY <4>5 DEF k, t
    <3>2. QED
      BY <3>1 DEF MessagesNamed, Named
  <2>10. NothingSkipped'
    <3>1. ASSUME NEW t \in Nat, NEW n \in Nodes, NEW k \in Keys,
                 Named(n, t)', Named(k, t)', n \in Keys => n < k
          PROVE  \E j \in 1..Len(slot'[n][0]) :
                   /\ slot'[n][0][j].time <= t
                   /\ slot'[n][0][j].node \in Keys /\ slot'[n][0][j].node <= k
      <4>1. Named(n, t) /\ Named(k, t)
        BY <2>5, <3>1, ConstantFacts
      <4>2. PICK j \in 1..Len(slot[n][0]) :
              /\ slot[n][0][j].time <= t
              /\ slot[n][0][j].node \in Keys /\ slot[n][0][j].node <= k
        BY <3>1, <4>1 DEF ListInv, NothingSkipped
      <4>3. j \in 1..Len(slot'[n][0]) /\ slot'[n][0][j] = slot[n][0][j]
        <5>1. CASE n = new
          <6>1. j \in 1..1
            BY <2>2, <5>1
          <6>2. j = 1 /\ 1 \in 1..2
            BY <6>1
          <6>3. QED
            BY <2>2, <5>1, <6>2
        <5>2. CASE n # new
          BY <2>3, <5>2
        <5>3. QED
          BY <5>1, <5>2
      <4>4. QED
        BY <4>2, <4>3
    <3>2. QED
      BY <3>1 DEF NothingSkipped
  <2>11. Newest(new, 0)' = to /\ \A m \in Nodes : m # new => Newest(m, 0)' = Newest(m, 0)
    BY <1>2, <2>2, <2>3 DEF Newest
  <2>12. Linked(0)' = Linked(0)
    <3>1. Newest(new, 0) \notin Keys
      BY <1>1, <1>2, <2>2, ZeroTyped DEF Newest
    <3>2. Prev(0) \in Nodes /\ Prev(0) # new
      BY <1>3, <1>7
    <3>3. ASSUME NEW k \in Keys
          PROVE  (\E n \in Nodes : Newest(n, 0)' = k) <=> (\E n \in Nodes : Newest(n, 0) = k)
      BY <1>2, <2>4, <2>11, <3>1, <3>2
    <3>4. QED
      BY <3>3 DEF Linked
  <2>13. NodesStay'
    <3>1. \A k : Inserted(k)' <=> Inserted(k)
      BY <1>2 DEF Inserted
    <3>2. QED
      BY <2>6, <2>12, <3>1, ConstantFacts DEF ListInv, NodesStay
  <2>14. \A i \in 1..Len(inserted) : inserted[i] \in Nodes
    <3>1. inserted \in Seq(Keys)
      BY <1>1 DEF TypeInv
    <3>2. \A i \in 1..Len(inserted) : inserted[i] \in Keys
      BY <3>1
    <3>3. QED
      BY <3>2 DEF Nodes
  <2>15. CallOrder'
    <3>1. ASSUME NEW j \in 1..Len(inserted), NEW t \in Nat, NEW i \in 1..j,
                 NamedIn(slot', inserted[j], t)
          PROVE  NamedIn(slot', inserted[i], t)
      <4>1. i \in 1..Len(inserted)
        <5>1. inserted \in Seq(Keys)
          BY <1>1 DEF TypeInv
        <5>2. Len(inserted) \in Nat
          BY <5>1
        <5>3. QED
          BY <3>1, <5>2
      <4>2. inserted[i] \in Nodes /\ inserted[j] \in Nodes
        BY <2>14, <4>1
      <4>3. NamedIn(slot, inserted[j], t)
        BY <2>5, <3>1, <4>2 DEF Named
      <4>4. NamedIn(slot, inserted[i], t)
        BY <4>3 DEF ListInv, CallOrder, Named
      <4>5. NamedIn(slot', inserted[i], t)
        BY <2>5, <4>2, <4>4 DEF Named
      <4>6. QED
        BY <4>5
    <3>2. inserted' = inserted
      BY <1>2
    <3>3. QED
      BY <3>1, <3>2 DEF CallOrder, Named
  <2>16. NamedUnlessPending'
    <3>1. Prev(0)' = Prev(0)
      BY <1>2, <2>12, PrevKept
    <3>2. Newest(Prev(0), 0)' = Newest(Prev(0), 0)
      <4>1. Prev(0) \in Nodes /\ Prev(0) # new
        BY <1>3, <1>7
      <4>2. slot'[Prev(0)] [0] = slot[Prev(0)][0]
        BY <2>3, <4>1
      <4>3. QED
        BY <3>1, <4>2 DEF Newest
    <3>3. Newest(new, 0)' = Newest(Prev(0), 0)'
      BY <2>4, <2>11, <3>2
    <3>4. ~Named(new, now)'
      BY <1>2, <2>4, <2>6 DEF Named
    <3>5. \A i \in 1..Len(inserted) : (Pending /\ inserted[i] = new) \/ Named(inserted[i], now)
      BY DEF ListInv, NamedUnlessPending
    <3>6. \A i \in 1..Len(inserted) :
            inserted'[i] = new' \/ NamedIn(slot', inserted'[i], now')
      BY <1>2, <2>6, <2>14, <3>5 DEF Named
    <3>7. Pending'
      BY <1>2, <1>7 DEF Pending
    <3>8. QED
      BY <1>2, <3>3, <3>4, <3>6, <3>7 DEF NamedUnlessPending, Named
  <2>17. QED
    BY <2>8, <2>9, <2>10, <2>13, <2>15, <2>16 DEF ListInv
<1>8. QED
  BY <1>6, <1>7

(* The new node is linked: level 0 leads to it.                            *)
LEMMA PublishList ==
  ASSUME IInv, ListInv, Publish
  PROVE  ListInv'
<1>1. TypeInv /\ MessageInv /\ WriterInv
  BY DEF IInv
<1>2. /\ Store(Prev(rung), new, TRUE) /\ inserted' = inserted /\ stage = "publish"
      /\ new \in Keys /\ new \in Nodes /\ rung \in Levels /\ Inserted(new)
      /\ Prev(rung) \in Nodes /\ Prev(rung) # new
  <2>1. stage = "publish" /\ rung \in Levels /\ new \in Keys /\ Inserted(new)
    BY <1>1, ConstantFacts DEF Publish, TypeInv, WriterInv
  <2>2. QED
    BY <1>1, <2>1, PrevProperties, ConstantFacts DEF Publish
<1>3. rung' # 0 \/ stage' = "idle"
  <2>1. rung \in 0..(Height - 1)
    BY <1>1 DEF TypeInv
  <2>2. QED
    BY <2>1, ConstantFacts DEF Publish, OnToNextRung
<1> PICK release \in BOOLEAN : release = TRUE
  OBVIOUS
<1>4. release \in BOOLEAN /\ Store(Prev(rung), new, release) /\ new \in Keys \cup {NULL, Uninit}
  BY <1>2
<1>5. CASE rung # 0
  <2>1. Named(new, now)
    <3>1. PICK i \in 1..Len(inserted) : inserted[i] = new
      BY <1>2 DEF Inserted
    <3>2. QED
      BY <1>5, <3>1 DEF ListInv, NamedUnlessPending, Pending
  <2>2. QED
    BY <1>1, <1>2, <1>3, <1>4, <1>5, <2>1, StoreAbove
<1>6. CASE rung = 0
  <2> DEFINE p == Prev(0)
             c == Len(slot[p][0]) + 1
  <2>1. /\ now \in Nat /\ now' = now + 1
        /\ \A m \in Nodes : m # p => slot'[m][0] = slot[m][0]
        /\ \A m \in Nodes, l \in Levels : l # 0 => slot'[m][l] = slot[m][l]
        /\ Len(slot'[p][0]) = c
        /\ \A i \in 1..Len(slot[p][0]) : slot'[p][0][i] = slot[p][0][i]
        /\ slot'[p][0][c] = Stored(now + 1, new, release)
    <3>1. now \in Nat
      BY <1>1 DEF TypeInv
    <3>2. p \in Nodes /\ Store(p, new, release)
      BY <1>2, <1>4, <1>6
    <3> HIDE DEF p
    <3>3. QED
      BY <1>1, <1>4, <1>6, <3>1, <3>2, ZeroStored
  <2>2. /\ p \in Nodes /\ p # new /\ Named(p, now) /\ (p \in Keys => p < new)
        /\ \A k \in Keys : Named(k, now) /\ k < new => p \in Keys /\ k <= p
    BY <1>1, <1>2, PrevNamed DEF ListInv
  <2>3. ~Named(new, now) /\ Newest(new, 0) = Newest(p, 0)
    BY <1>2, <1>6 DEF ListInv, NamedUnlessPending, Pending
  <2>4. \A j \in 1..Len(slot[p][0]) : slot[p][0][j].node \in Keys => new < slot[p][0][j].node
    BY <1>1, <1>2, <2>3, BehindPrev DEF ListInv
  <2>5. \A k \in Nodes, t \in Nat :
          NamedIn(slot', k, t) <=> Named(k, t) \/ (k = new /\ now + 1 <= t)
    BY <1>1, <1>2, <1>4, <1>6, <2>2, NamedAfterStore DEF Named
  <2>6. \A k \in Nodes : NamedIn(slot', k, now + 1) <=> Named(k, now) \/ k = new
    <3>1. ASSUME NEW k \in Nodes PROVE Named(k, now + 1) <=> Named(k, now)
      BY <1>1, <2>1, NamedLater, NamedNow
    <3>2. now + 1 \in Nat /\ now + 1 <= now + 1
      BY <2>1
    <3>3. QED
      BY <2>5, <3>1, <3>2
  <2> HIDE DEF p
  <2>8. /\ c \in Nat /\ c >= 2 /\ Len(slot'[p][0]) = c
        /\ \A i \in 1..Len(slot'[p][0]) : i # c => i \in 1..Len(slot[p][0])
        /\ \A i \in 1..Len(slot[p][0]) : i \in 1..c /\ i < c /\ slot'[p][0][i] = slot[p][0][i]
        /\ slot'[p][0][c].node = new /\ slot'[p][0][c].time = now + 1
    <3>1. Len(slot[p][0]) \in Nat /\ Len(slot[p][0]) >= 1
      BY <1>1, <2>2, ZeroTyped
    <3>2. QED
      BY <2>1, <3>1 DEF Stored
  <2>9. \A m \in Nodes : m # p => slot'[m][0] = slot[m][0]
    BY <2>1
  <2> HIDE DEF c
  <2>10. SlotsNarrow'
    <3>1. ASSUME NEW n \in Nodes, NEW i \in 1..Len(slot'[n][0])
          PROVE  /\ n \in Keys /\ slot'[n][0][i].node \in Keys => n < slot'[n][0][i].node
                 /\ \A j \in 1..(i - 1) :
                      /\ slot'[n][0][j].time < slot'[n][0][i].time
                      /\ n = head \/ j > 1 => Nearer(slot'[n][0][i].node, slot'[n][0][j].node)
      <4>1. CASE n # p
        BY <2>9, <3>1, <4>1 DEF ListInv, SlotsNarrow
      <4>2. CASE n = p /\ i # c
        <5>1. i \in 1..Len(slot[n][0]) /\ \A j \in 1..(i - 1) : j \in 1..Len(slot[n][0])
          BY <2>8, <4>2
        <5>2. slot'[n][0][i] = slot[n][0][i]
              /\ \A j \in 1..(i - 1) : slot'[n][0][j] = slot[n][0][j]
          BY <2>8, <4>2, <5>1
        <5>3. QED
          BY <5>1, <5>2 DEF ListInv, SlotsNarrow
      <4>3. CASE n = p /\ i = c
        <5>1. n \in Keys /\ slot'[n][0][i].node \in Keys => n < slot'[n][0][i].node
          BY <2>2, <2>8, <4>3
        <5>2. ASSUME NEW j \in 1..(i - 1)
              PROVE  /\ slot'[n][0][j].time < slot'[n][0][i].time
                     /\ Nearer(slot'[n][0][i].node, slot'[n][0][j].node)
          <6>1. j \in 1..Len(slot[n][0])
            <7>1. j \in 1..Len(slot'[n][0]) /\ j # c
              BY <2>8, <4>3
            <7>2. QED
              BY <2>8, <4>3, <7>1
          <6>2. slot[n][0][j].time \in Nat /\ slot[n][0][j].time <= now
            BY <1>1, <6>1, ZeroTyped
          <6>3. slot[n][0][j].node \in Keys => new < slot[n][0][j].node
            BY <2>4, <4>3, <6>1
          <6>4. slot'[n][0][j] = slot[n][0][j]
            BY <2>8, <4>3, <6>1
          <6>5. slot[n][0][j].time < now + 1
            BY <2>1, <6>2
          <6>6. QED
            BY <1>2, <2>8, <4>3, <6>3, <6>4, <6>5 DEF Nearer
        <5>3. QED
          BY <5>1, <5>2
      <4>4. QED
        BY <4>1, <4>2, <4>3
    <3>2. QED
      BY <3>1 DEF SlotsNarrow
  <2>11. MessagesNamed'
    <3>1. ASSUME NEW m \in Nodes, NEW l \in Levels, NEW i \in 1..Len(slot'[m][l]),
                 slot'[m][l][i].node \in Keys
          PROVE  NamedIn(slot', slot'[m][l][i].node, slot'[m][l][i].time)
      <4>1. CASE i \in 1..Len(slot[m][l]) /\ slot'[m][l][i] = slot[m][l][i]
        <5> DEFINE k == slot[m][l][i].node
                   t == slot[m][l][i].time
        <5>1. t \in Nat /\ k \in Keys
          BY <1>1, <3>1, <4>1, StoresTyped
        <5>2. Named(k, t)
          BY <4>1, <5>1 DEF ListInv, MessagesNamed
        <5> HIDE DEF k, t
        <5>3. NamedIn(slot', k, t)
          BY <2>5, <5>1, <5>2, ConstantFacts
        <5>4. QED
          BY <4>1, <5>3 DEF k, t
      <4>2. CASE slot'[m][l][i].node = new /\ slot'[m][l][i].time = now + 1
        BY <1>2, <2>6, <4>2
      <4>3. CASE m = p /\ l = 0
        <5>1. i = c \/ i \in 1..Len(slot[p][0])
          BY <2>8, <4>3
        <5>2. QED
          BY <2>8, <4>1, <4>2, <4>3, <5>1
      <4>4. CASE ~(m = p /\ l = 0)
        <5>1. slot'[m][l] = slot[m][l]
          BY <2>1, <4>4
        <5>2. QED
          BY <4>1, <5>1
      <4>5. QED
        BY <4>3, <4>4
    <3>2. QED
      BY <3>1 DEF MessagesNamed, Named
  <2>12. NothingSkipped'
    <3>1. ASSUME NEW t \in Nat, NEW n \in Nodes, NEW k \in Keys,
                 NamedIn(slot', n, t), NamedIn(slot', k, t), n \in Keys => n < k
          PROVE  \E j \in 1..Len(slot'[n][0]) :
                   /\ slot'[n][0][j].time <= t
                   /\ slot'[n][0][j].node \in Keys /\ slot'[n][0][j].node <= k
      <4>1. k \in Nodes /\ k \in Int /\ new \in Int /\ Keys \subseteq Int
        BY <1>2, ConstantFacts
      <4>2. ASSUME Named(n, t), Named(k, t)
            PROVE  \E j \in 1..Len(slot'[n][0]) :
                     /\ slot'[n][0][j].time <= t
                     /\ slot'[n][0][j].node \in Keys /\ slot'[n][0][j].node <= k
        <5>1. PICK j \in 1..Len(slot[n][0]) :
                /\ slot[n][0][j].time <= t
                /\ slot[n][0][j].node \in Keys /\ slot[n][0][j].node <= k
          BY <3>1, <4>2 DEF ListInv, NothingSkipped
        <5>2. j \in 1..Len(slot'[n][0]) /\ slot'[n][0][j] = slot[n][0][j]
          BY <2>8, <2>9
        <5>3. QED
          BY <5>1, <5>2
      <4>3. ASSUME n = new, now + 1 <= t, Named(k, t)
            PROVE  \E j \in 1..Len(slot'[n][0]) :
                     /\ slot'[n][0][j].time <= t
                     /\ slot'[n][0][j].node \in Keys /\ slot'[n][0][j].node <= k
        <5>1. new < k /\ Named(k, now)
          BY <1>1, <1>2, <3>1, <4>3, NamedNow
        <5>2. p \in Keys => p < k
          <6>1. p \in Keys => p < new /\ p \in Int
            BY <2>2, ConstantFacts
          <6>2. QED
            BY <4>1, <5>1, <6>1
        <5>3. PICK j \in 1..Len(slot[p][0]) :
                slot[p][0][j].node \in Keys /\ slot[p][0][j].node <= k
          BY <2>1, <2>2, <5>1, <5>2 DEF ListInv, NothingSkipped
        <5> DEFINE last1 == Len(slot[p][0])
        <5>4. last1 \in Nat /\ last1 \in 1..Len(slot[p][0]) /\ Newest(p, 0) = slot[p][0][last1].node
          BY <1>1, <2>2, ZeroTyped DEF Newest
        <5>5. Newest(p, 0) \in Keys /\ Newest(p, 0) <= k
          <6>1. j # 1
            BY <1>1, <2>2, <5>3, ZeroTyped
          <6>2. CASE j = last1
            BY <5>3, <5>4, <6>2
          <6>3. CASE j # last1
            <7>1. j \in 1..(last1 - 1) /\ j > 1
              BY <5>3, <5>4, <6>1, <6>3
            <7>2. Nearer(slot[p][0][last1].node, slot[p][0][j].node)
              BY <2>2, <5>4, <7>1 DEF ListInv, SlotsNarrow
            <7>3. Newest(p, 0) \in Keys /\ Newest(p, 0) < slot[p][0][j].node
              BY <5>3, <5>4, <7>2 DEF Nearer
            <7>4. slot[p][0][j].node \in Int /\ Newest(p, 0) \in Int
              BY <4>1, <5>3, <7>3
            <7>5. QED
              BY <4>1, <5>3, <7>3, <7>4
          <6>4. QED
            BY <6>2, <6>3
        <5> DEFINE own == Len(slot[new][0])
        <5>6. /\ own \in 1..Len(slot'[new][0]) /\ slot'[new][0][own].node = Newest(p, 0)
              /\ slot'[new][0][own].time <= now /\ slot'[new][0][own].time \in Nat
          <6>1. slot'[new][0] = slot[new][0]
            BY <1>2, <2>2, <2>9
          <6>2. own \in 1..own /\ slot[new][0][own].time <= now /\ slot[new][0][own].time \in Nat
            BY <1>1, <1>2, ZeroTyped
          <6>3. slot[new][0][own].node = Newest(new, 0)
            BY DEF Newest
          <6>4. QED
            BY <2>3, <6>1, <6>2, <6>3
        <5>7. slot'[new][0][own].time <= t
          BY <2>1, <4>3, <5>6
        <5> HIDE DEF own
        <5>8. QED
          BY <4>3, <5>5, <5>6, <5>7
      <4>4. ASSUME n = p, k = new, now + 1 <= t
            PROVE  \E j \in 1..Len(slot'[n][0]) :
                     /\ slot'[n][0][j].time <= t
                     /\ slot'[n][0][j].node \in Keys /\ slot'[n][0][j].node <= k
        <5>1. c \in 1..Len(slot'[n][0])
          BY <2>8, <4>4
        <5>2. slot'[n][0][c].time <= t /\ slot'[n][0][c].node \in Keys /\ slot'[n][0][c].node <= k
          BY <1>2, <2>8, <4>1, <4>4
        <5>3. QED
          BY <5>1, <5>2
      <4>5. ASSUME n # p, k = new, now + 1 <= t, Named(n, t)
            PROVE  \E j \in 1..Len(slot'[n][0]) :
                     /\ slot'[n][0][j].time <= t
                     /\ slot'[n][0][j].node \in Keys /\ slot'[n][0][j].node <= k
        <5>1. Named(n, now)
          BY <1>1, <4>5, NamedNow
        <5>2. p \in Keys /\ (n \in Keys => n < p)
          <6>1. CASE n \in Keys
            <7>1. p \in Keys /\ n <= p
              BY <2>2, <3>1, <4>5, <5>1, <6>1
            <7>2. n \in Int /\ p \in Int
              BY <6>1, <7>1, ConstantFacts
            <7>3. QED
              BY <4>5, <7>1, <7>2
          <6>2. CASE n \notin Keys
            BY <2>2, <4>5, <6>2 DEF Nodes
          <6>3. QED
            BY <6>1, <6>2
        <5>3. PICK j \in 1..Len(slot[n][0]) :
                /\ slot[n][0][j].time <= now
                /\ slot[n][0][j].node \in Keys /\ slot[n][0][j].node <= p
          BY <2>1, <2>2, <5>1, <5>2 DEF ListInv, NothingSkipped
        <5>4. slot'[n][0] = slot[n][0]
          BY <2>9, <4>5
        <5>5. slot[n][0][j].time <= t
          <6>1. slot[n][0][j].time \in Nat
            BY <1>1, ZeroTyped
          <6>2. QED
            BY <2>1, <4>5, <5>3, <6>1
        <5>6. slot[n][0][j].node <= k
          <6>1. slot[n][0][j].node \in Int /\ p \in Int /\ p < new
            BY <2>2, <4>1, <5>2, <5>3
          <6>2. QED
            BY <4>1, <4>5, <5>3, <6>1
        <5>7. QED
          BY <5>3, <5>4, <5>5, <5>6
      <4>6. ~(n = new /\ k = new)
        BY <1>2, <3>1, <4>1
      <4>7. /\ Named(n, t) \/ (n = new /\ now + 1 <= t)
            /\ Named(k, t) \/ (k = new /\ now + 1 <= t)
        BY <2>5, <3>1, <4>1
      <4>8. QED
        BY <4>2, <4>3, <4>4, <4>5, <4>6, <4>7
    <3>2. QED
      BY <3>1 DEF NothingSkipped, Named
  <2>13. \A k \in Keys : k \in Linked(0)' <=> k \in Linked(0) \/ k = new
    <3> DEFINE After(n) == slot'[n][0][Len(slot'[n][0])].node
    <3>1. After(p) = new
      BY <2>8
    <3>2. \A m \in Nodes : m # p => After(m) = Newest(m, 0)
      BY <2>9 DEF Newest
    <3>3. Linked(0)' = {k \in Keys : \E n \in Nodes : After(n) = k}
      BY DEF Linked, Newest
    <3> HIDE DEF After
    <3>4. ASSUME NEW k \in Keys
          PROVE  (\E n \in Nodes : After(n) = k)
                   <=> (\E n \in Nodes : Newest(n, 0) = k) \/ k = new
      BY <1>2, <2>2, <2>3, <3>1, <3>2
    <3>5. QED
      BY <3>3, <3>4 DEF Linked
  <2>14. NodesStay'
    <3>1. \A k : Inserted(k)' <=> Inserted(k)
      BY <1>2 DEF Inserted
    <3>2. \A k \in Keys : NamedIn(slot', k, now') <=> Named(k, now) \/ k = new
      BY <2>1, <2>6, ConstantFacts
    <3>3. QED
      BY <1>2, <2>13, <3>1, <3>2 DEF ListInv, NodesStay, Named
  <2>15. \A i \in 1..Len(inserted) : inserted[i] \in Nodes /\ NamedIn(slot', inserted[i], now + 1)
    <3>1. inserted \in Seq(Keys)
      BY <1>1 DEF TypeInv
    <3>2. \A i \in 1..Len(inserted) : inserted[i] \in Keys
      BY <3>1
    <3>3. \A i \in 1..Len(inserted) : inserted[i] \in Nodes
      BY <3>2 DEF Nodes
    <3>4. \A i \in 1..Len(inserted) : inserted[i] = new \/ Named(inserted[i], now)
      BY DEF ListInv, NamedUnlessPending
    <3>5. QED
      BY <2>6, <3>3, <3>4
  <2>16. CallOrder'
    <3>1. ASSUME NEW j \in 1..Len(inserted), NEW t \in Nat, NEW i \in 1..j,
                 NamedIn(slot', inserted[j], t)
          PROVE  NamedIn(slot', inserted[i], t)
      <4>1. i \in 1..Len(inserted)
        <5>1. inserted \in Seq(Keys)
          BY <1>1 DEF TypeInv
        <5>2. Len(inserted) \in Nat
          BY <5>1
        <5>3. QED
          BY <3>1, <5>2
      <4>2. inserted[i] \in Nodes /\ inserted[j] \in Nodes
        BY <2>15, <4>1
      <4>3. CASE Named(inserted[j], t)
        <5>1. Named(inserted[i], t)
          BY <4>3 DEF ListInv, CallOrder
        <5>2. QED
          BY <2>5, <4>2, <5>1
      <4>4. CASE now + 1 <= t
        <5>1. Named(inserted[i], now) \/ inserted[i] = new
          BY <2>6, <2>15, <4>1
        <5>2. now <= t
          BY <2>1, <4>4
        <5>3. Named(inserted[i], t) \/ inserted[i] = new
          BY <1>1, <2>1, <5>1, <5>2, NamedLater
        <5>4. QED
          BY <2>5, <4>2, <4>4, <5>3
      <4>5. QED
        BY <2>5, <3>1, <4>2, <4>3, <4>4
    <3>2. QED
      BY <1>2, <3>1 DEF CallOrder, Named
  <2>17. NamedUnlessPending'
    <3>1. ~Pending'
      BY <1>3 DEF Pending
    <3>2. \A i \in 1..Len(inserted) : NamedIn(slot', inserted[i], now')
      BY <2>1, <2>15
    <3>3. QED
      BY <1>2, <3>1, <3>2 DEF NamedUnlessPending, Named
  <2>18. QED
    BY <2>10, <2>11, <2>12, <2>14, <2>16, <2>17 DEF ListInv
<1>7. QED
  BY <1>5, <1>6

-----------------------------------------------------------------------------
(* Steps of the writer change nothing about what readers have seen.        *)
LEMMA FindersKept ==
  ASSUME TypeInv, FindInv, UNCHANGED readerVars, now' \in Nat, now <= now',
         Len(inserted') \in Nat, Len(inserted) <= Len(inserted'),
         \A i \in 1..Len(inserted) : inserted'[i] = inserted[i],
         \A k \in Nodes, t \in Nat : t <= now => (NamedIn(slot', k, t) <=> Named(k, t))
  PROVE  FindInv'
<1>1. ASSUME NEW r \in Readers PROVE Finds(r)'
  <2>1. /\ pc[r] # "idle" => key[r] \in Keys /\ key[r] \in Nodes
        /\ x[r] \in Nodes /\ seen[r] \in Nat /\ now \in Nat /\ Len(inserted) \in Nat
        /\ Keys \subseteq Nodes /\ next[r] \in Keys \cup {NULL, Uninit}
    <3>1. pc[r] # "idle" => key[r] \in Keys
      BY DEF FindInv, Finds, FindsAs
    <3>2. /\ x[r] \in Nodes /\ seen[r] \in Nat /\ now \in Nat /\ inserted \in Seq(Keys)
          /\ next[r] \in Keys \cup {NULL, Uninit}
      BY DEF TypeInv
    <3>3. Len(inserted) \in Nat
      BY <3>2
    <3>4. QED
      BY <3>1, <3>2, <3>3, ConstantFacts
  <2>2. FindsAs(pc[r], key[r], x[r], level[r], next[r], seen[r], owed[r])
    BY DEF FindInv, Finds
  <2>3. seen[r] <= now' /\ owed[r] \in 0..Len(inserted')
    BY <2>1, <2>2 DEF FindsAs
  <2>4. \A k \in Nodes : NamedIn(slot', k, seen[r]) <=> Named(k, seen[r])
    BY <2>1, <2>2 DEF FindsAs
  <2>5. ASSUME NEW i \in 1..owed[r] PROVE NamedIn(slot', inserted'[i], seen[r])
    <3>1. i \in 1..Len(inserted) /\ Named(inserted[i], seen[r])
      BY <2>1, <2>2 DEF FindsAs
    <3>2. inserted \in Seq(Keys)
      BY DEF TypeInv
    <3>3. inserted[i] \in Nodes /\ inserted'[i] = inserted[i]
      BY <2>1, <3>1, <3>2
    <3>4. QED
      BY <2>4, <3>1, <3>3
  <2>6. pc[r] # "idle" =>
          key[r] \in Keys /\ NamedIn(slot', x[r], seen[r]) /\ (x[r] \in Keys => x[r] < key[r])
    BY <2>1, <2>2, <2>4 DEF FindsAs
  <2>7. pc[r] = "compare" =>
          /\ next[r] \in Keys => NamedIn(slot', next[r], seen[r])
          /\ level[r] = 0 /\ NamedIn(slot', key[r], seen[r]) => next[r] \in Keys /\ next[r] <= key[r]
    BY <2>1, <2>2, <2>4 DEF FindsAs
  <2>8. /\ pc' = pc /\ key' = key /\ x' = x /\ level' = level /\ next' = next
        /\ seen' = seen /\ owed' = owed
    BY DEF readerVars
  <2>9. QED
    BY <2>3, <2>5, <2>6, <2>7, <2>8 DEF Finds, FindsAs, Named
<1>2. owed' = owed /\ key' = key
  BY DEF readerVars
<1>3. QED
  BY <1>1, <1>2 DEF FindInv

LEMMA InsertFound ==
  ASSUME FoundInv, Insert
  PROVE  ListInv' /\ FindInv'
<1>1. IInv /\ TypeInv /\ MessageInv /\ WriterInv /\ ListInv /\ FindInv
      /\ now \in Nat /\ inserted \in Seq(Keys) /\ Len(inserted) \in Nat
      /\ rung \in Levels
  <2>1. IInv /\ TypeInv /\ MessageInv /\ WriterInv /\ ListInv /\ FindInv
    BY DEF FoundInv, IInv
  <2>2. now \in Nat /\ inserted \in Seq(Keys) /\ rung \in 0..(Height - 1)
    BY <2>1 DEF TypeInv
  <2>3. QED
    BY <2>1, <2>2, ConstantFacts
<1>2. ASSUME NEW k \in Keys, InsertCall(k) PROVE ListInv' /\ FindInv'
  <2>1. /\ slot' = slot /\ now' = now /\ inserted' = Append(inserted, k)
        /\ UNCHANGED readerVars
    BY <1>2 DEF InsertCall
  <2>2. /\ Len(inserted') = Len(inserted) + 1
        /\ \A i \in 1..Len(inserted) : inserted'[i] = inserted[i]
    BY <1>1, <2>1, AppendProperties
  <2>3. Len(inserted') \in Nat /\ Len(inserted) <= Len(inserted')
    BY <1>1, <2>2
  <2>4. now' \in Nat /\ now <= now'
    BY <1>1, <2>1
  <2>5. \A n \in Nodes, t \in Nat : NamedIn(slot', n, t) <=> Named(n, t)
    BY <2>1 DEF Named
  <2>6. FindInv'
    BY <1>1, <2>1, <2>2, <2>3, <2>4, <2>5, FindersKept
  <2>7. QED
    BY <1>1, <1>2, <2>6, InsertCallList
<1>3. CASE RaiseHeight \/ NewNode
  <2>1. /\ UNCHANGED <<slot, new, rung, inserted>> /\ UNCHANGED readerVars
        /\ now' = now + 1 /\ stage = "found" /\ stage' \in {"found", "own"}
    BY <1>3 DEF RaiseHeight, NewNode
  <2>2. now' \in Nat /\ now <= now'
    BY <1>1, <2>1
  <2>3. ListInv'
    BY <1>1, <2>1, <2>2, QuietList
  <2>4. \A n \in Nodes, t \in Nat : NamedIn(slot', n, t) <=> Named(n, t)
    BY <2>1 DEF Named
  <2>5. /\ Len(inserted') \in Nat /\ Len(inserted) <= Len(inserted')
        /\ \A i \in 1..Len(inserted) : inserted'[i] = inserted[i]
    BY <1>1, <2>1
  <2>6. FindInv'
    BY <1>1, <2>1, <2>2, <2>4, <2>5, FindersKept
  <2>7. QED
    BY <2>3, <2>6
<1>4. ASSUME NEW n \in Nodes, NEW to \in Keys \cup {NULL, Uninit}, NEW release \in BOOLEAN,
             Store(n, to, release), UNCHANGED inserted, UNCHANGED readerVars
      PROVE  FindInv'
  <2>1. now' = now + 1
    BY <1>4 DEF Store
  <2>2. now' \in Nat /\ now <= now'
    BY <1>1, <2>1
  <2>3. ASSUME NEW k \in Nodes, NEW t \in Nat, t <= now
        PROVE  NamedIn(slot', k, t) <=> Named(k, t)
    <3>1. NamedIn(slot', k, t) <=> Named(k, t) \/ (rung = 0 /\ k = to /\ now + 1 <= t)
      BY <1>1, <1>4, NamedAfterStore DEF Named
    <3>2. ~(now + 1 <= t)
      BY <1>1, <2>3
    <3>3. QED
      BY <3>1, <3>2
  <2>4. /\ Len(inserted') \in Nat /\ Len(inserted) <= Len(inserted')
        /\ \A i \in 1..Len(inserted) : inserted'[i] = inserted[i]
    BY <1>1, <1>4
  <2>5. QED
    BY <1>1, <1>4, <2>2, <2>3, <2>4, FindersKept
<1>5. stage # "idle" => new \in Keys /\ new \in Nodes /\ Prev(rung) \in Nodes
  BY <1>1, PrevProperties, ConstantFacts DEF WriterInv
<1>6. CASE SetOwnNext
  <2>1. Newest(Prev(rung), rung) \in Keys \cup {NULL, Uninit} /\ new \in Nodes
    BY <1>1, <1>5, <1>6, NewestNamed DEF SetOwnNext, ListInv
  <2>2. PICK n \in Nodes, to \in Keys \cup {NULL, Uninit}, release \in BOOLEAN :
          n = new /\ to = Newest(Prev(rung), rung) /\ release = FALSE
    BY <2>1
  <2>3. Store(n, to, release) /\ UNCHANGED inserted /\ UNCHANGED readerVars
    BY <1>6, <2>2 DEF SetOwnNext
  <2>4. QED
    BY <1>1, <1>4, <1>6, <2>3, SetOwnNextList
<1>7. CASE Publish
  <2>1. PICK n \in Nodes, to \in Keys \cup {NULL, Uninit}, release \in BOOLEAN :
          n = Prev(rung) /\ to = new /\ release = TRUE
    BY <1>5, <1>7 DEF Publish
  <2>2. Store(n, to, release) /\ UNCHANGED inserted /\ UNCHANGED readerVars
    BY <1>7, <2>1 DEF Publish
  <2>3. QED
    BY <1>1, <1>4, <1>7, <2>2, PublishList
<1>8. QED
  BY <1>2, <1>3, <1>6, <1>7 DEF Insert

-----------------------------------------------------------------------------
(* Steps of a reader.                                                      *)

(* FindInv, with only reader r having moved.                               *)
LEMMA OneFinder ==
  ASSUME FindInv, NEW r \in Readers, UNCHANGED writerVars,
         owed' \in [Readers -> Nat], key' \in [Readers -> Keys \cup {NULL}],
         \A q \in Readers \ {r} :
           /\ pc'[q] = pc[q] /\ key'[q] = key[q] /\ x'[q] = x[q] /\ level'[q] = level[q]
           /\ next'[q] = next[q] /\ seen'[q] = seen[q] /\ owed'[q] = owed[q],
         FindsAs(pc'[r], key'[r], x'[r], level'[r], next'[r], seen'[r], owed'[r])
  PROVE  FindInv'
<1>1. slot' = slot /\ now' = now /\ inserted' = inserted
  BY DEF writerVars
<1>2. ASSUME NEW q \in Readers
      PROVE  FindsAs(pc'[q], key'[q], x'[q], level'[q], next'[q], seen'[q], owed'[q])
  <2>1. q # r => FindsAs(pc[q], key[q], x[q], level[q], next[q], seen[q], owed[q])
    BY DEF FindInv, Finds
  <2>2. CASE q = r
    BY <2>2
  <2>3. CASE q # r
    <3>1. /\ pc'[q] = pc[q] /\ key'[q] = key[q] /\ x'[q] = x[q] /\ level'[q] = level[q]
          /\ next'[q] = next[q] /\ seen'[q] = seen[q] /\ owed'[q] = owed[q]
      BY <2>3
    <3>2. QED
      BY <2>1, <2>3, <3>1
  <2>4. QED
    BY <2>2, <2>3
<1>3. ASSUME NEW q \in Readers PROVE Finds(q)'
  BY <1>1, <1>2 DEF Finds, FindsAs, Named
<1>4. QED
  BY <1>3 DEF FindInv

(* What r has seen named it has seen named after it has seen more.         *)
LEMMA SeesMore ==
  ASSUME TypeInv, MessageInv, FindInv, NEW r \in Readers, NEW u \in Nat, seen[r] <= u
  PROVE  /\ \A n : Named(n, seen[r]) => Named(n, u)
         /\ \A i \in 1..owed[r] : Named(inserted[i], u)
<1>1. seen[r] \in Nat
  BY DEF TypeInv
<1>2. \A n : Named(n, seen[r]) => Named(n, u)
  BY <1>1, NamedLater
<1>3. QED
  BY <1>2 DEF FindInv, Finds, FindsAs

LEMMA ContainsCallFinds ==
  ASSUME FoundInv, NEW r \in Readers, NEW k \in Keys, ContainsCall(r, k)
  PROVE  FindInv'
<1>1. FindInv /\ TypeInv
  BY DEF FoundInv, IInv
<1>2. PICK l \in Int : level' = [level EXCEPT ![r] = l]
  <2>1. PICK h \in Heights(r) : level' = [level EXCEPT ![r] = h - 1]
    BY DEF ContainsCall
  <2>2. h = Height \/ h = 1
    BY DEF Heights
  <2>3. h - 1 \in Int
    BY <2>2, ConstantFacts
  <2>4. QED
    BY <2>1, <2>3
<1>3. /\ pc' = [pc EXCEPT ![r] = "load"] /\ key' = [key EXCEPT ![r] = k]
      /\ x' = [x EXCEPT ![r] = head]
      /\ UNCHANGED <<writerVars, next, seen, owed>>
  BY DEF ContainsCall
<1>4. FindsAs(pc'[r], key'[r], x'[r], level'[r], next'[r], seen'[r], owed'[r])
  <2>1. pc'[r] = "load" /\ key'[r] = k /\ x'[r] = head /\ seen'[r] = seen[r] /\ owed'[r] = owed[r]
    BY <1>1, <1>3 DEF TypeInv, FindInv
  <2>2. Named(head, seen[r]) /\ head \notin Keys
    BY ConstantFacts DEF Named, NamedIn
  <2>3. /\ seen[r] <= now /\ owed[r] \in 0..Len(inserted)
        /\ \A i \in 1..owed[r] : Named(inserted[i], seen[r])
    BY <1>1 DEF FindInv, Finds, FindsAs
  <2>4. QED
    BY <2>1, <2>2, <2>3 DEF FindsAs
<1>5. \A q \in Readers \ {r} :
        /\ pc'[q] = pc[q] /\ key'[q] = key[q] /\ x'[q] = x[q] /\ level'[q] = level[q]
        /\ next'[q] = next[q] /\ seen'[q] = seen[q] /\ owed'[q] = owed[q]
  BY <1>1, <1>2, <1>3 DEF TypeInv, FindInv
<1>6. owed' \in [Readers -> Nat] /\ key' \in [Readers -> Keys \cup {NULL}]
  BY <1>1, <1>3 DEF FindInv
<1>7. QED
  BY <1>1, <1>3, <1>4, <1>5, <1>6, OneFinder

(* A reader at x, before its key, loads at level 0 a store that is no      *)
(* older than the one NothingSkipped promises it.                          *)
LEMMA LoadFinds ==
  ASSUME FoundInv, NEW r \in Readers, Load(r)
  PROVE  FindInv'
<1>1. IInv /\ TypeInv /\ MessageInv /\ ListInv /\ FindInv
  BY DEF FoundInv, IInv
<1>2. /\ x[r] \in Nodes /\ level[r] \in Levels /\ seen[r] \in Nat /\ now \in Nat
      /\ pc[r] = "load"
  BY <1>1 DEF TypeInv, Load
<1>3. /\ key[r] \in Keys /\ Named(x[r], seen[r]) /\ (x[r] \in Keys => x[r] < key[r])
      /\ seen[r] <= now /\ owed[r] \in 0..Len(inserted)
  BY <1>1, <1>2 DEF FindInv, Finds, FindsAs
<1> DEFINE n == x[r]
           l == level[r]
<1>4. PICK i \in Readable(r, n, l), u \in Nat :
        /\ next' = [next EXCEPT ![r] = slot[n][l][i].node] /\ seen' = [seen EXCEPT ![r] = u]
        /\ seen[r] <= u /\ (u = seen[r] \/ u = slot[n][l][i].time)
        /\ i \in 1..Len(slot[n][l])
        /\ slot[n][l][i].node \in Keys \cup {NULL} /\ slot[n][l][i].time \in Nat
        /\ slot[n][l][i].node \in Keys => slot[n][l][i].time <= u
  BY <1>1, LoadSees
<1>5. \A j \in 1..Len(slot[n][l]) : j > i => slot[n][l][j].time > seen[r]
  <2>1. slot[n][l] \in Seq(Stores)
    BY <1>1, <1>2 DEF TypeInv
  <2>2. DOMAIN slot[n][l] = 1..Len(slot[n][l])
    BY <2>1
  <2>3. QED
    BY <2>2 DEF Readable
<1> HIDE DEF n, l
<1> DEFINE m == slot[n][l][i]
<1>6. n \in Nodes /\ l \in Levels
  BY <1>2 DEF n, l
<1>7. u <= now
  <2>1. MessageIn(slot, born, n, l, i, now)
    BY <1>1, <1>4, <1>6 DEF MessageInv
  <2>2. QED
    BY <1>3, <1>4, <2>1 DEF MessageIn
<1>8. /\ Named(n, u) /\ (n \in Keys => n < key[r])
      /\ \A j \in 1..owed[r] : Named(inserted[j], u)
  BY <1>1, <1>3, <1>4, SeesMore DEF n
<1>9. m.node \in Keys => Named(m.node, u)
  <2>1. m.node \in Keys => Named(m.node, m.time)
    BY <1>1, <1>4, <1>6 DEF ListInv, MessagesNamed
  <2> HIDE DEF m
  <2>2. m.time \in Nat /\ (m.node \in Keys => m.time <= u)
    BY <1>4 DEF m
  <2>3. QED
    BY <1>1, <1>4, <2>1, <2>2, NamedLater
<1>10. ASSUME l = 0, Named(key[r], u) PROVE m.node \in Keys /\ m.node <= key[r]
  <2>1. PICK j \in 1..Len(slot[n][0]) :
          /\ slot[n][0][j].time <= u
          /\ slot[n][0][j].node \in Keys /\ slot[n][0][j].node <= key[r]
    BY <1>1, <1>3, <1>4, <1>6, <1>8, <1>10 DEF ListInv, NothingSkipped
  <2>2. /\ i \in Nat /\ i \in 1..Len(slot[n][0]) /\ j \in Nat
        /\ Len(slot[n][0]) \in Nat /\ slot[n][0][j].time \in Nat /\ j # 1
    BY <1>1, <1>4, <1>6, <1>10, <2>1, ZeroTyped
  <2>3. ~(j > i)
    <3> SUFFICES ASSUME j > i PROVE FALSE
      OBVIOUS
    <3>1. i \in 1..(j - 1)
      BY <2>2
    <3>2. slot[n][0][i].time < slot[n][0][j].time
      BY <1>1, <1>6, <2>1, <3>1 DEF ListInv, SlotsNarrow
    <3>3. slot[n][0][j].time > seen[r]
      BY <1>5, <1>10, <2>1
    <3>4. QED
      BY <1>2, <1>4, <1>10, <2>1, <2>2, <3>2, <3>3
  <2>4. CASE j = i
    BY <1>10, <2>1, <2>4
  <2>5. CASE j < i
    <3>1. j \in 1..(i - 1) /\ j > 1
      BY <2>1, <2>2, <2>5
    <3>2. Nearer(slot[n][0][i].node, slot[n][0][j].node)
      BY <1>1, <1>6, <2>2, <3>1 DEF ListInv, SlotsNarrow
    <3>3. slot[n][0][i].node \in Keys /\ slot[n][0][i].node < slot[n][0][j].node
      BY <2>1, <3>2 DEF Nearer
    <3>4. slot[n][0][i].node \in Int /\ slot[n][0][j].node \in Int /\ key[r] \in Int
      BY <1>3, <2>1, <3>3, ConstantFacts
    <3>5. slot[n][0][i].node <= key[r]
      BY <2>1, <3>3, <3>4
    <3>6. QED
      BY <1>10, <3>3, <3>5
  <2>6. QED
    BY <2>2, <2>3, <2>4, <2>5
<1>11. UNCHANGED <<writerVars, key, x, level, owed>> /\ pc' = [pc EXCEPT ![r] = "compare"]
  BY DEF Load
<1>12. FindsAs(pc'[r], key'[r], x'[r], level'[r], next'[r], seen'[r], owed'[r])
  <2>1. /\ pc'[r] = "compare" /\ key'[r] = key[r] /\ x'[r] = n /\ level'[r] = l
        /\ next'[r] = m.node /\ seen'[r] = u /\ owed'[r] = owed[r]
    BY <1>1, <1>4, <1>11 DEF TypeInv, n, l
  <2> HIDE DEF m
  <2>2. QED
    BY <1>3, <1>7, <1>8, <1>9, <1>10, <2>1 DEF FindsAs
<1>13. \A q \in Readers \ {r} :
         /\ pc'[q] = pc[q] /\ key'[q] = key[q] /\ x'[q] = x[q] /\ level'[q] = level[q]
         /\ next'[q] = next[q] /\ seen'[q] = seen[q] /\ owed'[q] = owed[q]
  BY <1>1, <1>4, <1>11 DEF TypeInv
<1>14. owed' \in [Readers -> Nat] /\ key' \in [Readers -> Keys \cup {NULL}]
  BY <1>1, <1>11 DEF FindInv
<1>15. QED
  BY <1>1, <1>11, <1>12, <1>13, <1>14, OneFinder

LEMMA MoveFinds ==
  ASSUME FoundInv, NEW r \in Readers, MoveRight(r) \/ MoveDown(r)
  PROVE  FindInv'
<1>1. FindInv /\ TypeInv
  BY DEF FoundInv, IInv
<1>2. /\ UNCHANGED <<writerVars, key, next, seen, owed>> /\ pc[r] = "compare"
      /\ pc' = [pc EXCEPT ![r] = "load"]
  BY DEF MoveRight, MoveDown
<1>3. FindsAs("compare", key[r], x[r], level[r], next[r], seen[r], owed[r])
  BY <1>1, <1>2 DEF FindInv, Finds
<1>4. /\ pc'[r] = "load" /\ key'[r] = key[r] /\ seen'[r] = seen[r] /\ owed'[r] = owed[r]
      /\ \A q \in Readers \ {r} :
           /\ pc'[q] = pc[q] /\ key'[q] = key[q]
           /\ next'[q] = next[q] /\ seen'[q] = seen[q] /\ owed'[q] = owed[q]
      /\ owed' \in [Readers -> Nat] /\ key' \in [Readers -> Keys \cup {NULL}]
  BY <1>1, <1>2 DEF TypeInv, FindInv
<1>5. \A q \in Readers \ {r} : x'[q] = x[q] /\ level'[q] = level[q]
  BY <1>1 DEF TypeInv, MoveRight, MoveDown
<1>6. CASE MoveRight(r)
  <2>1. x'[r] = next[r] /\ next[r] \in Keys /\ next[r] < key[r]
    BY <1>1, <1>6 DEF MoveRight, KeyIsAfterNode, TypeInv
  <2>2. FindsAs(pc'[r], key'[r], x'[r], level'[r], next'[r], seen'[r], owed'[r])
    BY <1>3, <1>4, <2>1 DEF FindsAs
  <2>3. QED
    BY <1>1, <1>2, <1>4, <1>5, <2>2, OneFinder
<1>7. CASE MoveDown(r)
  <2>1. x'[r] = x[r]
    BY <1>7 DEF MoveDown
  <2>2. FindsAs(pc'[r], key'[r], x'[r], level'[r], next'[r], seen'[r], owed'[r])
    BY <1>3, <1>4, <2>1 DEF FindsAs
  <2>3. QED
    BY <1>1, <1>2, <1>4, <1>5, <2>2, OneFinder
<1>8. QED
  BY <1>6, <1>7

(* The key found is in the list, so its insertion has been seen, and with  *)
(* it that of all keys inserted before.                                    *)
LEMMA ContainsReturnFinds ==
  ASSUME FoundInv, NEW r \in Readers, ContainsReturn(r)
  PROVE  FindInv'
<1>1. FindInv /\ TypeInv /\ MessageInv /\ ListInv
  BY DEF FoundInv, IInv
<1>2. /\ UNCHANGED <<writerVars, level, seen>> /\ pc[r] = "compare"
      /\ pc' = [pc EXCEPT ![r] = "idle"] /\ key' = [key EXCEPT ![r] = NULL]
      /\ x' = [x EXCEPT ![r] = head] /\ next' = [next EXCEPT ![r] = NULL]
      /\ owed' = [owed EXCEPT ![r] =
           IF next[r] = key[r]
           THEN Larger(owed[r], CHOOSE i \in DOMAIN inserted : inserted[i] = key[r])
           ELSE owed[r]]
  BY DEF ContainsReturn, Arrived
<1>3. FindsAs("compare", key[r], x[r], level[r], next[r], seen[r], owed[r])
  BY <1>1, <1>2 DEF FindInv, Finds
<1>4. /\ key[r] \in Keys /\ owed[r] \in Nat /\ seen[r] \in Nat /\ now \in Nat
      /\ inserted \in Seq(Keys) /\ Len(inserted) \in Nat
  <2>1. inserted \in Seq(Keys)
    BY <1>1 DEF TypeInv
  <2>2. QED
    BY <1>1, <1>3, <2>1 DEF TypeInv, FindInv, FindsAs
<1>5. /\ pc'[r] = "idle" /\ seen'[r] = seen[r]
      /\ \A q \in Readers \ {r} :
           /\ pc'[q] = pc[q] /\ key'[q] = key[q] /\ x'[q] = x[q] /\ level'[q] = level[q]
           /\ next'[q] = next[q] /\ seen'[q] = seen[q] /\ owed'[q] = owed[q]
      /\ key' \in [Readers -> Keys \cup {NULL}]
  BY <1>1, <1>2 DEF TypeInv, FindInv
<1>6. PICK o \in 0..Len(inserted) :
        owed' = [owed EXCEPT ![r] = o] /\ \A i \in 1..o : Named(inserted[i], seen[r])
  <2>1. CASE next[r] # key[r]
    BY <1>2, <1>3, <2>1 DEF FindsAs
  <2>2. CASE next[r] = key[r]
    <3> DEFINE c == CHOOSE i \in 1..Len(inserted) : inserted[i] = key[r]
    <3>1. Named(key[r], seen[r]) /\ seen[r] <= now
      BY <1>3, <1>4, <2>2 DEF FindsAs
    <3>2. Named(key[r], now)
      BY <1>1, <1>4, <3>1, NamedLater
    <3>3. \E i \in 1..Len(inserted) : inserted[i] = key[r]
      BY <1>1, <1>4, <3>2 DEF ListInv, NodesStay, Inserted
    <3>4. c \in 1..Len(inserted) /\ inserted[c] = key[r]
      BY <3>3
    <3>5. DOMAIN inserted = 1..Len(inserted)
      BY <1>4
    <3>6. owed' = [owed EXCEPT ![r] = Larger(owed[r], c)]
      BY <1>2, <2>2, <3>5
    <3> HIDE DEF c
    <3>7. \A i \in 1..c : Named(inserted[i], seen[r])
      BY <1>1, <1>4, <3>1, <3>4 DEF ListInv, CallOrder
    <3>8. /\ \A i \in 1..owed[r] : Named(inserted[i], seen[r])
          /\ owed[r] \in 0..Len(inserted)
      BY <1>3 DEF FindsAs
    <3>9. Larger(owed[r], c) \in {owed[r], c}
      BY DEF Larger
    <3>10. Larger(owed[r], c) \in 0..Len(inserted)
      BY <1>4, <3>4, <3>8, <3>9
    <3>11. \A i \in 1..Larger(owed[r], c) : Named(inserted[i], seen[r])
      BY <3>7, <3>8, <3>9
    <3>12. QED
      BY <3>6, <3>10, <3>11
  <2>3. QED
    BY <2>1, <2>2
<1>7. FindsAs(pc'[r], key'[r], x'[r], level'[r], next'[r], seen'[r], owed'[r])
  <2>1. owed'[r] = o
    BY <1>1, <1>6 DEF FindInv
  <2>2. QED
    BY <1>3, <1>5, <1>6, <2>1 DEF FindsAs
<1>8. owed' \in [Readers -> Nat]
  <2>1. o \in Nat
    BY <1>4, <1>6
  <2>2. QED
    BY <1>1, <1>6, <2>1 DEF FindInv
<1>9. QED
  BY <1>1, <1>2, <1>5, <1>7, <1>8, OneFinder

LEMMA SynchronizeFinds ==
  ASSUME FoundInv, NEW r \in Readers, Synchronize(r)
  PROVE  FindInv'
<1>1. FindInv /\ TypeInv /\ MessageInv /\ ListInv
  BY DEF FoundInv, IInv
<1>2. /\ UNCHANGED <<writerVars, pc, key, x, level, next>> /\ pc[r] = "idle"
  BY DEF Synchronize, WriterTells, ReaderTells
<1>3. \A q \in Readers :
        /\ seen[q] \in Nat /\ owed[q] \in 0..Len(inserted) /\ seen[q] <= now
        /\ \A i \in 1..owed[q] : Named(inserted[i], seen[q])
  BY <1>1 DEF TypeInv, FindInv, Finds, FindsAs
<1>4. now \in Nat /\ Len(inserted) \in Nat
  <2>1. now \in Nat /\ inserted \in Seq(Keys)
    BY <1>1 DEF TypeInv
  <2>2. QED
    BY <2>1
<1>5. PICK u \in Nat, o \in 0..Len(inserted) :
        /\ seen' = [seen EXCEPT ![r] = u] /\ owed' = [owed EXCEPT ![r] = o]
        /\ u <= now /\ \A i \in 1..o : Named(inserted[i], u)
  <2>1. CASE WriterTells(r)
    <3>1. /\ seen' = [seen EXCEPT ![r] = Larger(seen[r], now)]
          /\ owed' = [owed EXCEPT ![r] = Len(inserted)]
          /\ ~Pending
      BY <2>1 DEF WriterTells, Pending
    <3>2. Larger(seen[r], now) = now
      BY <1>3, <1>4 DEF Larger
    <3>3. \A i \in 1..Len(inserted) : Named(inserted[i], now)
      BY <1>1, <3>1 DEF ListInv, NamedUnlessPending
    <3>4. Len(inserted) \in 0..Len(inserted) /\ now <= now
      BY <1>4
    <3>5. QED
      BY <1>4, <3>1, <3>2, <3>3, <3>4
  <2>2. ASSUME NEW q \in Readers, ReaderTells(q, r)
        PROVE  \E t \in Nat, o \in 0..Len(inserted) :
                 /\ seen' = [seen EXCEPT ![r] = t] /\ owed' = [owed EXCEPT ![r] = o]
                 /\ t <= now /\ \A i \in 1..o : Named(inserted[i], t)
    <3> DEFINE t == Larger(seen[r], seen[q])
               o == Larger(owed[r], owed[q])
    <3>1. seen' = [seen EXCEPT ![r] = t] /\ owed' = [owed EXCEPT ![r] = o]
      BY <2>2 DEF ReaderTells
    <3>2. t \in Nat /\ t <= now /\ seen[r] <= t /\ seen[q] <= t
      BY <1>3, <1>4 DEF Larger
    <3>3. o \in {owed[r], owed[q]}
      BY DEF Larger
    <3> HIDE DEF t, o
    <3>4. /\ \A i \in 1..owed[r] : Named(inserted[i], t)
          /\ \A i \in 1..owed[q] : Named(inserted[i], t)
      BY <1>1, <3>2, SeesMore
    <3>5. o \in 0..Len(inserted) /\ \A i \in 1..o : Named(inserted[i], t)
      BY <1>3, <3>3, <3>4
    <3>6. QED
      BY <3>1, <3>2, <3>5
  <2>3. QED
    BY <2>1, <2>2 DEF Synchronize
<1>6. FindsAs(pc'[r], key'[r], x'[r], level'[r], next'[r], seen'[r], owed'[r])
  <2>1. pc'[r] = "idle" /\ seen'[r] = u /\ owed'[r] = o
    BY <1>1, <1>2, <1>5 DEF TypeInv, FindInv
  <2>2. QED
    BY <1>5, <2>1 DEF FindsAs
<1>7. /\ \A q \in Readers \ {r} :
           /\ pc'[q] = pc[q] /\ key'[q] = key[q] /\ x'[q] = x[q] /\ level'[q] = level[q]
           /\ next'[q] = next[q] /\ seen'[q] = seen[q] /\ owed'[q] = owed[q]
  BY <1>1, <1>2, <1>5 DEF TypeInv, FindInv
<1>8. owed' \in [Readers -> Nat] /\ key' \in [Readers -> Keys \cup {NULL}]
  <2>1. o \in Nat
    BY <1>4, <1>5
  <2>2. QED
    BY <1>1, <1>2, <1>5, <2>1 DEF FindInv
<1>9. QED
  BY <1>1, <1>2, <1>6, <1>7, <1>8, OneFinder

-----------------------------------------------------------------------------
LEMMA InitFound == Init => FoundInv
<1> SUFFICES ASSUME Init PROVE FoundInv
  OBVIOUS
<1>1. IInv
  BY InitIInv
<1>2. /\ now = 0 /\ stage = "idle" /\ inserted = <<>>
      /\ \A n \in Nodes, l \in Levels :
           /\ Len(slot[n][l]) = 1
           /\ \A i \in 1..Len(slot[n][l]) : i = 1 /\ slot[n][l][i].node \notin Keys
  BY ConstantFacts DEF Init, Stored
<1>3. \A k \in Keys : \A t : ~Named(k, t)
  BY <1>2, LevelZero, ConstantFacts DEF Named, NamedIn
<1>4. Len(inserted) = 0
  BY <1>2
<1>5. ListInv
  <2>1. SlotsNarrow
    BY <1>2, LevelZero DEF SlotsNarrow
  <2>2. MessagesNamed
    BY <1>2 DEF MessagesNamed
  <2>3. NothingSkipped
    BY <1>3 DEF NothingSkipped
  <2>4. NodesStay
    BY <1>3 DEF NodesStay
  <2>5. CallOrder
    BY <1>4 DEF CallOrder
  <2>6. NamedUnlessPending
    BY <1>2, <1>4 DEF NamedUnlessPending, Pending
  <2>7. QED
    BY <2>1, <2>2, <2>3, <2>4, <2>5, <2>6 DEF ListInv
<1>6. FindInv
  <2>1. /\ owed = [r \in Readers |-> 0] /\ key = [r \in Readers |-> NULL]
        /\ pc = [r \in Readers |-> "idle"] /\ seen = [r \in Readers |-> 0]
    BY DEF Init
  <2>2. QED
    BY <1>2, <1>4, <2>1 DEF FindInv, Finds, FindsAs
<1>7. QED
  BY <1>1, <1>5, <1>6 DEF FoundInv

LEMMA NextFound == FoundInv /\ [Next]_vars => FoundInv'
<1> SUFFICES ASSUME FoundInv, [Next]_vars PROVE ListInv' /\ FindInv'
  BY NextIInv DEF FoundInv
<1>1. CASE Insert
  BY <1>1, InsertFound
<1>2. IInv /\ TypeInv /\ MessageInv /\ ListInv /\ FindInv /\ now \in Nat
  BY DEF FoundInv, IInv, TypeInv
<1>3. ASSUME UNCHANGED writerVars PROVE ListInv'
  <2>1. UNCHANGED <<slot, new, rung, inserted>> /\ now' = now /\ stage' = stage
    BY <1>3 DEF writerVars
  <2>2. now' \in Nat /\ now <= now'
    BY <1>2, <2>1
  <2>3. QED
    BY <1>2, <2>1, <2>2, QuietList
<1>4. ASSUME NEW r \in Readers, Contains(r) PROVE ListInv' /\ FindInv'
  <2>1. UNCHANGED writerVars
    BY <1>4 DEF Contains, ContainsCall, Load, MoveRight, MoveDown, ContainsReturn
  <2>2. FindInv'
    BY <1>4, ContainsCallFinds, LoadFinds, MoveFinds, ContainsReturnFinds DEF Contains
  <2>3. QED
    BY <1>3, <2>1, <2>2
<1>5. ASSUME NEW r \in Readers, Synchronize(r) PROVE ListInv' /\ FindInv'
  <2>1. UNCHANGED writerVars
    BY <1>5 DEF Synchronize, WriterTells, ReaderTells
  <2>2. QED
    BY <1>3, <1>5, <2>1, SynchronizeFinds
<1>6. CASE UNCHANGED vars
  <2>1. UNCHANGED writerVars /\ UNCHANGED readerVars
    BY <1>6 DEF vars
  <2>2. now' = now /\ slot' = slot /\ inserted' = inserted
    BY <2>1 DEF writerVars
  <2>3. ASSUME NEW r \in Readers PROVE Finds(r)'
    <3>1. Finds(r)
      BY <1>2 DEF FindInv
    <3>2. QED
      BY <2>1, <2>2, <3>1 DEF Finds, FindsAs, Named, readerVars
  <2>4. owed' = owed /\ key' = key
    BY <2>1 DEF readerVars
  <2>5. QED
    BY <1>2, <1>3, <2>1, <2>3, <2>4 DEF FindInv
<1>7. QED
  BY <1>1, <1>4, <1>5, <1>6 DEF Next

LEMMA FoundInvFinds == FoundInv => FoundStaysFound
<1> SUFFICES ASSUME FoundInv, NEW r \in Readers, Arrived(r),
                    NEW i \in 1..owed[r], inserted[i] = key[r]
             PROVE  next[r] = key[r]
  BY DEF FoundStaysFound
<1>1. pc[r] = "compare" /\ level[r] = 0 /\ ~(next[r] \in Keys /\ next[r] < key[r])
  BY DEF Arrived, KeyIsAfterNode
<1>2. FindsAs("compare", key[r], x[r], 0, next[r], seen[r], owed[r])
  BY <1>1 DEF FoundInv, FindInv, Finds
<1>3. key[r] \in Keys /\ next[r] \in Keys /\ next[r] <= key[r]
  BY <1>2 DEF FindsAs
<1>4. key[r] \in Int /\ next[r] \in Int
  BY <1>3, ConstantFacts
<1>5. QED
  BY <1>1, <1>3, <1>4

(* A search finds every key that its reader has found before, or has been  *)
(* told of, and every key inserted before such a key, although its loads   *)
(* may return old values (Contains and Insert, db/SkipList.h:126-177).     *)
THEOREM FoundIsFoundAgain == Spec => []FoundStaysFound
<1>1. QED
  BY InitFound, NextFound, FoundInvFinds, PTL DEF Spec

-----------------------------------------------------------------------------
(* The list answers as the lagging set does.                               *)

(* Where a key is among the inserted ones, each of which is there once.    *)
PlaceIn(s, k) == CHOOSE i \in DOMAIN s : s[i] = k
Place(k) == PlaceIn(inserted, k)

Once == \A i, j \in 1..Len(inserted) : inserted[i] = inserted[j] => i = j

AnswerInv == FoundInv /\ Once

LEMMA PlaceIs ==
  ASSUME inserted \in Seq(Keys), Once, NEW i \in 1..Len(inserted)
  PROVE  Place(inserted[i]) = i
<1>1. DOMAIN inserted = 1..Len(inserted)
  OBVIOUS
<1>2. Place(inserted[i]) \in 1..Len(inserted) /\ inserted[Place(inserted[i])] = inserted[i]
  BY <1>1 DEF Place, PlaceIn
<1>3. QED
  BY <1>2 DEF Once

(* Readers leave the list alone.                                           *)
LEMMA ReadersWriteNothing ==
  ASSUME NEW r, Contains(r) \/ Synchronize(r)
  PROVE  UNCHANGED writerVars
<1>1. ASSUME NEW k \in Keys, ContainsCall(r, k) PROVE UNCHANGED writerVars
  BY <1>1 DEF ContainsCall
<1>2. ASSUME Load(r) PROVE UNCHANGED writerVars
  BY <1>2 DEF Load
<1>3. ASSUME MoveRight(r) \/ MoveDown(r) PROVE UNCHANGED writerVars
  BY <1>3 DEF MoveRight, MoveDown
<1>4. ASSUME ContainsReturn(r) PROVE UNCHANGED writerVars
  BY <1>4 DEF ContainsReturn
<1>5. ASSUME Synchronize(r) PROVE UNCHANGED writerVars
  BY <1>5 DEF Synchronize, WriterTells, ReaderTells
<1>6. QED
  BY <1>1, <1>2, <1>3, <1>4, <1>5 DEF Contains

(* Only a call of Insert adds to the inserted keys, and at their end.      *)
LEMMA InsertedGrows ==
  ASSUME TypeInv, [Next]_vars
  PROVE  \/ inserted' = inserted
         \/ \E k \in Keys :
              InsertCall(k) /\ inserted' = Append(inserted, k) /\ ~Inserted(k)
<1>1. ASSUME NEW k \in Keys, InsertCall(k)
      PROVE  inserted' = Append(inserted, k) /\ ~Inserted(k)
  <2>1. inserted \in Seq(Keys)
    BY DEF TypeInv
  <2>2. DOMAIN inserted = 1..Len(inserted)
    BY <2>1
  <2>3. QED
    BY <1>1, <2>2 DEF InsertCall, Inserted
<1>2. inserted' = inserted \/ \E k \in Keys : InsertCall(k)
  <2>1. CASE Insert
    <3>1. ASSUME RaiseHeight \/ NewNode PROVE inserted' = inserted
      BY <3>1 DEF RaiseHeight, NewNode
    <3>2. ASSUME SetOwnNext PROVE inserted' = inserted
      BY <3>2 DEF SetOwnNext
    <3>3. ASSUME Publish PROVE inserted' = inserted
      BY <3>3 DEF Publish
    <3>4. QED
      BY <2>1, <3>1, <3>2, <3>3 DEF Insert
  <2>2. ASSUME NEW r \in Readers, Contains(r) PROVE UNCHANGED writerVars
    BY <2>2, ReadersWriteNothing
  <2>3. ASSUME NEW r \in Readers, Synchronize(r) PROVE UNCHANGED writerVars
    BY <2>3, ReadersWriteNothing
  <2>4. UNCHANGED writerVars => inserted' = inserted
    BY DEF writerVars
  <2>5. QED
    BY <2>1, <2>2, <2>3, <2>4 DEF Next, vars
<1>3. QED
  BY <1>1, <1>2

(* What the inserted keys are after a step.                                *)
LEMMA InsertedAfter ==
  ASSUME TypeInv, [Next]_vars
  PROVE  /\ inserted' \in Seq(Keys) /\ Len(inserted) \in Nat /\ Len(inserted') \in Nat
         /\ Len(inserted) <= Len(inserted')
         /\ \A i \in 1..Len(inserted) : inserted'[i] = inserted[i]
         /\ Once => Once'
<1>1. inserted \in Seq(Keys) /\ Len(inserted) \in Nat
  BY DEF TypeInv
<1>2. CASE inserted' = inserted
  BY <1>1, <1>2 DEF Once
<1>3. ASSUME NEW k \in Keys, inserted' = Append(inserted, k), ~Inserted(k)
      PROVE  /\ inserted' \in Seq(Keys) /\ Len(inserted') = Len(inserted) + 1
             /\ \A i \in 1..Len(inserted) : inserted'[i] = inserted[i]
             /\ Once => Once'
  <2> DEFINE n == Len(inserted)
  <2>1. /\ inserted' \in Seq(Keys) /\ Len(inserted') = n + 1
        /\ \A i \in 1..n : inserted'[i] = inserted[i]
        /\ inserted'[n + 1] = k
    BY <1>1, <1>3, AppendProperties
  <2>2. \A i \in 1..n : inserted[i] # k
    BY <1>3 DEF Inserted
  <2>3. n \in Nat
    BY <1>1
  <2> HIDE DEF n
  <2>4. \A i \in 1..(n + 1) : i \in 1..n \/ i = n + 1
    BY <2>3
  <2>5. ASSUME Once PROVE Once'
    <3>1. \A i, j \in 1..n : inserted[i] = inserted[j] => i = j
      BY <2>5 DEF Once, n
    <3>2. \A i, j \in 1..(n + 1) : inserted'[i] = inserted'[j] => i = j
      BY <2>1, <2>2, <2>4, <3>1
    <3>3. QED
      BY <2>1, <3>2 DEF Once
  <2>6. QED
    BY <2>1, <2>5 DEF n
<1>4. QED
  BY <1>1, <1>2, <1>3, InsertedGrows

(* A key keeps its place.                                                  *)
LEMMA PlaceStays ==
  ASSUME TypeInv, Once, [Next]_vars, NEW k, Inserted(k)
  PROVE  /\ Place(k) \in 1..Len(inserted) /\ inserted[Place(k)] = k
         /\ PlaceIn(inserted', k) = Place(k)
<1>1. PICK i \in 1..Len(inserted) : inserted[i] = k
  BY DEF Inserted
<1>2. inserted \in Seq(Keys)
  BY DEF TypeInv
<1>3. Place(k) = i
  BY <1>1, <1>2, PlaceIs
<1>4. i \in 1..Len(inserted') /\ inserted'[i] = k /\ Once' /\ inserted' \in Seq(Keys)
  BY <1>1, InsertedAfter
<1>5. DOMAIN inserted' = 1..Len(inserted')
  BY <1>4
<1> DEFINE j == PlaceIn(inserted', k)
<1>6. j \in 1..Len(inserted') /\ inserted'[j] = k
  BY <1>4, <1>5 DEF PlaceIn
<1> HIDE DEF j
<1>7. j = i
  BY <1>4, <1>6 DEF Once
<1>8. QED
  BY <1>1, <1>3, <1>7 DEF j

(* A key that is found is one that was inserted, and a reader that is      *)
(* about to say that it has not found its key does not owe it.             *)
LEMMA AnswerProperties ==
  ASSUME FoundInv, NEW r \in Readers
  PROVE  /\ owed[r] \in 0..Len(inserted)
         /\ Phase[r] = "yes" => key[r] \in Keys /\ Inserted(key[r])
         /\ Phase[r] = "no" => key[r] \notin {inserted[i] : i \in 1..owed[r]}
<1>1. Finds(r) /\ IInv
  BY DEF FoundInv, FindInv
<1>2. owed[r] \in 0..Len(inserted)
  BY <1>1 DEF Finds, FindsAs
<1>3. ASSUME Phase[r] = "yes" PROVE key[r] \in Keys /\ Inserted(key[r])
  <2>1. pc[r] = "compare" /\ next[r] = key[r]
    BY <1>3 DEF Phase, Arrived
  <2>2. key[r] \in Keys
    BY <1>1, <2>1 DEF Finds, FindsAs
  <2>3. Ready(next[r], level[r], seen[r])
    BY <1>1, <2>1, <2>2, ConstantFacts DEF IInv, ReaderInv
  <2>4. born[key[r]] # 0
    BY <2>1, <2>3 DEF Ready, ReadyIn
  <2>5. QED
    BY <1>1, <2>2, <2>4 DEF IInv, WriterInv, Fresh
<1>4. ASSUME Phase[r] = "no" PROVE key[r] \notin {inserted[i] : i \in 1..owed[r]}
  <2>1. Arrived(r) /\ next[r] # key[r]
    BY <1>4 DEF Phase
  <2>2. QED
    BY <2>1, FoundInvFinds DEF FoundStaysFound
<1>5. QED
  BY <1>2, <1>3, <1>4

(* What a reader's phase and view are.                                     *)
LEMMA PhaseViewAre ==
  ASSUME NEW r \in Readers
  PROVE  /\ Phase[r] = IF pc[r] = "idle" THEN "idle"
                       ELSE IF ~Arrived(r) THEN "called"
                       ELSE IF next[r] = key[r] THEN "yes" ELSE "no"
         /\ View[r] = IF Phase[r] = "yes" THEN Larger(owed[r], Place(key[r])) ELSE owed[r]
BY DEF Phase, View, Place, PlaceIn

(* A reader that does not move keeps its phase and its view, while others  *)
(* insert.                                                                 *)
LEMMA OthersStay ==
  ASSUME AnswerInv, [Next]_vars, NEW q \in Readers,
         pc'[q] = pc[q], key'[q] = key[q], level'[q] = level[q], next'[q] = next[q],
         owed'[q] = owed[q]
  PROVE  Phase'[q] = Phase[q] /\ View'[q] = View[q]
<1>1. TypeInv /\ Once /\ FoundInv
  BY DEF AnswerInv, FoundInv, IInv
<1>2. Phase'[q] = Phase[q]
  BY DEF Phase, Arrived, KeyIsAfterNode
<1>3. View[q] = IF Phase[q] = "yes" THEN Larger(owed[q], Place(key[q])) ELSE owed[q]
  BY PhaseViewAre
<1>4. View'[q] = IF Phase'[q] = "yes" THEN Larger(owed'[q], PlaceIn(inserted', key'[q]))
                 ELSE owed'[q]
  BY DEF View, PlaceIn
<1>5. Phase[q] = "yes" => PlaceIn(inserted', key[q]) = Place(key[q])
  BY <1>1, AnswerProperties, PlaceStays
<1>6. QED
  BY <1>2, <1>3, <1>4, <1>5

LEMMA AreFunctions ==
  /\ Phase = [q \in Readers |-> Phase[q]] /\ Phase' = [q \in Readers |-> Phase'[q]]
  /\ View = [q \in Readers |-> View[q]] /\ View' = [q \in Readers |-> View'[q]]
<1>1. Phase = [q \in Readers |-> Phase[q]]
  BY DEF Phase
<1>2. Phase' = [q \in Readers |-> Phase'[q]]
  BY DEF Phase
<1>3. View = [q \in Readers |-> View[q]]
  BY DEF View
<1>4. View' = [q \in Readers |-> View'[q]]
  BY DEF View
<1>5. QED
  BY <1>1, <1>2, <1>3, <1>4

(* Steps of the lagging set.  A step in which no reader moves.             *)
LEMMA AllStay ==
  ASSUME AnswerInv, [Next]_vars, UNCHANGED readerVars
  PROVE  Phase' = Phase /\ View' = View /\ key' = key
<1>1. \A q \in Readers : Phase'[q] = Phase[q] /\ View'[q] = View[q]
  BY OthersStay DEF readerVars
<1>2. Phase' = Phase
  BY <1>1, AreFunctions
<1>3. View' = View
  BY <1>1, AreFunctions
<1>4. QED
  BY <1>2, <1>3 DEF readerVars

(* A step of one reader.                                                   *)
LEMMA OneMoves ==
  ASSUME AnswerInv, [Next]_vars, NEW r \in Readers, NEW p, NEW v,
         \A q \in Readers \ {r} :
           /\ pc'[q] = pc[q] /\ key'[q] = key[q] /\ level'[q] = level[q]
           /\ next'[q] = next[q] /\ owed'[q] = owed[q],
         Phase'[r] = p, View'[r] = v
  PROVE  Phase' = [Phase EXCEPT ![r] = p] /\ View' = [View EXCEPT ![r] = v]
<1>1. \A q \in Readers \ {r} : Phase'[q] = Phase[q] /\ View'[q] = View[q]
  BY OthersStay
<1>2. Phase' = [Phase EXCEPT ![r] = p]
  BY <1>1, AreFunctions
<1>3. View' = [View EXCEPT ![r] = v]
  BY <1>1, AreFunctions
<1>4. QED
  BY <1>2, <1>3

(* A step of one reader that neither changes its phase nor its view.       *)
LEMMA NoneMoves ==
  ASSUME AnswerInv, [Next]_vars, NEW r \in Readers,
         \A q \in Readers \ {r} :
           /\ pc'[q] = pc[q] /\ key'[q] = key[q] /\ level'[q] = level[q]
           /\ next'[q] = next[q] /\ owed'[q] = owed[q],
         Phase'[r] = Phase[r], View'[r] = View[r]
  PROVE  Phase' = Phase /\ View' = View
<1>1. \A q \in Readers : Phase'[q] = Phase[q] /\ View'[q] = View[q]
  BY OthersStay
<1>2. QED
  BY <1>1, AreFunctions

(* The writer.                                                             *)
LEMMA InsertAnswers ==
  ASSUME AnswerInv, Insert
  PROVE  (\E k \in Keys : Abstract!CallInsert(k)) \/ Abstract!ReturnInsert
           \/ UNCHANGED Abstract!vars
<1>1. TypeInv /\ [Next]_vars
  BY DEF AnswerInv, FoundInv, IInv, Next
<1>2. UNCHANGED readerVars
  BY DEF Insert, InsertCall, RaiseHeight, NewNode, SetOwnNext, Publish
<1>3. Phase' = Phase /\ View' = View /\ key' = key
  BY <1>1, <1>2, AllStay
<1>4. ASSUME NEW k \in Keys, InsertCall(k) PROVE Abstract!CallInsert(k)
  <2>1. stage = "idle" /\ stage' = "found" /\ inserted' = Append(inserted, k)
    BY <1>4 DEF InsertCall
  <2>2. inserted \in Seq(Keys)
    BY <1>1 DEF TypeInv
  <2>3. DOMAIN inserted = 1..Len(inserted)
    BY <2>2
  <2>4. \A i \in 1..Len(inserted) : inserted[i] # k
    BY <1>4, <2>3 DEF InsertCall
  <2>5. QED
    BY <1>3, <2>1, <2>4 DEF Abstract!CallInsert, Abstract!Prefix
<1>5. CASE RaiseHeight \/ NewNode \/ SetOwnNext
  <2>1. stage # "idle" /\ stage' # "idle" /\ inserted' = inserted
    BY <1>5 DEF RaiseHeight, NewNode, SetOwnNext
  <2>2. QED
    BY <1>3, <2>1 DEF Abstract!vars
<1>6. CASE Publish
  <2>1. stage # "idle" /\ inserted' = inserted
    BY <1>6 DEF Publish
  <2>2. CASE stage' = "idle"
    BY <1>3, <2>1, <2>2 DEF Abstract!ReturnInsert
  <2>3. CASE stage' # "idle"
    BY <1>3, <2>1, <2>3 DEF Abstract!vars
  <2>4. QED
    BY <2>2, <2>3
<1>7. QED
  BY <1>4, <1>5, <1>6 DEF Insert

(* A step of a reader.                                                     *)
LEMMA OthersUntouched ==
  ASSUME FoundInv, NEW r \in Readers, Contains(r) \/ Synchronize(r)
  PROVE  /\ [Next]_vars /\ inserted' = inserted /\ stage' = stage
         /\ \A q \in Readers \ {r} :
              /\ pc'[q] = pc[q] /\ key'[q] = key[q] /\ level'[q] = level[q]
              /\ next'[q] = next[q] /\ owed'[q] = owed[q]
<1>1. UNCHANGED writerVars
  BY ReadersWriteNothing
<1>2. /\ pc \in [Readers -> {"idle", "load", "compare"}] /\ level \in [Readers -> Levels]
      /\ next \in [Readers -> Keys \cup {NULL, Uninit}]
      /\ owed \in [Readers -> Nat] /\ key \in [Readers -> Keys \cup {NULL}]
  BY DEF FoundInv, FindInv, IInv, TypeInv
<1>3. ASSUME NEW q \in Readers \ {r}
      PROVE  /\ pc'[q] = pc[q] /\ key'[q] = key[q] /\ level'[q] = level[q]
             /\ next'[q] = next[q] /\ owed'[q] = owed[q]
  <2>1. CASE \E k \in Keys : ContainsCall(r, k)
    BY <1>2, <2>1 DEF ContainsCall
  <2>2. CASE Load(r)
    BY <1>2, <2>2 DEF Load
  <2>3. CASE MoveRight(r) \/ MoveDown(r)
    BY <1>2, <2>3 DEF MoveRight, MoveDown
  <2>4. CASE ContainsReturn(r)
    BY <1>2, <2>4 DEF ContainsReturn
  <2>5. CASE Synchronize(r)
    BY <1>2, <2>5 DEF Synchronize, WriterTells, ReaderTells
  <2>6. QED
    BY <2>1, <2>2, <2>3, <2>4, <2>5 DEF Contains
<1>4. QED
  BY <1>1, <1>3 DEF Next, writerVars

LEMMA ContainsCallAnswers ==
  ASSUME AnswerInv, NEW r \in Readers, NEW k \in Keys, ContainsCall(r, k)
  PROVE  Abstract!CallContains(r, k)
<1> DEFINE Called == [q \in Readers |-> IF q = r THEN "called" ELSE Phase[q]]
<1>1. FoundInv /\ Contains(r)
  BY DEF AnswerInv, Contains
<1>2. /\ [Next]_vars /\ inserted' = inserted /\ stage' = stage
      /\ \A q \in Readers \ {r} :
           /\ pc'[q] = pc[q] /\ key'[q] = key[q] /\ level'[q] = level[q]
           /\ next'[q] = next[q] /\ owed'[q] = owed[q]
  BY <1>1, OthersUntouched
<1>3. pc[r] = "idle" /\ pc'[r] = "load" /\ owed' = owed /\ key' = [key EXCEPT ![r] = k]
  BY <1>1 DEF ContainsCall, FoundInv, IInv, TypeInv
<1>4. Phase[r] = "idle" /\ View[r] = owed[r]
  BY <1>3, PhaseViewAre
<1>5. Phase'[r] = "called" /\ View'[r] = owed[r]
  BY <1>3 DEF Phase, Arrived, View
<1>6. Phase' = [Phase EXCEPT ![r] = "called"] /\ View' = [View EXCEPT ![r] = owed[r]]
  BY <1>2, <1>5, OneMoves
<1>7. View' = View
  BY <1>4, <1>6, AreFunctions
<1>8. QED
  BY <1>2, <1>3, <1>4, <1>6, <1>7 DEF Abstract!CallContains

(* Where a reader that is about to answer stands.                          *)
LEMMA ViewBounds ==
  ASSUME AnswerInv, NEW r \in Readers
  PROVE  /\ owed[r] \in Nat /\ owed[r] <= View[r] /\ View[r] \in 0..Len(inserted)
         /\ Phase[r] = "yes" => key[r] \in {inserted[i] : i \in 1..View[r]}
         /\ Phase[r] = "no" => key[r] \notin {inserted[i] : i \in 1..View[r]}
<1>1. FoundInv /\ Once /\ inserted \in Seq(Keys) /\ Len(inserted) \in Nat
  BY DEF AnswerInv, FoundInv, IInv, TypeInv
<1>2. /\ owed[r] \in 0..Len(inserted)
      /\ Phase[r] = "yes" => key[r] \in Keys /\ Inserted(key[r])
      /\ Phase[r] = "no" => key[r] \notin {inserted[i] : i \in 1..owed[r]}
  BY <1>1, AnswerProperties
<1>3. CASE Phase[r] = "yes"
  <2>1. PICK i \in 1..Len(inserted) : inserted[i] = key[r]
    BY <1>2, <1>3 DEF Inserted
  <2>2. Place(key[r]) = i
    BY <1>1, <2>1, PlaceIs
  <2>3. View[r] = Larger(owed[r], i)
    BY <1>3, <2>2, PhaseViewAre
  <2>4. owed[r] <= View[r] /\ View[r] \in 0..Len(inserted) /\ i \in 1..View[r]
    BY <1>1, <1>2, <2>1, <2>3 DEF Larger
  <2>5. QED
    BY <1>2, <1>3, <2>1, <2>4
<1>4. CASE Phase[r] # "yes"
  <2>1. View[r] = owed[r]
    BY <1>4, PhaseViewAre
  <2>2. QED
    BY <1>1, <1>2, <1>4, <2>1
<1>5. QED
  BY <1>3, <1>4

(* A search decides with the load that takes it to its end.                *)
LEMMA SearchAnswers ==
  ASSUME AnswerInv, AnswerInv', NEW r \in Readers, Load(r) \/ MoveRight(r) \/ MoveDown(r)
  PROVE  Abstract!Decide(r) \/ UNCHANGED Abstract!vars
<1>1. FoundInv /\ Contains(r)
  BY DEF AnswerInv, Contains
<1>2. /\ [Next]_vars /\ inserted' = inserted /\ stage' = stage
      /\ \A q \in Readers \ {r} :
           /\ pc'[q] = pc[q] /\ key'[q] = key[q] /\ level'[q] = level[q]
           /\ next'[q] = next[q] /\ owed'[q] = owed[q]
  BY <1>1, OthersUntouched
<1>3. /\ pc[r] # "idle" /\ pc'[r] # "idle" /\ ~Arrived(r) /\ owed' = owed /\ key' = key
  BY <1>1 DEF Load, MoveRight, MoveDown, Arrived, FoundInv, IInv, TypeInv
<1>4. Phase[r] = "called" /\ View[r] = owed[r]
  BY <1>3, PhaseViewAre
<1>5. CASE ~Arrived(r)'
  <2>1. Phase'[r] = "called" /\ View'[r] = owed[r]
    BY <1>3, <1>5 DEF Phase, View
  <2>2. Phase' = Phase /\ View' = View
    BY <1>2, <1>4, <2>1, NoneMoves
  <2>3. QED
    BY <1>2, <1>3, <2>2 DEF Abstract!vars
<1>6. CASE Arrived(r)'
  <2> DEFINE n == View'[r]
             a == IF key[r] \in {inserted[i] : i \in 1..n} THEN "yes" ELSE "no"
  <2>1. Phase'[r] \in {"yes", "no"}
    BY <1>3, <1>6 DEF Phase
  <2>2. /\ owed'[r] \in Nat /\ owed'[r] <= n /\ n \in 0..Len(inserted')
        /\ Phase'[r] = "yes" => key'[r] \in {inserted'[i] : i \in 1..n}
        /\ Phase'[r] = "no" => key'[r] \notin {inserted'[i] : i \in 1..n}
    <3>1. (/\ owed[r] \in Nat /\ owed[r] <= View[r] /\ View[r] \in 0..Len(inserted)
           /\ Phase[r] = "yes" => key[r] \in {inserted[i] : i \in 1..View[r]}
           /\ Phase[r] = "no" => key[r] \notin {inserted[i] : i \in 1..View[r]})'
      BY ViewBounds, PTL
    <3>2. QED
      BY <3>1
  <2>3. n \in View[r]..Len(inserted) /\ Phase'[r] = a
    BY <1>2, <1>3, <1>4, <2>1, <2>2
  <2>4. Phase' = [Phase EXCEPT ![r] = a] /\ View' = [View EXCEPT ![r] = n]
    BY <1>2, <2>3, OneMoves
  <2>5. QED
    BY <1>2, <1>3, <1>4, <2>3, <2>4 DEF Abstract!Decide, Abstract!Prefix
<1>7. QED
  BY <1>5, <1>6

LEMMA ContainsReturnAnswers ==
  ASSUME AnswerInv, NEW r \in Readers, ContainsReturn(r)
  PROVE  Abstract!ReturnContains(r)
<1>1. FoundInv /\ Contains(r)
  BY DEF AnswerInv, Contains
<1>2. /\ [Next]_vars /\ inserted' = inserted /\ stage' = stage
      /\ \A q \in Readers \ {r} :
           /\ pc'[q] = pc[q] /\ key'[q] = key[q] /\ level'[q] = level[q]
           /\ next'[q] = next[q] /\ owed'[q] = owed[q]
  BY <1>1, OthersUntouched
<1>3. /\ Arrived(r) /\ pc[r] # "idle" /\ pc'[r] = "idle"
      /\ key' = [key EXCEPT ![r] = NULL]
      /\ owed'[r] = IF next[r] = key[r] THEN Larger(owed[r], Place(key[r])) ELSE owed[r]
  BY <1>1 DEF ContainsReturn, Arrived, FoundInv, FindInv, IInv, TypeInv, Place, PlaceIn
<1>4. Phase[r] = IF next[r] = key[r] THEN "yes" ELSE "no"
  BY <1>3, PhaseViewAre
<1>5. View[r] = owed'[r]
  BY <1>3, <1>4, PhaseViewAre
<1>6. Phase'[r] = "idle" /\ View'[r] = View[r]
  BY <1>3, <1>5 DEF Phase, View
<1>7. Phase' = [Phase EXCEPT ![r] = "idle"] /\ View' = [View EXCEPT ![r] = View[r]]
  BY <1>2, <1>6, OneMoves
<1>8. View' = View
  BY <1>7, AreFunctions
<1>9. QED
  BY <1>2, <1>3, <1>4, <1>7, <1>8 DEF Abstract!ReturnContains

LEMMA SynchronizeAnswers ==
  ASSUME AnswerInv, NEW r \in Readers, Synchronize(r)
  PROVE  \/ Abstract!CatchUp(r) \/ (\E q \in Readers : Abstract!Learn(q, r))
         \/ UNCHANGED Abstract!vars
<1>1. FoundInv
  BY DEF AnswerInv
<1>2. /\ [Next]_vars /\ inserted' = inserted /\ stage' = stage
      /\ \A q \in Readers \ {r} :
           /\ pc'[q] = pc[q] /\ key'[q] = key[q] /\ level'[q] = level[q]
           /\ next'[q] = next[q] /\ owed'[q] = owed[q]
  BY <1>1, OthersUntouched
<1>3. pc[r] = "idle" /\ pc' = pc /\ key' = key
  BY DEF Synchronize, WriterTells, ReaderTells
<1>4. Phase[r] = "idle" /\ View[r] = owed[r] /\ Phase'[r] = "idle" /\ View'[r] = owed'[r]
  BY <1>3 DEF Phase, View
<1>5. Phase' = [Phase EXCEPT ![r] = "idle"] /\ View' = [View EXCEPT ![r] = owed'[r]]
  BY <1>2, <1>4, OneMoves
<1>6. Phase' = Phase
  BY <1>4, <1>5, AreFunctions
<1>7. owed \in [Readers -> Nat]
  BY <1>1 DEF FoundInv, FindInv
<1>8. CASE WriterTells(r)
  <2>1. stage = "idle" /\ owed'[r] = Len(inserted)
    BY <1>7, <1>8 DEF WriterTells
  <2>2. QED
    BY <1>2, <1>3, <1>4, <1>5, <1>6, <2>1 DEF Abstract!CatchUp
<1>9. ASSUME NEW q \in Readers, ReaderTells(q, r)
      PROVE  Abstract!Learn(q, r) \/ UNCHANGED Abstract!vars
  <2>1. pc[q] = "idle" /\ owed'[r] = Larger(owed[r], owed[q])
    BY <1>7, <1>9 DEF ReaderTells
  <2>2. Phase[q] = "idle" /\ View[q] = owed[q]
    BY <2>1, PhaseViewAre
  <2>3. owed[q] \in Nat /\ owed[r] \in Nat
    BY <1>7
  <2>4. CASE owed[q] > owed[r]
    <3>1. owed'[r] = View[q] /\ View[q] > View[r]
      BY <1>4, <2>1, <2>2, <2>3, <2>4 DEF Larger
    <3>2. QED
      BY <1>2, <1>3, <1>4, <1>5, <1>6, <2>2, <3>1 DEF Abstract!Learn
  <2>5. CASE ~(owed[q] > owed[r])
    <3>1. owed'[r] = View[r]
      BY <1>4, <2>1, <2>3, <2>5 DEF Larger
    <3>2. View' = View
      BY <1>5, <3>1, AreFunctions
    <3>3. QED
      BY <1>2, <1>3, <1>6, <3>2 DEF Abstract!vars
  <2>6. QED
    BY <2>4, <2>5
<1>10. QED
  BY <1>8, <1>9 DEF Synchronize

LEMMA InitAnswers == Init => AnswerInv /\ Abstract!Init
<1> SUFFICES ASSUME Init PROVE AnswerInv /\ Abstract!Init
  OBVIOUS
<1>1. inserted = <<>> /\ stage = "idle" /\ key = [r \in Readers |-> NULL]
      /\ \A r \in Readers : pc[r] = "idle" /\ owed[r] = 0
  BY DEF Init
<1>2. AnswerInv
  BY <1>1, InitFound DEF AnswerInv, Once
<1>3. \A r \in Readers : Phase[r] = "idle" /\ View[r] = 0
  BY <1>1, PhaseViewAre
<1>4. Phase = [r \in Readers |-> "idle"]
  BY <1>3, AreFunctions
<1>5. View = [r \in Readers |-> 0]
  BY <1>3, AreFunctions
<1>6. QED
  BY <1>1, <1>2, <1>4, <1>5 DEF Abstract!Init

LEMMA NextAnswerInv == AnswerInv /\ [Next]_vars => AnswerInv'
<1> SUFFICES ASSUME AnswerInv, [Next]_vars PROVE AnswerInv'
  OBVIOUS
<1>1. FoundInv /\ Once /\ TypeInv
  BY DEF AnswerInv, FoundInv, IInv
<1>2. FoundInv'
  BY <1>1, NextFound
<1>3. Once'
  BY <1>1, InsertedAfter
<1>4. QED
  BY <1>2, <1>3 DEF AnswerInv

LEMMA NextAnswers == AnswerInv /\ AnswerInv' /\ [Next]_vars => [Abstract!Next]_(Abstract!vars)
<1> SUFFICES ASSUME AnswerInv, AnswerInv', [Next]_vars
             PROVE  Abstract!Next \/ UNCHANGED Abstract!vars
  OBVIOUS
<1>1. CASE Insert
  BY <1>1, InsertAnswers DEF Abstract!Next
<1>2. ASSUME NEW r \in Readers, Contains(r)
      PROVE  Abstract!Next \/ UNCHANGED Abstract!vars
  <2>1. ASSUME NEW k \in Keys, ContainsCall(r, k) PROVE Abstract!Next
    BY <2>1, ContainsCallAnswers DEF Abstract!Next
  <2>2. CASE Load(r) \/ MoveRight(r) \/ MoveDown(r)
    BY <2>2, SearchAnswers DEF Abstract!Next
  <2>3. CASE ContainsReturn(r)
    BY <2>3, ContainsReturnAnswers DEF Abstract!Next
  <2>4. QED
    BY <1>2, <2>1, <2>2, <2>3 DEF Contains
<1>3. ASSUME NEW r \in Readers, Synchronize(r)
      PROVE  Abstract!Next \/ UNCHANGED Abstract!vars
  BY <1>3, SynchronizeAnswers DEF Abstract!Next
<1>4. CASE UNCHANGED vars
  <2>1. UNCHANGED readerVars /\ inserted' = inserted /\ stage' = stage
    BY <1>4 DEF vars, writerVars
  <2>2. Phase' = Phase /\ View' = View /\ key' = key
    BY <2>1, AllStay
  <2>3. QED
    BY <2>1, <2>2 DEF Abstract!vars
<1>5. QED
  BY <1>1, <1>2, <1>3, <1>4 DEF Next

(* Contains answers as the lagging set does, TRUE and FALSE alike: every   *)
(* answer is the one of a set of first Inserts that its reader has never   *)
(* been behind before (Insert and Contains, db/SkipList.h:99-177).         *)
THEOREM AnswersFromPrefix == Spec => ImplementsLaggingSet
<1>1. QED
  BY InitAnswers, NextAnswerInv, NextAnswers, PTL
    DEF Spec, ImplementsLaggingSet, Abstract!Spec

-----------------------------------------------------------------------------
(* How far a search has to go.  A slot leads behind its node, on all       *)
(* levels and with all of its stores, and so does what a reader loads.     *)
SlotsAscend ==
  \A n \in Keys, l \in Levels : \A i \in 1..Len(slot[n][l]) :
    slot[n][l][i].node \in Keys => n < slot[n][l][i].node

NextBehind ==
  \A r \in Readers :
    pc[r] = "compare" /\ x[r] \in Keys /\ next[r] \in Keys => x[r] < next[r]

WalkInv == FoundInv /\ SlotsAscend /\ NextBehind

(* The inserted keys between a search and its key, whether the reader sees *)
(* their nodes or not.                                                     *)
Ahead(r) ==
  {i \in 1..Len(inserted) : (x[r] \in Keys => x[r] < inserted[i]) /\ inserted[i] < key[r]}

TurnsLeft(r) == 2 * (level[r] + Cardinality(Ahead(r))) + (IF pc[r] = "load" THEN 1 ELSE 0)

(* Every step of a search takes it on, whatever its loads return, and of   *)
(* the steps of others only an Insert leaves it more to do.                *)
Advance ==
  \A r \in Readers : pc[r] # "idle" =>
    /\ Contains(r) => pc'[r] = "idle" \/ TurnsLeft(r)' < TurnsLeft(r)
    /\ ~Contains(r) =>
         /\ pc'[r] = pc[r]
         /\ TurnsLeft(r)' <= TurnsLeft(r) + (IF \E k \in Keys : InsertCall(k) THEN 2 ELSE 0)

(* Prev's successor, which the new node's slot gets, is behind the node.   *)
LEMMA OwnNextBehind ==
  ASSUME FoundInv, SlotsAscend, stage = "own", Newest(Prev(rung), rung) \in Keys
  PROVE  new < Newest(Prev(rung), rung)
<1> DEFINE p == Prev(rung)
           i == Len(slot[p][rung])
           m == slot[p][rung][i].node
<1>1. /\ TypeInv /\ MessageInv /\ new \in Keys /\ rung \in Levels
      /\ Len(slot[new][rung]) = 1 /\ m \in Keys
  BY ConstantFacts DEF FoundInv, IInv, TypeInv, WriterInv, Newest
<1>2. p \in Nodes
  BY <1>1, PrevProperties
<1>3. i \in 1..i /\ Len(slot[p][rung]) >= 1
  BY <1>1, <1>2, StoresTyped DEF MessageInv
<1>4. m \in Linked(rung)
  BY <1>1, <1>2 DEF Linked, Newest
<1>5. m # new
  <2>1. Ready(m, rung, slot[p][rung][i].time)
    BY <1>1, <1>2, <1>3 DEF MessageInv, MessageIn, Ready
  <2>2. Len(slot[m][rung]) >= 2
    <3>1. rung \in 0..rung
      BY <1>1, ConstantFacts
    <3> DEFINE t == slot[p][rung][i].time
    <3> HIDE DEF m, t
    <3>2. \A j \in 0..rung : Len(slot[m][j]) >= 2
      BY <2>1 DEF Ready, ReadyIn, t
    <3>3. QED
      BY <3>1, <3>2
  <2>3. Len(slot[new][rung]) = 1
    BY <1>1
  <2>4. ~(1 >= 2)
    OBVIOUS
  <2> HIDE DEF m
  <2>5. QED
    BY <2>2, <2>3, <2>4, Zenon
<1>6. m \in Int /\ new \in Int /\ (p \in Keys => p \in Int /\ p < m)
  BY <1>1, <1>3, ConstantFacts DEF SlotsAscend
<1>7. ASSUME m < new PROVE FALSE
  <2>1. p \in Keys /\ m <= p
    BY <1>1, <1>4, <1>7, PrevIsLast
  <2>2. QED
    BY <1>6, <2>1
<1>8. QED
  BY <1>5, <1>6, <1>7 DEF Newest

(* A store that leads behind its node leaves all slots ascending.          *)
LEMMA StoreAscends ==
  ASSUME TypeInv, SlotsAscend, NEW n \in Nodes, NEW to \in Keys \cup {NULL, Uninit},
         NEW release \in BOOLEAN, Store(n, to, release), n \in Keys /\ to \in Keys => n < to
  PROVE  SlotsAscend'
<1>1. \A m \in Nodes, l \in Levels :
        IF m = n /\ l = rung
        THEN /\ Len(slot'[m][l]) = Len(slot[m][l]) + 1
             /\ \A i \in 1..Len(slot[m][l]) : slot'[m][l][i] = slot[m][l][i]
             /\ slot'[m][l][Len(slot[m][l]) + 1] = Stored(now + 1, to, release)
        ELSE slot'[m][l] = slot[m][l]
  BY StoreProperties
<1>2. SUFFICES ASSUME NEW m \in Keys, NEW l \in Levels, NEW i \in 1..Len(slot'[m][l]),
                      slot'[m][l][i].node \in Keys
               PROVE  m < slot'[m][l][i].node
  BY DEF SlotsAscend
<1>3. m \in Nodes /\ Len(slot[m][l]) \in Nat
  BY StoresTyped, ConstantFacts
<1>4. CASE m = n /\ l = rung
  <2>1. i \in 1..Len(slot[m][l]) \/ i = Len(slot[m][l]) + 1
    BY <1>1, <1>3, <1>4
  <2>2. CASE i \in 1..Len(slot[m][l])
    <3>1. slot'[m][l][i] = slot[m][l][i]
      BY <1>1, <1>3, <1>4, <2>2
    <3>2. QED
      BY <1>2, <2>2, <3>1 DEF SlotsAscend
  <2>3. CASE i = Len(slot[m][l]) + 1
    <3>1. slot'[m][l][i].node = to
      BY <1>1, <1>3, <1>4, <2>3 DEF Stored
    <3>2. QED
      BY <1>2, <1>4, <3>1
  <2>4. QED
    BY <2>1, <2>2, <2>3
<1>5. CASE ~(m = n /\ l = rung)
  <2>1. slot'[m][l] = slot[m][l]
    BY <1>1, <1>3, <1>5
  <2>2. QED
    BY <1>2, <2>1 DEF SlotsAscend
<1>6. QED
  BY <1>4, <1>5

(* The new node goes behind Prev, and its successor behind it.             *)
LEMMA NextAscends == ASSUME WalkInv, [Next]_vars PROVE SlotsAscend'
<1>1. FoundInv /\ SlotsAscend /\ TypeInv /\ MessageInv /\ WriterInv
  BY DEF WalkInv, FoundInv, IInv
<1>2. CASE slot' = slot
  BY <1>1, <1>2 DEF SlotsAscend
<1>3. CASE SetOwnNext
  <2> DEFINE to == Newest(Prev(rung), rung)
  <2>1. /\ new \in Keys /\ new \in Nodes /\ rung \in Levels /\ stage = "own"
        /\ Store(new, to, FALSE)
    BY <1>1, <1>3, ConstantFacts DEF SetOwnNext, WriterInv, TypeInv
  <2>2. Prev(rung) \in Nodes
    BY <1>1, <2>1, PrevProperties
  <2>3. to \in Keys \cup {NULL, Uninit}
    BY <1>1, <2>1, <2>2, StoresTyped DEF Newest, MessageInv
  <2>4. to \in Keys => new < to
    BY <1>1, <2>1, OwnNextBehind
  <2> HIDE DEF to
  <2>5. QED
    BY <1>1, <2>1, <2>3, <2>4, StoreAscends
<1>4. CASE Publish
  <2> DEFINE p == Prev(rung)
  <2>1. new \in Keys /\ rung \in Levels /\ Store(p, new, TRUE)
    BY <1>1, <1>4, ConstantFacts DEF Publish, WriterInv, TypeInv
  <2>2. p \in Nodes /\ (p \in Keys => p < new)
    BY <1>1, <2>1, PrevProperties, PrevIsLast, ConstantFacts
  <2> HIDE DEF p
  <2>3. QED
    BY <1>1, <2>1, <2>2, StoreAscends
<1>5. slot' = slot \/ SetOwnNext \/ Publish
  BY DEF Next, Insert, InsertCall, RaiseHeight, NewNode, Contains, ContainsCall, Load, MoveRight,
     MoveDown, ContainsReturn, Synchronize, WriterTells, ReaderTells, vars, writerVars
<1>6. QED
  BY <1>2, <1>3, <1>4, <1>5

(* What a reader has loaded is behind the node it loaded it from.          *)
LEMMA NextNextBehind == ASSUME WalkInv, [Next]_vars PROVE NextBehind'
<1>1. TypeInv /\ SlotsAscend /\ NextBehind
  BY DEF WalkInv, FoundInv, IInv
<1>2. SUFFICES ASSUME NEW r \in Readers, pc'[r] = "compare", x'[r] \in Keys, next'[r] \in Keys
               PROVE  x'[r] < next'[r]
  BY DEF NextBehind
<1>3. CASE pc'[r] = pc[r] /\ x'[r] = x[r] /\ next'[r] = next[r]
  BY <1>1, <1>2, <1>3 DEF NextBehind
<1>4. CASE Load(r)
  <2>1. PICK i \in Readable(r, x[r], level[r]) :
          next' = [next EXCEPT ![r] = slot[x[r]][level[r]][i].node]
    BY <1>4 DEF Load
  <2>2. x[r] \in Nodes /\ level[r] \in Levels /\ x'[r] = x[r]
    BY <1>1, <1>4 DEF TypeInv, Load
  <2>3. i \in 1..Len(slot[x[r]][level[r]])
    <3>1. i \in DOMAIN slot[x[r]][level[r]]
      BY <2>1 DEF Readable
    <3>2. slot[x[r]][level[r]] \in Seq(Stores)
      BY <1>1, <2>2, StoresTyped
    <3>3. QED
      BY <3>1, <3>2, LenProperties
  <2>4. next'[r] = slot[x[r]][level[r]][i].node
    BY <1>1, <2>1 DEF TypeInv
  <2>5. QED
    BY <1>1, <1>2, <2>2, <2>3, <2>4 DEF SlotsAscend
<1>5. (pc'[r] = pc[r] /\ x'[r] = x[r] /\ next'[r] = next[r]) \/ Load(r)
  <2>1. ASSUME NEW q \in Readers, q # r, Contains(q)
        PROVE  pc'[r] = pc[r] /\ x'[r] = x[r] /\ next'[r] = next[r]
    BY <1>1, <2>1 DEF TypeInv, Contains, ContainsCall, Load, MoveRight, MoveDown, ContainsReturn
  <2>2. ASSUME Contains(r) PROVE Load(r)
    BY <1>1, <1>2, <2>2 DEF TypeInv, Contains, ContainsCall, MoveRight, MoveDown, ContainsReturn
  <2>3. CASE Insert \/ (\E q \in Readers : Synchronize(q)) \/ UNCHANGED vars
    BY <2>3 DEF Insert, InsertCall, RaiseHeight, NewNode, SetOwnNext, Publish, Synchronize,
       WriterTells, ReaderTells, vars, readerVars
  <2>4. QED
    BY <2>1, <2>2, <2>3 DEF Next
<1>6. QED
  BY <1>3, <1>4, <1>5

(* There are finitely many inserted keys ahead of a search.                *)
LEMMA AheadFinite ==
  ASSUME WalkInv, NEW r \in Readers
  PROVE  /\ Ahead(r) \subseteq 1..Len(inserted) /\ Len(inserted) \in Nat
         /\ IsFiniteSet(Ahead(r)) /\ Cardinality(Ahead(r)) \in Nat
         /\ level[r] \in Nat /\ TurnsLeft(r) \in Nat
<1>1. Len(inserted) \in Nat /\ level[r] \in Nat
  <2>1. inserted \in Seq(Keys) /\ level[r] \in Levels
    BY DEF WalkInv, FoundInv, IInv, TypeInv
  <2>2. QED
    BY <2>1, ConstantFacts, LenProperties
<1>2. IsFiniteSet(1..Len(inserted))
  BY <1>1, FS_Interval
<1>3. Ahead(r) \in SUBSET (1..Len(inserted))
  BY DEF Ahead
<1>4. IsFiniteSet(Ahead(r))
  BY <1>2, <1>3, FS_Subset
<1>5. Cardinality(Ahead(r)) \in Nat
  BY <1>4, FS_CardinalityType
<1>6. QED
  BY <1>1, <1>3, <1>4, <1>5 DEF TurnsLeft

(* A loaded node is one of an inserted key.                                *)
LEMMA NextIsInserted ==
  ASSUME WalkInv, NEW r \in Readers, pc[r] = "compare", next[r] \in Keys
  PROVE  \E i \in 1..Len(inserted) : inserted[i] = next[r]
<1>1. /\ IInv /\ next[r] # NULL
  BY ConstantFacts DEF WalkInv, FoundInv
<1>2. born[next[r]] \in 1..seen[r]
  BY <1>1 DEF IInv, ReaderInv, Ready, ReadyIn
<1>3. born[next[r]] # 0
  BY <1>2
<1>4. QED
  BY <1>1, <1>3 DEF IInv, WriterInv, Fresh, Inserted

(* A step to the right leaves a key behind.                                *)
LEMMA MoveRightAdvances ==
  ASSUME WalkInv, NEW r \in Readers, MoveRight(r)
  PROVE  TurnsLeft(r)' < TurnsLeft(r)
<1> DEFINE n == next[r]
<1>1. /\ pc[r] = "compare" /\ n \in Keys /\ n < key[r] /\ n \in Int
      /\ pc'[r] = "load" /\ x'[r] = n /\ UNCHANGED <<inserted, key, level>>
  BY ConstantFacts DEF MoveRight, KeyIsAfterNode, WalkInv, FoundInv, IInv, TypeInv, writerVars
<1>2. PICK i \in 1..Len(inserted) : inserted[i] = n
  BY <1>1, NextIsInserted
<1>3. x[r] \in Keys => x[r] < n /\ x[r] \in Int
  BY <1>1, ConstantFacts DEF WalkInv, NextBehind
<1> HIDE DEF n
<1>4. i \in Ahead(r)
  BY <1>1, <1>2, <1>3 DEF Ahead
<1>5. Ahead(r)' \in SUBSET (Ahead(r) \ {i})
  <2>1. ASSUME NEW j \in 1..Len(inserted), n < inserted[j], inserted[j] < key[r]
        PROVE  (x[r] \in Keys => x[r] < inserted[j]) /\ j # i
    <3>1. inserted[j] \in Int
      <4>1. inserted \in Seq(Keys)
        BY DEF WalkInv, FoundInv, IInv, TypeInv
      <4>2. inserted[j] \in Keys
        BY <2>1, <4>1, ElementOfSeq
      <4>3. QED
        BY <4>2, ConstantFacts
    <3>2. QED
      BY <1>1, <1>2, <1>3, <2>1, <3>1
  <2>2. QED
    BY <1>1, <2>1 DEF Ahead
<1>6. IsFiniteSet(Ahead(r)) /\ Cardinality(Ahead(r)) \in Nat /\ level[r] \in Nat
  BY AheadFinite
<1>7. IsFiniteSet(Ahead(r) \ {i}) /\ Cardinality(Ahead(r) \ {i}) = Cardinality(Ahead(r)) - 1
  BY <1>4, <1>6, FS_RemoveElement
<1>8. IsFiniteSet(Ahead(r)') /\ Cardinality(Ahead(r)') <= Cardinality(Ahead(r)) - 1
  BY <1>5, <1>7, FS_Subset
<1>9. Cardinality(Ahead(r)') \in Nat
  BY <1>8, FS_CardinalityType
<1>10. /\ TurnsLeft(r)' = 2 * (level[r] + Cardinality(Ahead(r)')) + 1
       /\ TurnsLeft(r) = 2 * (level[r] + Cardinality(Ahead(r))) + 0
  BY <1>1 DEF TurnsLeft
<1>11. QED
  BY <1>6, <1>8, <1>9, <1>10

(* A load and a step down leave one behind, too.                           *)
LEMMA OwnAdvances ==
  ASSUME WalkInv, NEW r \in Readers, pc[r] # "idle", Contains(r)
  PROVE  pc'[r] = "idle" \/ TurnsLeft(r)' < TurnsLeft(r)
<1>1. TypeInv
  BY DEF WalkInv, FoundInv, IInv
<1>2. Cardinality(Ahead(r)) \in Nat /\ level[r] \in Nat
  BY AheadFinite
<1>3. CASE Load(r)
  <2>1. /\ pc[r] = "load" /\ pc'[r] = "compare" /\ UNCHANGED <<inserted, key, level, x>>
    BY <1>1, <1>3 DEF Load, TypeInv, writerVars
  <2>2. Ahead(r)' = Ahead(r)
    BY <2>1 DEF Ahead
  <2>3. QED
    BY <1>2, <2>1, <2>2 DEF TurnsLeft
<1>4. CASE MoveDown(r)
  <2>1. /\ pc[r] = "compare" /\ pc'[r] = "load" /\ level'[r] = level[r] - 1
        /\ UNCHANGED <<inserted, key, x>>
    BY <1>1, <1>4 DEF MoveDown, TypeInv, writerVars
  <2>2. Ahead(r)' = Ahead(r)
    BY <2>1 DEF Ahead
  <2>3. /\ TurnsLeft(r)' = 2 * ((level[r] - 1) + Cardinality(Ahead(r))) + 1
        /\ TurnsLeft(r) = 2 * (level[r] + Cardinality(Ahead(r))) + 0
    BY <2>1, <2>2 DEF TurnsLeft
  <2>4. QED
    BY <1>2, <2>3
<1>5. CASE ContainsReturn(r)
  BY <1>1, <1>5 DEF ContainsReturn, TypeInv
<1>6. QED
  BY <1>3, <1>4, <1>5, MoveRightAdvances DEF Contains, ContainsCall

(* The steps of others leave a search where it is, an Insert with one key  *)
(* more ahead.                                                             *)
LEMMA OthersAdd ==
  ASSUME WalkInv, [Next]_vars, NEW r \in Readers, pc[r] # "idle", ~Contains(r)
  PROVE  /\ pc'[r] = pc[r]
         /\ TurnsLeft(r)' <= TurnsLeft(r) + (IF \E k \in Keys : InsertCall(k) THEN 2 ELSE 0)
<1>1. TypeInv
  BY DEF WalkInv, FoundInv, IInv
<1>2. pc'[r] = pc[r] /\ key'[r] = key[r] /\ x'[r] = x[r] /\ level'[r] = level[r]
  <2>1. ASSUME NEW q \in Readers, q # r, Contains(q)
        PROVE  pc'[r] = pc[r] /\ key'[r] = key[r] /\ x'[r] = x[r] /\ level'[r] = level[r]
    <3>1. CASE \E k \in Keys : ContainsCall(q, k)
      <4>1. PICK k \in Keys, h \in Heights(q) :
              /\ level' = [level EXCEPT ![q] = h - 1]
              /\ pc' = [pc EXCEPT ![q] = "load"]
              /\ key' = [key EXCEPT ![q] = k]
              /\ x' = [x EXCEPT ![q] = head]
        BY <3>1 DEF ContainsCall
      <4>2. QED
        BY <1>1, <2>1, <4>1 DEF TypeInv, WalkInv, FoundInv, FindInv
    <3>2. CASE Load(q) \/ MoveRight(q) \/ MoveDown(q) \/ ContainsReturn(q)
      BY <1>1, <2>1, <3>2
         DEF TypeInv, WalkInv, FoundInv, FindInv, Load, MoveRight, MoveDown, ContainsReturn
    <3>3. QED
      BY <2>1, <3>1, <3>2 DEF Contains
  <2>2. CASE Insert \/ (\E q \in Readers : Synchronize(q)) \/ UNCHANGED vars
    BY <2>2 DEF Insert, InsertCall, RaiseHeight, NewNode, SetOwnNext, Publish, Synchronize,
       WriterTells, ReaderTells, vars, readerVars
  <2>3. QED
    BY <2>1, <2>2 DEF Next
<1>3. /\ IsFiniteSet(Ahead(r)) /\ Cardinality(Ahead(r)) \in Nat /\ level[r] \in Nat
      /\ Len(inserted) \in Nat
  BY AheadFinite
<1>4. TurnsLeft(r)' =
        2 * (level[r] + Cardinality(Ahead(r)')) + (IF pc[r] = "load" THEN 1 ELSE 0)
  BY <1>2 DEF TurnsLeft
<1>5. CASE inserted' = inserted
  <2>1. Ahead(r)' = Ahead(r)
    BY <1>2, <1>5 DEF Ahead
  <2>2. QED
    BY <1>2, <1>3, <1>4, <2>1 DEF TurnsLeft
<1>6. ASSUME NEW k \in Keys, InsertCall(k)
      PROVE  TurnsLeft(r)' <= TurnsLeft(r) + 2
  <2> DEFINE new1 == Len(inserted) + 1
  <2>1. /\ inserted' = Append(inserted, k) /\ inserted \in Seq(Keys)
    BY <1>1, <1>6 DEF InsertCall, TypeInv
  <2>2. /\ Len(inserted') = new1
        /\ \A i \in 1..Len(inserted) : inserted'[i] = inserted[i]
    BY <2>1, AppendProperties
  <2>3. Ahead(r)' \in SUBSET (Ahead(r) \cup {new1})
    <3>1. ASSUME NEW i \in 1..Len(inserted'), i # new1,
                 x[r] \in Keys => x[r] < inserted'[i], inserted'[i] < key[r]
          PROVE  i \in Ahead(r)
      <4>1. i \in 1..Len(inserted)
        BY <1>3, <2>2, <3>1
      <4>2. QED
        BY <2>2, <3>1, <4>1 DEF Ahead
    <3>2. QED
      BY <1>2, <3>1 DEF Ahead
  <2>4. /\ IsFiniteSet(Ahead(r) \cup {new1})
        /\ Cardinality(Ahead(r) \cup {new1}) \in Nat
        /\ Cardinality(Ahead(r) \cup {new1}) <= Cardinality(Ahead(r)) + 1
    <3>1. /\ IsFiniteSet(Ahead(r) \cup {new1})
          /\ \/ Cardinality(Ahead(r) \cup {new1}) = Cardinality(Ahead(r))
             \/ Cardinality(Ahead(r) \cup {new1}) = Cardinality(Ahead(r)) + 1
      BY <1>3, FS_AddElement
    <3>2. QED
      BY <1>3, <3>1
  <2>5. /\ IsFiniteSet(Ahead(r)')
        /\ Cardinality(Ahead(r)') <= Cardinality(Ahead(r) \cup {new1})
    BY <2>3, <2>4, FS_Subset
  <2>6. Cardinality(Ahead(r)') \in Nat
    BY <2>5, FS_CardinalityType
  <2>7. Cardinality(Ahead(r)') <= Cardinality(Ahead(r)) + 1
    BY <1>3, <2>4, <2>5, <2>6
  <2>8. QED
    BY <1>3, <1>4, <2>6, <2>7 DEF TurnsLeft
<1>7. inserted' = inserted \/ \E k \in Keys : InsertCall(k)
  BY DEF Next, Insert, RaiseHeight, NewNode, SetOwnNext, Publish, Contains, ContainsCall, Load,
     MoveRight, MoveDown, ContainsReturn, Synchronize, WriterTells, ReaderTells, vars, writerVars
<1>8. TurnsLeft(r) \in Nat
  BY AheadFinite
<1>9. QED
  BY <1>2, <1>5, <1>6, <1>7, <1>8

(* A search takes at most two steps for each level and each inserted key   *)
(* in its way, and two more for each Insert called meanwhile, whatever old *)
(* values its loads return: it never turns back, and never waits           *)
(* (FindGreaterOrEqual, db/SkipList.h:145-183).                            *)
THEOREM SearchesAdvance ==
  Spec => []WalkInv /\ [](\A r \in Readers : TurnsLeft(r) \in Nat) /\ [][Advance]_vars
<1>1. Init => WalkInv
  <2>1. SUFFICES ASSUME Init PROVE SlotsAscend /\ NextBehind
    BY InitFound DEF WalkInv
  <2>2. ASSUME NEW n \in Keys, NEW l \in Levels
        PROVE  slot[n][l] = <<Stored(0, Uninit, FALSE)>>
    <3>1. n \in Nodes /\ n # head
      BY ConstantFacts
    <3>2. QED
      BY <2>1, <3>1 DEF Init
  <2>3. SlotsAscend
    BY <2>2, ConstantFacts DEF SlotsAscend, Stored
  <2>4. NextBehind
    BY <2>1 DEF Init, NextBehind
  <2>5. QED
    BY <2>3, <2>4
<1>2. WalkInv /\ [Next]_vars => WalkInv'
  BY NextFound, NextAscends, NextNextBehind DEF WalkInv
<1>3. WalkInv => \A r \in Readers : TurnsLeft(r) \in Nat
  BY AheadFinite
<1>4. WalkInv /\ [Next]_vars => [Advance]_vars
  BY OwnAdvances, OthersAdd DEF Advance
<1>5. QED
  BY <1>1, <1>2, <1>3, <1>4, PTL DEF Spec
=============================================================================
