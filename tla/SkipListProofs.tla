--------------------------- MODULE SkipListProofs ---------------------------
(***************************************************************************)
(* Proofs about SkipList, for every set of keys, every set of readers and  *)
(* every Height and kMaxHeight.                                            *)
(***************************************************************************)
EXTENDS SkipList, FiniteSetTheorems, TLAPS

(* prev[l] is where Insert's key belongs on level l.                       *)
Brackets(l) ==
  /\ prev[l] \in Linked(l) \cup {head}
  /\ Precedes(prev[l], key[Writer])
  /\ next[prev[l]][l] \in Keys => key[Writer] < next[prev[l]][l]

(* A search stands on head_ or on a linked node before its key.            *)
SearchInv ==
  \A t \in Threads : pc[t] = "search" =>
    /\ key[t] \in Keys
    /\ level[t] < maxHeight
    /\ x[t] \in Linked(level[t]) \cup {head}
    /\ Precedes(x[t], key[t])

(* A search has returned a key or NULL for a key.                          *)
FoundInv ==
  \A t \in Threads : pc[t] = "found" =>
    key[t] \in Keys /\ found[t] \in Keys \cup {NULL}

(* Readers never run Insert's steps; idle threads hold no argument.        *)
CallInv ==
  /\ \A r \in Readers : pc[r] \in {"idle", "search", "found"}
  /\ \A t \in Threads : pc[t] = "idle" => key[t] = NULL

(* Insert's key is linked on exactly the levels its loop has done.         *)
WriterInv ==
  /\ pc[Writer] \in {"idle", "search", "found"} => rung = 0
  /\ pc[Writer] \in {"own", "publish"} => rung < Height
  /\ pc[Writer] = "done" => rung = Height
  /\ pc[Writer] \in {"own", "publish", "done"} => Height <= maxHeight
  /\ pc[Writer] # "idle" =>
       /\ key[Writer] \in Keys
       /\ \A l \in Levels : key[Writer] \in Linked(l) <=> l < rung

(* prev is right on the levels that are still to be linked.                *)
PrevInv ==
  /\ pc[Writer] = "search" =>
       \A l \in Levels : level[Writer] < l /\ l < maxHeight => Brackets(l)
  /\ pc[Writer] = "found" => \A l \in Levels : l < maxHeight => Brackets(l)
  /\ pc[Writer] \in {"own", "publish"} =>
       \A l \in Levels : rung <= l /\ l < Height => Brackets(l)
  /\ pc[Writer] = "publish" => next[key[Writer]][rung] = next[prev[rung]][rung]

(* A slot holds something only if its node is linked on that level, or is  *)
(* about to be.                                                            *)
RawInv ==
  \A n \in Keys, l \in Levels : next[n][l] # Uninit =>
    n \in Linked(l) \/ (pc[Writer] = "publish" /\ n = key[Writer] /\ l = rung)

(* Levels 0..Height-1 agree but for the node being linked.                 *)
TowerInv ==
  /\ \A l \in Levels : l >= maxHeight \/ l >= Height => Linked(l) = {}
  /\ \A l \in 0..(Height - 1) : \A k \in Keys :
       k # key[Writer] => (k \in Linked(l) <=> k \in Linked(0))

IInv ==
  /\ TypeOK
  /\ LevelsOrdered
  /\ SearchInv
  /\ FoundInv
  /\ CallInv
  /\ WriterInv
  /\ PrevInv
  /\ RawInv
  /\ TowerInv

-----------------------------------------------------------------------------
(* Steps that store to no next_ slot leave every list as it is.            *)
LEMMA SameLists ==
  ASSUME next' = next
  PROVE  \A l : Linked(l)' = Linked(l)
BY DEF Linked

(* The initial state: an empty list of height 1, no call in progress.      *)
LEMMA InitIInv == Init => IInv
<1> SUFFICES ASSUME Init PROVE IInv
  OBVIOUS
<1> USE SkipListAssumption DEF Init, Threads, Nodes, Levels
<1>1. \A l \in Levels : Linked(l) = {}
  BY DEF Linked
<1>2. TypeOK
  BY DEF TypeOK
<1>3. LevelsOrdered
  BY <1>1 DEF LevelsOrdered, IsSuccessor
<1>4. SearchInv /\ FoundInv /\ CallInv /\ WriterInv /\ PrevInv
  BY DEF SearchInv, FoundInv, CallInv, WriterInv, PrevInv
<1>5. RawInv /\ TowerInv
  BY <1>1 DEF RawInv, TowerInv
<1>6. QED
  BY <1>2, <1>3, <1>4, <1>5 DEF IInv

(* What the invariant says of the lists: they are nested, they are empty   *)
(* above maxHeight, and equal up to Height once no Insert is linking.      *)
LEMMA NestedLists == IInv => LevelsNested
<1> SUFFICES ASSUME IInv PROVE LevelsNested
  OBVIOUS
<1> USE SkipListAssumption DEF Threads, Levels
<1>1. ASSUME NEW l \in Levels, l > 0, NEW k \in Linked(l)
      PROVE  k \in Linked(l - 1)
  <2>1. k \in Keys /\ l < Height /\ l - 1 \in 0..(Height - 1) /\ l - 1 \in Levels
    BY <1>1 DEF IInv, TowerInv, TypeOK, Linked
  <2>2. CASE k # key[Writer]
    BY <1>1, <2>1, <2>2 DEF IInv, TowerInv
  <2>3. CASE k = key[Writer]
    BY <1>1, <2>1, <2>3 DEF IInv, WriterInv, CallInv, TypeOK
  <2>4. QED
    BY <2>2, <2>3
<1>2. ASSUME pc[Writer] \notin {"own", "publish"}, NEW l \in 0..(Height - 1)
      PROVE  Linked(l) = Linked(0)
  <2>2. l \in Levels /\ 0 \in Levels
    BY <1>2
  <2>3. key[Writer] \in Keys => (key[Writer] \in Linked(l) <=> key[Writer] \in Linked(0))
    BY <1>2, <2>2 DEF IInv, WriterInv, CallInv, TypeOK
  <2>4. \A k \in Keys : k # key[Writer] => (k \in Linked(l) <=> k \in Linked(0))
    BY <1>2 DEF IInv, TowerInv
  <2>5. Linked(l) \subseteq Keys /\ Linked(0) \subseteq Keys
    BY DEF Linked
  <2>6. \A k \in Keys : k \in Linked(l) <=> k \in Linked(0)
    BY <2>3, <2>4
  <2>7. QED
    BY <2>5, <2>6
<1>3. \A l \in Levels : l >= maxHeight => Linked(l) = {}
  BY DEF IInv, TowerInv
<1>4. \A l \in Levels : l > 0 => Linked(l) \subseteq Linked(l - 1)
  BY <1>1
<1>5. QED
  BY <1>2, <1>3, <1>4 DEF LevelsNested

(* A thread that searches loads a key or NULL, never an empty slot.        *)
LEMMA SearchLoads ==
  ASSUME IInv, NEW t \in Threads, pc[t] = "search"
  PROVE  next[x[t]][level[t]] \in Keys \cup {NULL}
<1>1. level[t] \in Levels /\ x[t] \in Linked(level[t]) \cup {head}
  BY DEF IInv, TypeOK, SearchInv
<1>2. IsSuccessor(Linked(level[t]), x[t], next[x[t]][level[t]])
  BY <1>1 DEF IInv, LevelsOrdered
<1>3. QED
  BY <1>1, <1>2 DEF IsSuccessor, Linked

(* While Insert still searches, no slot holds the key it brings.           *)
LEMMA WriterKeyIsNew ==
  ASSUME IInv, pc[Writer] \in {"search", "found"}
  PROVE  \A n \in Nodes, l \in Levels : next[n][l] # key[Writer]
BY SkipListAssumption DEF IInv, WriterInv, TypeOK, Linked, Levels, Threads

(* So the node at which Insert's search stops comes after its key.         *)
LEMMA StopsBeforeLarger ==
  ASSUME IInv, pc[Writer] = "search",
         ~KeyIsAfterNode(key[Writer], next[x[Writer]][level[Writer]]),
         next[x[Writer]][level[Writer]] \in Keys
  PROVE  key[Writer] < next[x[Writer]][level[Writer]]
<1>1. x[Writer] \in Nodes /\ level[Writer] \in Levels
  BY DEF IInv, TypeOK, Threads
<1>2. next[x[Writer]][level[Writer]] # key[Writer]
  BY <1>1, WriterKeyIsNew
<1>3. key[Writer] \in Int /\ next[x[Writer]][level[Writer]] \in Int
  BY SkipListAssumption DEF IInv, WriterInv
<1>4. QED
  BY <1>2, <1>3 DEF KeyIsAfterNode

(* A search that moves right stays on its level, before its key.           *)
LEMMA MoveRightIInv ==
  ASSUME IInv, NEW t \in Threads, MoveRight(t)
  PROVE  IInv'
<1> USE SkipListAssumption DEF Threads, Nodes, Levels
<1> DEFINE n == next[x[t]][level[t]]
<1>1. /\ pc[t] = "search" /\ n \in Keys /\ n < key[t]
      /\ x' = [x EXCEPT ![t] = n]
      /\ UNCHANGED <<next, maxHeight, pc, key, level, found, prev, rung, answer>>
  BY DEF MoveRight, KeyIsAfterNode
<1>2. \A l : Linked(l)' = Linked(l)
  BY <1>1, SameLists
<1>3. n \in Linked(level[t])
  BY <1>1 DEF IInv, TypeOK, Linked
<1>4. TypeOK'
  BY <1>1 DEF IInv, TypeOK
<1>5. LevelsOrdered'
  BY <1>1, <1>2 DEF IInv, LevelsOrdered, IsSuccessor
<1>6. SearchInv'
  BY <1>1, <1>2, <1>3 DEF IInv, TypeOK, SearchInv, Precedes
<1>7. FoundInv' /\ CallInv'
  BY <1>1 DEF IInv, FoundInv, CallInv
<1>8. WriterInv'
  BY <1>1, <1>2 DEF IInv, WriterInv
<1>9. PrevInv'
  BY <1>1, <1>2 DEF IInv, PrevInv, Brackets
<1>10. RawInv' /\ TowerInv'
  BY <1>1, <1>2 DEF IInv, RawInv, TowerInv
<1>11. QED
  BY <1>4, <1>5, <1>6, <1>7, <1>8, <1>9, <1>10 DEF IInv

(* A search that steps down may: the node it stands on is linked below.    *)
LEMMA MoveDownIInv ==
  ASSUME IInv, NEW t \in Threads, MoveDown(t)
  PROVE  IInv'
<1> USE SkipListAssumption DEF Threads, Nodes, Levels
<1> DEFINE n == next[x[t]][level[t]]
<1>1. /\ pc[t] = "search" /\ ~(n \in Keys /\ n < key[t]) /\ level[t] # 0
      /\ level' = [level EXCEPT ![t] = @ - 1]
      /\ prev' = IF t = Writer THEN [prev EXCEPT ![level[t]] = x[t]] ELSE prev
      /\ UNCHANGED <<next, maxHeight, pc, key, x, found, rung, answer>>
  BY DEF MoveDown, KeyIsAfterNode, RecordPrev
<1>2. \A l : Linked(l)' = Linked(l)
  BY <1>1, SameLists
<1>3. level[t] \in Levels /\ level[t] - 1 \in Levels /\ x[t] \in Nodes
  BY <1>1 DEF IInv, TypeOK
<1>4. Linked(level[t]) \subseteq Linked(level[t] - 1)
  BY <1>1, NestedLists DEF IInv, LevelsNested, TypeOK
<1>5. TypeOK'
  BY <1>1, <1>3 DEF IInv, TypeOK
<1>6. LevelsOrdered'
  BY <1>1, <1>2 DEF IInv, LevelsOrdered, IsSuccessor
<1>7. SearchInv'
  BY <1>1, <1>2, <1>3, <1>4 DEF IInv, TypeOK, SearchInv
<1>8. FoundInv' /\ CallInv'
  BY <1>1 DEF IInv, FoundInv, CallInv
<1>9. WriterInv'
  BY <1>1, <1>2 DEF IInv, WriterInv
<1>10. PrevInv'
  <2>1. CASE t # Writer
    BY <1>1, <1>2, <2>1 DEF IInv, TypeOK, PrevInv, Brackets
  <2>2. CASE t = Writer
    <3>1. x[Writer] \in Linked(level[Writer]) \cup {head} /\ Precedes(x[Writer], key[Writer])
      BY <1>1, <2>2 DEF IInv, SearchInv
    <3>2. n \in Keys => key[Writer] < n
      BY <1>1, <2>2, StopsBeforeLarger DEF KeyIsAfterNode
    <3>3. ASSUME NEW l \in Levels, l = level[Writer] PROVE Brackets(l)'
      BY <1>1, <1>2, <1>3, <2>2, <3>1, <3>2, <3>3 DEF IInv, TypeOK, Brackets
    <3>4. ASSUME NEW l \in Levels, level[Writer] < l, l < maxHeight
          PROVE  Brackets(l)'
      <4>1. Brackets(l)
        BY <1>1, <2>2, <3>4 DEF IInv, PrevInv
      <4>2. level[Writer] # l /\ prev' = [prev EXCEPT ![level[Writer]] = x[Writer]]
        BY <1>1, <1>3, <2>2, <3>4
      <4>3. prev'[l] = prev[l]
        BY <4>2 DEF IInv, TypeOK
      <4>4. QED
        BY <1>1, <1>2, <4>1, <4>3 DEF Brackets
    <3>5. pc'[Writer] = "search" /\ maxHeight' = maxHeight
          /\ level'[Writer] = level[Writer] - 1
      BY <1>1, <2>2 DEF IInv, TypeOK
    <3>6. \A l \in Levels :
            level[Writer] - 1 < l /\ l < maxHeight => Brackets(l)'
      BY <1>3, <2>2, <3>3, <3>4
    <3>7. QED
      BY <3>5, <3>6 DEF PrevInv
  <2>3. QED
    BY <2>1, <2>2
<1>11. RawInv' /\ TowerInv'
  BY <1>1, <1>2 DEF IInv, RawInv, TowerInv
<1>12. QED
  BY <1>5, <1>6, <1>7, <1>8, <1>9, <1>10, <1>11 DEF IInv

(* When the search is over prev is right on every level it visited.        *)
LEMMA ArriveIInv ==
  ASSUME IInv, NEW t \in Threads, Arrive(t)
  PROVE  IInv'
<1> USE SkipListAssumption DEF Threads, Nodes, Levels
<1> DEFINE n == next[x[t]][level[t]]
<1>1. /\ pc[t] = "search" /\ ~(n \in Keys /\ n < key[t]) /\ level[t] = 0
      /\ found' = [found EXCEPT ![t] = n]
      /\ pc' = [pc EXCEPT ![t] = "found"]
      /\ prev' = IF t = Writer THEN [prev EXCEPT ![level[t]] = x[t]] ELSE prev
      /\ UNCHANGED <<next, maxHeight, key, x, level, rung, answer>>
  BY DEF Arrive, KeyIsAfterNode, RecordPrev
<1>2. \A l : Linked(l)' = Linked(l)
  BY <1>1, SameLists
<1>3. level[t] \in Levels /\ x[t] \in Nodes
  BY <1>1 DEF IInv, TypeOK
<1>4. n \in Keys \cup {NULL}
  BY <1>1, <1>3, SearchLoads
<1>5. TypeOK'
  BY <1>1, <1>3, <1>4 DEF IInv, TypeOK
<1>6. LevelsOrdered'
  BY <1>1, <1>2 DEF IInv, LevelsOrdered, IsSuccessor
<1>7. SearchInv'
  BY <1>1, <1>2 DEF IInv, TypeOK, SearchInv
<1>8. FoundInv' /\ CallInv'
  BY <1>1, <1>4 DEF IInv, TypeOK, FoundInv, CallInv, SearchInv
<1>9. WriterInv'
  BY <1>1, <1>2 DEF IInv, TypeOK, WriterInv
<1>10. PrevInv'
  <2>1. CASE t # Writer
    BY <1>1, <1>2, <2>1 DEF IInv, TypeOK, PrevInv, Brackets
  <2>2. CASE t = Writer
    <3>1. x[Writer] \in Linked(0) \cup {head} /\ Precedes(x[Writer], key[Writer])
      BY <1>1, <2>2 DEF IInv, SearchInv
    <3>2. n \in Keys => key[Writer] < n
      BY <1>1, <2>2, StopsBeforeLarger DEF KeyIsAfterNode
    <3>3. Brackets(0)'
      BY <1>1, <1>2, <1>3, <2>2, <3>1, <3>2 DEF IInv, TypeOK, Brackets
    <3>4. ASSUME NEW l \in Levels, 0 < l, l < maxHeight
          PROVE  Brackets(l)'
      BY <1>1, <1>2, <2>2, <3>4 DEF IInv, TypeOK, PrevInv, Brackets
    <3>5. QED
      BY <1>1, <1>3, <2>2, <3>3, <3>4 DEF IInv, TypeOK, PrevInv
  <2>3. QED
    BY <2>1, <2>2
<1>11. RawInv' /\ TowerInv'
  BY <1>1, <1>2 DEF IInv, TypeOK, RawInv, TowerInv
<1>12. QED
  BY <1>5, <1>6, <1>7, <1>8, <1>9, <1>10, <1>11 DEF IInv

(* A call of Contains stands on head_, at the highest level there is.      *)
LEMMA ContainsCallIInv ==
  ASSUME IInv, NEW r \in Readers, NEW k \in Keys, ContainsCall(r, k)
  PROVE  IInv'
<1> USE SkipListAssumption DEF Threads, Nodes, Levels
<1>1. /\ pc[r] = "idle" /\ r # Writer
      /\ pc' = [pc EXCEPT ![r] = "search"]
      /\ key' = [key EXCEPT ![r] = k]
      /\ x' = [x EXCEPT ![r] = head]
      /\ level' = [level EXCEPT ![r] = maxHeight - 1]
      /\ UNCHANGED <<next, maxHeight, found, prev, rung, answer>>
  BY DEF ContainsCall, StartSearch
<1>2. \A l : Linked(l)' = Linked(l)
  BY <1>1, SameLists
<1>3. /\ pc'[Writer] = pc[Writer] /\ key'[Writer] = key[Writer]
      /\ x'[Writer] = x[Writer] /\ level'[Writer] = level[Writer]
  BY <1>1 DEF IInv, TypeOK
<1>4. TypeOK'
  BY <1>1 DEF IInv, TypeOK
<1>5. LevelsOrdered'
  BY <1>1, <1>2 DEF IInv, LevelsOrdered, IsSuccessor
<1>6. SearchInv'
  BY <1>1, <1>2 DEF IInv, TypeOK, SearchInv, Precedes
<1>7. FoundInv' /\ CallInv'
  BY <1>1 DEF IInv, TypeOK, FoundInv, CallInv
<1>8. WriterInv'
  BY <1>1, <1>2, <1>3 DEF IInv, WriterInv
<1>9. PrevInv'
  BY <1>1, <1>2, <1>3 DEF IInv, PrevInv, Brackets
<1>10. RawInv' /\ TowerInv'
  BY <1>1, <1>2, <1>3 DEF IInv, RawInv, TowerInv
<1>11. QED
  BY <1>4, <1>5, <1>6, <1>7, <1>8, <1>9, <1>10 DEF IInv

(* The return of Contains touches nothing but the reader's own state.      *)
LEMMA ContainsReturnIInv ==
  ASSUME IInv, NEW r \in Readers, ContainsReturn(r)
  PROVE  IInv'
<1> USE SkipListAssumption DEF Threads, Nodes, Levels
<1>1. /\ pc[r] = "found" /\ r # Writer
      /\ pc' = [pc EXCEPT ![r] = "idle"]
      /\ key' = [key EXCEPT ![r] = NULL]
      /\ x' = [x EXCEPT ![r] = head]
      /\ level' = [level EXCEPT ![r] = 0]
      /\ found' = [found EXCEPT ![r] = NULL]
      /\ UNCHANGED <<next, maxHeight, prev, rung>>
  BY DEF ContainsReturn, EndCall
<1>2. \A l : Linked(l)' = Linked(l)
  BY <1>1, SameLists
<1>3. /\ pc'[Writer] = pc[Writer] /\ key'[Writer] = key[Writer]
      /\ x'[Writer] = x[Writer] /\ level'[Writer] = level[Writer]
  BY <1>1 DEF IInv, TypeOK
<1>4. answer' \in [Readers -> {"yes", "no"}]
  BY DEF IInv, TypeOK, ContainsReturn
<1>5. TypeOK'
  BY <1>1, <1>4 DEF IInv, TypeOK
<1>6. LevelsOrdered'
  BY <1>1, <1>2 DEF IInv, LevelsOrdered, IsSuccessor
<1>7. SearchInv'
  BY <1>1, <1>2 DEF IInv, TypeOK, SearchInv, Precedes
<1>8. FoundInv' /\ CallInv'
  BY <1>1 DEF IInv, TypeOK, FoundInv, CallInv
<1>9. WriterInv'
  BY <1>1, <1>2, <1>3 DEF IInv, WriterInv
<1>10. PrevInv'
  BY <1>1, <1>2, <1>3 DEF IInv, PrevInv, Brackets
<1>11. RawInv' /\ TowerInv'
  BY <1>1, <1>2, <1>3 DEF IInv, RawInv, TowerInv
<1>12. QED
  BY <1>5, <1>6, <1>7, <1>8, <1>9, <1>10, <1>11 DEF IInv

(* A key that is not on level 0 is on no level, so an Insert may begin.    *)
LEMMA InsertCallIInv ==
  ASSUME IInv, NEW k \in Keys, InsertCall(k)
  PROVE  IInv'
<1> USE SkipListAssumption DEF Threads, Nodes, Levels
<1>1. /\ k \notin Linked(0) /\ pc[Writer] = "idle"
      /\ pc' = [pc EXCEPT ![Writer] = "search"]
      /\ key' = [key EXCEPT ![Writer] = k]
      /\ x' = [x EXCEPT ![Writer] = head]
      /\ level' = [level EXCEPT ![Writer] = maxHeight - 1]
      /\ prev' = [l \in Levels |-> Uninit]
      /\ UNCHANGED <<next, maxHeight, found, rung, answer>>
  BY DEF InsertCall, StartSearch
<1>2. \A l : Linked(l)' = Linked(l)
  BY <1>1, SameLists
<1>3. pc'[Writer] = "search" /\ key'[Writer] = k /\ level'[Writer] = maxHeight - 1
  BY <1>1 DEF IInv, TypeOK
<1>4. key[Writer] \notin Keys
  BY <1>1 DEF IInv, CallInv
<1>5. \A l \in Levels : k \notin Linked(l)
  <2>1. SUFFICES ASSUME NEW l \in Levels, l < Height PROVE k \notin Linked(l)
    BY DEF IInv, TowerInv
  <2>2. l \in 0..(Height - 1)
    BY <2>1
  <2>3. QED
    BY <1>1, <1>4, <2>2 DEF IInv, TowerInv
<1>6. TypeOK'
  BY <1>1 DEF IInv, TypeOK
<1>7. LevelsOrdered'
  BY <1>1, <1>2 DEF IInv, LevelsOrdered, IsSuccessor
<1>8. SearchInv'
  BY <1>1, <1>2 DEF IInv, TypeOK, SearchInv, Precedes
<1>9. FoundInv' /\ CallInv'
  BY <1>1 DEF IInv, TypeOK, FoundInv, CallInv
<1>10. WriterInv'
  <2>1. rung' = 0
    BY <1>1 DEF IInv, WriterInv
  <2>2. \A l \in Levels : k \in Linked(l)' <=> l < rung'
    BY <1>2, <1>5, <2>1
  <2>3. QED
    BY <1>3, <2>1, <2>2 DEF WriterInv
<1>11. PrevInv'
  BY <1>1, <1>3 DEF IInv, TypeOK, PrevInv
<1>12. RawInv' /\ TowerInv'
  <2>1. RawInv'
    BY <1>1, <1>2, <1>3 DEF IInv, RawInv
  <2>2. \A l \in 0..(Height - 1), j \in Keys : j \in Linked(l) <=> j \in Linked(0)
    BY <1>4 DEF IInv, TowerInv
  <2>3. TowerInv'
    BY <1>1, <1>2, <2>2 DEF IInv, TowerInv
  <2>4. QED
    BY <2>1, <2>3
<1>13. QED
  BY <1>6, <1>7, <1>8, <1>9, <1>10, <1>11, <1>12 DEF IInv

(* The new levels are empty, so Insert's key belongs right after head_.    *)
LEMMA RaiseHeightIInv ==
  ASSUME IInv, RaiseHeight
  PROVE  IInv'
<1> USE SkipListAssumption DEF Threads, Nodes, Levels
<1>1. /\ pc[Writer] = "found" /\ Height > maxHeight
      /\ prev' = [l \in Levels |-> IF l \in maxHeight..(Height - 1) THEN head ELSE prev[l]]
      /\ maxHeight' = Height
      /\ UNCHANGED <<next, pc, key, x, level, found, rung, answer>>
  BY DEF RaiseHeight
<1>2. \A l : Linked(l)' = Linked(l)
  BY <1>1, SameLists
<1>3. TypeOK'
  BY <1>1 DEF IInv, TypeOK
<1>4. LevelsOrdered'
  BY <1>1, <1>2 DEF IInv, LevelsOrdered, IsSuccessor
<1>5. SearchInv'
  BY <1>1, <1>2 DEF IInv, TypeOK, SearchInv
<1>6. FoundInv' /\ CallInv'
  BY <1>1 DEF IInv, FoundInv, CallInv
<1>7. WriterInv'
  BY <1>1, <1>2 DEF IInv, WriterInv
<1>8. PrevInv'
  <2>1. ASSUME NEW l \in Levels, l < Height PROVE Brackets(l)'
    <3>1. CASE l < maxHeight
      <4>1. Brackets(l)
        BY <1>1, <3>1 DEF IInv, PrevInv
      <4>2. prev'[l] = prev[l]
        BY <1>1, <3>1 DEF IInv, TypeOK
      <4>3. QED
        BY <1>1, <1>2, <4>1, <4>2 DEF Brackets
    <3>2. CASE ~(l < maxHeight)
      <4>1. prev'[l] = head
        BY <1>1, <2>1, <3>2 DEF IInv, TypeOK
      <4>2. Linked(l) = {}
        BY <3>2 DEF IInv, TowerInv, TypeOK
      <4>3. next[head][l] \notin Keys
        BY <4>2 DEF Linked
      <4>4. QED
        BY <1>1, <1>2, <4>1, <4>3 DEF Brackets, Precedes
    <3>3. QED
      BY <3>1, <3>2
  <2>2. QED
    BY <1>1, <2>1 DEF PrevInv
<1>9. RawInv'
  BY <1>1, <1>2 DEF IInv, RawInv
<1>10. TowerInv'
  BY <1>1, <1>2 DEF IInv, TypeOK, TowerInv
<1>11. QED
  BY <1>3, <1>4, <1>5, <1>6, <1>7, <1>8, <1>9, <1>10 DEF IInv

(* The memory of a node that is nowhere linked has not been stored to.     *)
LEMMA NewNodeIsRaw ==
  ASSUME IInv, pc[Writer] = "found"
  PROVE  next[key[Writer]] = [l \in Levels |-> Uninit]
<1>1. key[Writer] \in Keys /\ \A l \in Levels : key[Writer] \notin Linked(l)
  <2>1. rung = 0 /\ \A l \in Levels : key[Writer] \in Linked(l) <=> l < rung
    BY DEF IInv, WriterInv
  <2>2. key[Writer] \in Keys
    BY DEF IInv, WriterInv
  <2>3. QED
    BY <2>1, <2>2, SkipListAssumption DEF Levels
<1>2. \A l \in Levels : next[key[Writer]][l] = Uninit
  BY <1>1 DEF IInv, RawInv
<1>3. next[key[Writer]] \in [Levels -> Keys \cup {NULL, Uninit}]
  BY <1>1 DEF IInv, TypeOK, Nodes
<1>4. QED
  BY <1>2, <1>3

(* So the creation of a node changes no slot a search can reach.           *)
LEMMA NewNodeIInv ==
  ASSUME IInv, NewNode
  PROVE  IInv' /\ next' = next
<1> USE SkipListAssumption DEF Threads, Nodes, Levels
<1>1. /\ pc[Writer] = "found" /\ Height <= maxHeight
      /\ next' = [next EXCEPT ![key[Writer]] = [l \in Levels |-> Uninit]]
      /\ rung' = 0
      /\ pc' = [pc EXCEPT ![Writer] = "own"]
      /\ UNCHANGED <<maxHeight, key, x, level, found, prev, answer>>
  BY DEF NewNode
<1>2. rung = 0
  BY <1>1 DEF IInv, WriterInv
<1>3. next' = next
  <2>1. [l \in Levels |-> Uninit] = next[key[Writer]]
    BY <1>1, NewNodeIsRaw
  <2>2. next' = [next EXCEPT ![key[Writer]] = next[key[Writer]]]
    BY <1>1, <2>1
  <2>3. next \in [Nodes -> [Levels -> Keys \cup {NULL, Uninit}]]
    BY DEF IInv, TypeOK
  <2>4. QED
    BY <2>2, <2>3
<1>4. \A l : Linked(l)' = Linked(l)
  BY <1>3, SameLists
<1>5. TypeOK'
  <2>1. pc' \in [Threads -> {"idle", "search", "found", "own", "publish", "done"}]
    BY <1>1 DEF IInv, TypeOK
  <2>2. rung' \in 0..Height
    BY <1>1
  <2>3. UNCHANGED <<next, maxHeight, key, x, level, found, prev, answer>>
    BY <1>1, <1>3
  <2>4. QED
    BY <2>1, <2>2, <2>3 DEF IInv, TypeOK
<1>6. LevelsOrdered'
  BY <1>3, <1>4 DEF IInv, LevelsOrdered, IsSuccessor
<1>7. SearchInv'
  BY <1>1, <1>4 DEF IInv, TypeOK, SearchInv
<1>8. FoundInv' /\ CallInv'
  BY <1>1 DEF IInv, TypeOK, FoundInv, CallInv
<1>9. WriterInv'
  BY <1>1, <1>2, <1>4 DEF IInv, TypeOK, WriterInv
<1>10. PrevInv'
  BY <1>1, <1>3, <1>4 DEF IInv, TypeOK, PrevInv, Brackets
<1>11. RawInv' /\ TowerInv'
  BY <1>1, <1>3, <1>4 DEF IInv, TypeOK, RawInv, TowerInv
<1>12. QED
  BY <1>3, <1>5, <1>6, <1>7, <1>8, <1>9, <1>10, <1>11 DEF IInv

(* Insert returns with its node linked on all of its levels.               *)
LEMMA InsertReturnIInv ==
  ASSUME IInv, InsertReturn
  PROVE  IInv'
<1> USE SkipListAssumption DEF Threads, Nodes, Levels
<1>1. /\ pc[Writer] = "done"
      /\ pc' = [pc EXCEPT ![Writer] = "idle"]
      /\ key' = [key EXCEPT ![Writer] = NULL]
      /\ x' = [x EXCEPT ![Writer] = head]
      /\ level' = [level EXCEPT ![Writer] = 0]
      /\ found' = [found EXCEPT ![Writer] = NULL]
      /\ prev' = [l \in Levels |-> Uninit]
      /\ rung' = 0
      /\ UNCHANGED <<next, maxHeight, answer>>
  BY DEF InsertReturn, EndCall
<1>2. \A l : Linked(l)' = Linked(l)
  BY <1>1, SameLists
<1>3. pc'[Writer] = "idle" /\ key'[Writer] = NULL
  BY <1>1 DEF IInv, TypeOK
<1>4. TypeOK'
  BY <1>1 DEF IInv, TypeOK
<1>5. LevelsOrdered'
  BY <1>1, <1>2 DEF IInv, LevelsOrdered, IsSuccessor
<1>6. SearchInv'
  BY <1>1, <1>2 DEF IInv, TypeOK, SearchInv, Precedes
<1>7. FoundInv' /\ CallInv'
  BY <1>1 DEF IInv, TypeOK, FoundInv, CallInv
<1>8. WriterInv' /\ PrevInv'
  BY <1>1, <1>3 DEF WriterInv, PrevInv
<1>9. RawInv'
  BY <1>1, <1>2, <1>3 DEF IInv, RawInv
<1>10. TowerInv'
  <2>1. \A l \in Levels : key[Writer] \in Linked(l) <=> l < Height
    BY <1>1 DEF IInv, WriterInv
  <2>2. \A l \in 0..(Height - 1) : key[Writer] \in Linked(l) <=> key[Writer] \in Linked(0)
    BY <2>1
  <2>3. \A l \in 0..(Height - 1), k \in Keys : k \in Linked(l) <=> k \in Linked(0)
    BY <2>2 DEF IInv, TowerInv
  <2>4. QED
    BY <1>1, <1>2, <2>3 DEF IInv, TowerInv
<1>11. QED
  BY <1>4, <1>5, <1>6, <1>7, <1>8, <1>9, <1>10 DEF IInv

(* While it is not linked on level rung, the new node's slot there holds   *)
(* no key but the one the slot of prev[rung] holds.                        *)
LEMMA WriterFacts ==
  ASSUME IInv, pc[Writer] \in {"own", "publish"}
  PROVE  /\ rung \in Levels /\ rung < Height /\ Height <= maxHeight
         /\ key[Writer] \in Keys /\ key[Writer] \notin Linked(rung)
         /\ prev[rung] \in Linked(rung) \cup {head}
         /\ prev[rung] \in Nodes
         /\ prev[rung] # key[Writer]
         /\ Brackets(rung)
         /\ IsSuccessor(Linked(rung), prev[rung], next[prev[rung]][rung])
<1> USE SkipListAssumption DEF Threads, Nodes, Levels
<1>1. rung \in Levels /\ rung < Height /\ Height <= maxHeight
  BY DEF IInv, TypeOK, WriterInv
<1>2. key[Writer] \in Keys /\ key[Writer] \notin Linked(rung)
  BY <1>1 DEF IInv, WriterInv
<1>3. Brackets(rung)
  BY <1>1 DEF IInv, PrevInv
<1>4. prev[rung] \in Linked(rung) \cup {head}
  BY <1>3 DEF Brackets
<1>5. prev[rung] \in Nodes /\ prev[rung] # key[Writer]
  BY <1>2, <1>4 DEF Linked
<1>6. IsSuccessor(Linked(rung), prev[rung], next[prev[rung]][rung])
  BY <1>1, <1>4 DEF IInv, LevelsOrdered
<1>7. QED
  BY <1>1, <1>2, <1>3, <1>4, <1>5, <1>6

(* The store to the new node's own slot changes no list.                   *)
LEMMA SetOwnNextLists ==
  ASSUME IInv, SetOwnNext
  PROVE  /\ \A l \in Levels : Linked(l)' = Linked(l)
         /\ \A n \in Nodes, l \in Levels :
              next'[n][l] = IF n = key[Writer] /\ l = rung
                            THEN next[prev[rung]][rung] ELSE next[n][l]
<1> USE SkipListAssumption DEF Nodes
<1> DEFINE k == key[Writer]
           m == next[prev[rung]][rung]
<1>1. pc[Writer] = "own" /\ next' = [next EXCEPT ![k][rung] = m]
  BY DEF SetOwnNext
<1>2. /\ rung \in Levels /\ k \in Keys /\ k \notin Linked(rung)
      /\ prev[rung] \in Nodes /\ prev[rung] # k
  BY <1>1, WriterFacts
<1>3. \A n \in Nodes, l \in Levels :
        next'[n][l] = IF n = k /\ l = rung THEN m ELSE next[n][l]
  BY <1>1, <1>2 DEF IInv, TypeOK
<1>4. next[k][rung] = Uninit
  BY <1>1, <1>2 DEF IInv, RawInv
<1>5. ASSUME NEW l \in Levels PROVE Linked(l)' = Linked(l)
  <2>1. ASSUME NEW j \in Keys, NEW n \in Nodes, next[n][l] = j
        PROVE  \E o \in Nodes : next'[o][l] = j
    BY <1>2, <1>3, <1>4, <1>5, <2>1
  <2>2. ASSUME NEW j \in Keys, NEW n \in Nodes, next'[n][l] = j
        PROVE  \E o \in Nodes : next[o][l] = j
    <3>1. CASE n = k /\ l = rung
      <4>1. next[prev[rung]][l] = j
        BY <1>2, <1>3, <1>5, <2>2, <3>1
      <4>2. QED
        BY <1>2, <4>1
    <3>2. CASE ~(n = k /\ l = rung)
      <4>1. next[n][l] = j
        BY <1>3, <2>2, <3>2
      <4>2. QED
        BY <4>1
    <3>3. QED
      BY <3>1, <3>2
  <2>3. QED
    BY <2>1, <2>2 DEF Linked
<1>6. QED
  BY <1>3, <1>5

(* The store to prev[rung] adds the new node to the list of level rung.    *)
LEMMA PublishLists ==
  ASSUME IInv, Publish
  PROVE  /\ \A l \in Levels :
              Linked(l)' = IF l = rung THEN Linked(l) \cup {key[Writer]} ELSE Linked(l)
         /\ \A n \in Nodes, l \in Levels :
              next'[n][l] = IF n = prev[rung] /\ l = rung
                            THEN key[Writer] ELSE next[n][l]
<1> USE SkipListAssumption DEF Nodes
<1> DEFINE k == key[Writer]
           m == next[prev[rung]][rung]
<1>1. pc[Writer] = "publish" /\ next' = [next EXCEPT ![prev[rung]][rung] = k]
  BY DEF Publish
<1>2. /\ rung \in Levels /\ k \in Keys /\ k \notin Linked(rung)
      /\ prev[rung] \in Nodes /\ prev[rung] # k
  BY <1>1, WriterFacts
<1>3. \A n \in Nodes, l \in Levels :
        next'[n][l] = IF n = prev[rung] /\ l = rung THEN k ELSE next[n][l]
  BY <1>1, <1>2 DEF IInv, TypeOK
<1>4. next'[k][rung] = m /\ next'[prev[rung]][rung] = k
  BY <1>1, <1>2, <1>3 DEF IInv, PrevInv
<1>5. ASSUME NEW l \in Levels
      PROVE  Linked(l)' = IF l = rung THEN Linked(l) \cup {k} ELSE Linked(l)
  <2>1. ASSUME NEW j \in Keys, NEW n \in Nodes, next[n][l] = j
        PROVE  \E o \in Nodes : next'[o][l] = j
    BY <1>2, <1>3, <1>4, <1>5, <2>1
  <2>2. ASSUME NEW j \in Keys, NEW n \in Nodes, next'[n][l] = j, j # k \/ l # rung
        PROVE  \E o \in Nodes : next[o][l] = j
    BY <1>2, <1>3, <1>5, <2>2
  <2>3. l = rung => k \in Linked(l)'
    BY <1>2, <1>4 DEF Linked
  <2>4. QED
    BY <1>2, <2>1, <2>2, <2>3 DEF Linked
<1>6. QED
  BY <1>3, <1>5

(* The new node's slot now holds what follows it on level rung.            *)
LEMMA SetOwnNextIInv ==
  ASSUME IInv, SetOwnNext
  PROVE  IInv'
<1> USE SkipListAssumption DEF Threads, Nodes, Levels
<1> DEFINE k == key[Writer]
           m == next[prev[rung]][rung]
<1>1. /\ pc[Writer] = "own"
      /\ pc' = [pc EXCEPT ![Writer] = "publish"]
      /\ UNCHANGED <<maxHeight, key, x, level, found, prev, rung, answer>>
  BY DEF SetOwnNext
<1>2. /\ rung \in Levels /\ k \in Keys /\ k \notin Linked(rung)
      /\ prev[rung] \in Nodes /\ prev[rung] # k
      /\ IsSuccessor(Linked(rung), prev[rung], m)
  BY <1>1, WriterFacts
<1>3. \A l \in Levels : Linked(l)' = Linked(l)
  BY SetOwnNextLists
<1>4. \A n \in Nodes, l \in Levels :
        next'[n][l] = IF n = k /\ l = rung THEN m ELSE next[n][l]
  BY SetOwnNextLists
<1>5. TypeOK'
  <2>1. next' \in [Nodes -> [Levels -> Keys \cup {NULL, Uninit}]]
    BY <1>2 DEF IInv, TypeOK, SetOwnNext
  <2>2. QED
    BY <1>1, <2>1 DEF IInv, TypeOK
<1>6. LevelsOrdered'
  <2>1. SUFFICES ASSUME NEW l \in Levels, NEW n \in Linked(l) \cup {head}
                 PROVE  IsSuccessor(Linked(l), n, next[n][l])'
    BY <1>3 DEF LevelsOrdered
  <2>2. n \in Nodes /\ (n # k \/ l # rung)
    BY <1>2 DEF Linked
  <2>3. next'[n][l] = next[n][l]
    BY <1>4, <2>2
  <2>4. IsSuccessor(Linked(l), n, next[n][l])
    BY DEF IInv, LevelsOrdered
  <2>5. QED
    BY <1>3, <2>3, <2>4 DEF IsSuccessor
<1>7. SearchInv'
  BY <1>1, <1>3 DEF IInv, TypeOK, SearchInv
<1>8. FoundInv' /\ CallInv'
  BY <1>1 DEF IInv, TypeOK, FoundInv, CallInv
<1>9. WriterInv'
  BY <1>1, <1>3 DEF IInv, TypeOK, WriterInv
<1>10. PrevInv'
  <2>1. ASSUME NEW l \in Levels, rung <= l, l < Height PROVE Brackets(l)'
    <3>1. Brackets(l)
      BY <1>1, <2>1 DEF IInv, PrevInv
    <3>2. prev[l] # k \/ l # rung
      BY <1>2
    <3>3. prev[l] \in Nodes
      BY <3>1 DEF Brackets, Linked
    <3>4. next'[prev[l]][l] = next[prev[l]][l]
      BY <1>4, <3>2, <3>3
    <3>5. QED
      BY <1>1, <1>3, <3>1, <3>4 DEF Brackets
  <2>2. pc'[Writer] = "publish"
    BY <1>1 DEF IInv, TypeOK
  <2>3. next'[k][rung] = m /\ next'[prev[rung]][rung] = m
    BY <1>2, <1>4
  <2>4. QED
    BY <1>1, <2>1, <2>2, <2>3 DEF PrevInv
<1>11. RawInv'
  <2>1. pc'[Writer] = "publish"
    BY <1>1 DEF IInv, TypeOK
  <2>2. SUFFICES ASSUME NEW n \in Keys, NEW l \in Levels, next'[n][l] # Uninit,
                        ~(n = k /\ l = rung)
                 PROVE  n \in Linked(l)
    BY <1>1, <1>3, <2>1 DEF RawInv
  <2>3. next[n][l] # Uninit
    BY <1>4, <2>2
  <2>4. QED
    BY <1>1, <2>3 DEF IInv, RawInv
<1>12. TowerInv'
  BY <1>1, <1>3 DEF IInv, TowerInv
<1>13. QED
  BY <1>5, <1>6, <1>7, <1>8, <1>9, <1>10, <1>11, <1>12 DEF IInv

(* A fact about ordered chains: when the key k is put between p and p's    *)
(* successor m, every other node keeps its successor.                      *)
LEMMA LinkIn ==
  ASSUME NEW L \in SUBSET Keys, NEW k \in Keys, k \notin L,
         NEW p \in L \cup {head}, Precedes(p, k),
         NEW m, m \in Keys => k < m, IsSuccessor(L, p, m)
  PROVE  /\ IsSuccessor(L \cup {k}, p, k)
         /\ IsSuccessor(L \cup {k}, k, m)
         /\ \A n \in L \cup {head}, s \in L \cup {NULL} :
              n # p /\ IsSuccessor(L, n, s) => IsSuccessor(L \cup {k}, n, s)
<1>1. Keys \subseteq Int /\ head \notin Keys /\ NULL \notin Keys
  BY SkipListAssumption
<1>2. \A j \in L : j \in Int /\ j \in Keys
  BY <1>1
<1>3. k \in Int /\ k # NULL /\ k # head
  BY <1>1
<1>4. m \in L \cup {NULL} /\ (m # NULL => m \in Int /\ k < m)
  BY <1>2 DEF IsSuccessor
<1>5. \A j \in L : Precedes(p, j) => m # NULL /\ m <= j
  BY DEF IsSuccessor
<1>6. IsSuccessor(L \cup {k}, p, k)
  <2>1. \A j \in L : Precedes(p, j) => k <= j
    BY <1>2, <1>3, <1>4, <1>5
  <2>2. QED
    BY <1>3, <2>1 DEF IsSuccessor
<1>7. IsSuccessor(L \cup {k}, k, m)
  <2>1. \A j \in L : Precedes(k, j) => Precedes(p, j)
    BY <1>2, <1>3 DEF Precedes
  <2>2. ~Precedes(k, k)
    BY <1>3 DEF Precedes
  <2>3. \A j \in L \cup {k} : Precedes(k, j) => m # NULL /\ m <= j
    BY <1>5, <2>1, <2>2
  <2>4. m # NULL => Precedes(k, m)
    BY <1>3, <1>4 DEF Precedes
  <2>5. QED
    BY <1>4, <2>3, <2>4 DEF IsSuccessor
<1>8. ASSUME NEW n \in L \cup {head}, NEW s \in L \cup {NULL}, n # p, IsSuccessor(L, n, s)
      PROVE  IsSuccessor(L \cup {k}, n, s)
  <2>1. ASSUME Precedes(n, k) PROVE s # NULL /\ s <= k
    <3>1. p \in L /\ Precedes(n, p)
      <4>1. CASE n = head
        BY <1>8, <4>1 DEF Precedes
      <4>2. CASE n # head
        <5>1. n \in L /\ n \in Int /\ n < k
          BY <1>1, <1>2, <1>8, <2>1, <4>2 DEF Precedes
        <5>2. Precedes(p, n) => m # NULL /\ m <= n
          BY <1>5, <5>1
        <5>3. ~Precedes(p, n)
          BY <1>3, <1>4, <5>1, <5>2
        <5>4. p \in L
          BY <5>3 DEF Precedes
        <5>5. Precedes(n, p)
          BY <1>1, <1>2, <1>8, <5>1, <5>3, <5>4 DEF Precedes
        <5>6. QED
          BY <5>4, <5>5
      <4>3. QED
        BY <4>1, <4>2
    <3>2. s # NULL /\ s <= p
      BY <1>8, <3>1 DEF IsSuccessor
    <3>3. s \in Int /\ p \in Int /\ p < k
      BY <1>1, <1>2, <1>8, <3>1, <3>2 DEF IsSuccessor, Precedes
    <3>4. QED
      BY <1>3, <3>2, <3>3
  <2>2. QED
    BY <1>8, <2>1 DEF IsSuccessor
<1>9. QED
  BY <1>6, <1>7, <1>8

(* Linking a node between prev[rung] and what followed it keeps order.     *)
LEMMA PublishOrdered ==
  ASSUME IInv, Publish
  PROVE  LevelsOrdered'
<1> USE SkipListAssumption DEF Nodes
<1> DEFINE k == key[Writer]
           p == prev[rung]
           m == next[p][rung]
<1>1. pc[Writer] = "publish"
  BY DEF Publish
<1>2. /\ rung \in Levels /\ k \in Keys /\ k \notin Linked(rung)
      /\ p \in Linked(rung) \cup {head} /\ p \in Nodes /\ p # k
      /\ Brackets(rung) /\ IsSuccessor(Linked(rung), p, m)
  BY <1>1, WriterFacts
<1>3. \A l \in Levels :
        Linked(l)' = IF l = rung THEN Linked(l) \cup {k} ELSE Linked(l)
  BY PublishLists
<1>4. \A n \in Nodes, l \in Levels :
        next'[n][l] = IF n = p /\ l = rung THEN k ELSE next[n][l]
  BY PublishLists
<1>5. \A l \in Levels : Linked(l) \subseteq Keys
  BY DEF Linked
<1>6. \A l \in Levels : \A n \in Linked(l) \cup {head} :
        IsSuccessor(Linked(l), n, next[n][l])
  BY DEF IInv, LevelsOrdered
<1>7. next[k][rung] = m
  BY <1>1 DEF IInv, PrevInv
<1>8. Precedes(p, k) /\ (m \in Keys => k < m)
  BY <1>2 DEF Brackets
<1>9. SUFFICES ASSUME NEW l \in Levels, NEW n \in Linked(l)' \cup {head}
               PROVE  IsSuccessor(Linked(l)', n, next'[n][l])
  BY DEF LevelsOrdered, IsSuccessor
<1>10. CASE l # rung
  <2>1. Linked(l)' = Linked(l)
    BY <1>3, <1>10
  <2>2. n \in Linked(l) \cup {head} /\ n \in Nodes
    BY <1>5, <2>1
  <2>3. next'[n][l] = next[n][l]
    BY <1>4, <1>10, <2>2
  <2>4. QED
    BY <1>6, <2>1, <2>2, <2>3
<1>11. CASE l = rung
  <2> DEFINE L == Linked(rung)
  <2> HIDE DEF k, p, m, L
  <2>1. L \in SUBSET Keys /\ k \in Keys /\ k \notin L /\ p \in L \cup {head}
    BY <1>2, <1>5 DEF L
  <2>2. IsSuccessor(L, p, m)
    BY <1>2 DEF L
  <2>3. /\ IsSuccessor(L \cup {k}, p, k)
        /\ IsSuccessor(L \cup {k}, k, m)
        /\ \A o \in L \cup {head}, s \in L \cup {NULL} :
             o # p /\ IsSuccessor(L, o, s) => IsSuccessor(L \cup {k}, o, s)
    BY <1>8, <2>1, <2>2, LinkIn
  <2>4. Linked(l)' = L \cup {k}
    BY <1>3, <1>11 DEF L
  <2>5. n \in L \cup {k, head} /\ n \in Nodes
    BY <2>1, <2>4
  <2>6. CASE n = p
    BY <1>4, <1>11, <2>3, <2>4, <2>5, <2>6
  <2>7. CASE n = k
    BY <1>2, <1>4, <1>7, <1>11, <2>3, <2>4, <2>5, <2>7
  <2>8. CASE n # p /\ n # k
    <3>1. n \in L \cup {head} /\ next'[n][l] = next[n][rung]
      BY <1>4, <1>11, <2>5, <2>8
    <3>2. IsSuccessor(L, n, next[n][rung])
      BY <1>2, <1>6, <3>1 DEF L
    <3>3. next[n][rung] \in L \cup {NULL}
      BY <3>2 DEF IsSuccessor
    <3>4. QED
      BY <2>3, <2>4, <2>8, <3>1, <3>2, <3>3
  <2>9. QED
    BY <2>6, <2>7, <2>8
<1>12. QED
  BY <1>10, <1>11

(* The store that links the node on level rung, and the step to the next.  *)
LEMMA PublishIInv ==
  ASSUME IInv, Publish
  PROVE  IInv'
<1> USE SkipListAssumption DEF Threads, Nodes, Levels
<1> DEFINE k == key[Writer]
<1>1. /\ pc[Writer] = "publish"
      /\ rung' = rung + 1
      /\ pc' = [pc EXCEPT ![Writer] = IF rung + 1 < Height THEN "own" ELSE "done"]
      /\ UNCHANGED <<maxHeight, key, x, level, found, prev, answer>>
  BY DEF Publish
<1>2. /\ rung \in Levels /\ rung < Height /\ Height <= maxHeight
      /\ k \in Keys /\ k \notin Linked(rung)
      /\ prev[rung] \in Nodes /\ prev[rung] # k
  BY <1>1, WriterFacts
<1>3. \A l \in Levels :
        Linked(l)' = IF l = rung THEN Linked(l) \cup {k} ELSE Linked(l)
  BY PublishLists
<1>4. \A n \in Nodes, l \in Levels :
        next'[n][l] = IF n = prev[rung] /\ l = rung THEN k ELSE next[n][l]
  BY PublishLists
<1>5. pc'[Writer] = IF rung + 1 < Height THEN "own" ELSE "done"
  BY <1>1 DEF IInv, TypeOK
<1>6. TypeOK'
  <2>1. next' \in [Nodes -> [Levels -> Keys \cup {NULL, Uninit}]]
    BY <1>2 DEF IInv, TypeOK, Publish
  <2>2. pc' \in [Threads -> {"idle", "search", "found", "own", "publish", "done"}]
    BY <1>1 DEF IInv, TypeOK
  <2>3. rung' \in 0..Height
    BY <1>1, <1>2
  <2>4. QED
    BY <1>1, <2>1, <2>2, <2>3 DEF IInv, TypeOK
<1>7. SearchInv'
  <2>1. SUFFICES ASSUME NEW t \in Threads, pc'[t] = "search"
                 PROVE  /\ key[t] \in Keys /\ level[t] < maxHeight
                        /\ x[t] \in Linked(level[t])' \cup {head}
                        /\ Precedes(x[t], key[t])
    BY <1>1 DEF SearchInv
  <2>2. t # Writer /\ pc[t] = "search" /\ level[t] \in Levels
    BY <1>1, <1>5, <2>1 DEF IInv, TypeOK
  <2>3. \A l \in Levels : Linked(l) \subseteq Linked(l)'
    BY <1>3
  <2>4. /\ key[t] \in Keys /\ level[t] < maxHeight
        /\ x[t] \in Linked(level[t]) \cup {head}
        /\ Precedes(x[t], key[t])
    BY <2>2 DEF IInv, SearchInv
  <2>5. Linked(level[t])' = IF level[t] = rung THEN Linked(level[t]) \cup {k}
                            ELSE Linked(level[t])
    BY <1>1, <1>3, <2>2
  <2>6. QED
    BY <2>4, <2>5
<1>8. FoundInv'
  BY <1>1 DEF IInv, TypeOK, FoundInv
<1>9. CallInv'
  BY <1>1 DEF IInv, TypeOK, CallInv
<1>10. WriterInv'
  <2>1. \A l \in Levels : k \in Linked(l)' <=> l < rung + 1
    <3>1. \A l \in Levels : k \in Linked(l) <=> l < rung
      BY <1>1 DEF IInv, WriterInv
    <3>2. QED
      BY <1>2, <1>3, <3>1
  <2>2. rung + 1 = Height \/ rung + 1 < Height
    BY <1>2
  <2>3. QED
    BY <1>1, <1>2, <1>5, <2>1, <2>2 DEF WriterInv
<1>11. PrevInv'
  <2>1. ASSUME NEW l \in Levels, rung + 1 <= l, l < Height PROVE Brackets(l)'
    <3>1. l # rung /\ Brackets(l)
      BY <1>1, <1>2, <2>1 DEF IInv, PrevInv
    <3>2. prev[l] \in Nodes
      BY <3>1 DEF Brackets, Linked
    <3>3. next'[prev[l]][l] = next[prev[l]][l]
      BY <1>4, <3>1, <3>2
    <3>4. QED
      BY <1>1, <1>3, <3>1, <3>3 DEF Brackets
  <2>2. QED
    BY <1>1, <1>5, <2>1 DEF PrevInv
<1>12. RawInv'
  <2>1. SUFFICES ASSUME NEW n \in Keys, NEW l \in Levels, next'[n][l] # Uninit
                 PROVE  n \in Linked(l)'
    BY DEF RawInv
  <2>2. CASE n = prev[rung] /\ l = rung
    BY <1>1, <1>3, <2>2, WriterFacts
  <2>3. CASE ~(n = prev[rung] /\ l = rung)
    <3>1. next[n][l] # Uninit
      BY <1>4, <2>1, <2>3
    <3>2. n \in Linked(l) \/ (n = k /\ l = rung)
      BY <3>1 DEF IInv, RawInv
    <3>3. QED
      BY <1>3, <3>2
  <2>4. QED
    BY <2>2, <2>3
<1>13. TowerInv'
  <2>1. \A l \in Levels : l >= maxHeight \/ l >= Height => l # rung
    BY <1>2 DEF IInv, TypeOK
  <2>2. \A l \in Levels : l >= maxHeight \/ l >= Height => Linked(l)' = {}
    BY <1>3, <2>1 DEF IInv, TowerInv
  <2>3. ASSUME NEW l \in 0..(Height - 1), NEW j \in Keys, j # k
        PROVE  j \in Linked(l)' <=> j \in Linked(0)'
    <3>1. l \in Levels /\ 0 \in Levels
      OBVIOUS
    <3>2. (j \in Linked(l)' <=> j \in Linked(l)) /\ (j \in Linked(0)' <=> j \in Linked(0))
      BY <1>3, <2>3, <3>1
    <3>3. QED
      BY <2>3, <3>2 DEF IInv, TowerInv
  <2>4. QED
    BY <1>1, <2>2, <2>3 DEF TowerInv
<1>14. QED
  BY <1>6, <1>7, <1>8, <1>9, <1>10, <1>11, <1>12, <1>13, PublishOrdered DEF IInv

-----------------------------------------------------------------------------
(* Every step of every thread preserves the invariant.                     *)
LEMMA NextIInv == IInv /\ [Next]_vars => IInv'
<1> SUFFICES ASSUME IInv, [Next]_vars PROVE IInv'
  OBVIOUS
<1>1. ASSUME NEW t \in Threads, FindGreaterOrEqual(t) PROVE IInv'
  BY <1>1, MoveRightIInv, MoveDownIInv, ArriveIInv DEF FindGreaterOrEqual
<1>2. ASSUME NEW r \in Readers, ReaderStep(r) PROVE IInv'
  BY <1>1, <1>2, ContainsReturnIInv DEF ReaderStep, Threads
<1>3. ASSUME NEW r \in Readers, NEW k \in Keys, ContainsCall(r, k) PROVE IInv'
  BY <1>3, ContainsCallIInv
<1>4. CASE WriterStep
  BY <1>1, <1>4, RaiseHeightIInv, NewNodeIInv, SetOwnNextIInv, PublishIInv,
     InsertReturnIInv DEF WriterStep, Threads
<1>5. ASSUME NEW k \in Keys, InsertCall(k) PROVE IInv'
  BY <1>5, InsertCallIInv
<1>6. CASE UNCHANGED vars
  <2>1. \A l : Linked(l)' = Linked(l)
    BY <1>6, SameLists DEF vars
  <2>2. TypeOK' /\ FoundInv' /\ CallInv'
    BY <1>6 DEF IInv, vars, TypeOK, FoundInv, CallInv
  <2>3. LevelsOrdered' /\ SearchInv'
    BY <1>6, <2>1 DEF IInv, vars, LevelsOrdered, SearchInv
  <2>4. WriterInv' /\ PrevInv'
    BY <1>6, <2>1 DEF IInv, vars, WriterInv, PrevInv, Brackets
  <2>5. RawInv' /\ TowerInv'
    BY <1>6, <2>1 DEF IInv, vars, RawInv, TowerInv
  <2>6. QED
    BY <2>2, <2>3, <2>4, <2>5 DEF IInv
<1>7. QED
  BY <1>2, <1>3, <1>4, <1>5, <1>6 DEF Next

(* The invariant holds in every state of every behaviour.                  *)
THEOREM Invariance == Spec => []IInv
<1>1. QED
  BY InitIInv, NextIInv, PTL DEF Spec

(* Every variable of the list keeps its shape (SkipList.h:35-97): levels   *)
(* stay inside the next_ arrays, Insert's loop inside the node's height.   *)
THEOREM TypeCorrect == Spec => []TypeOK
<1>1. IInv => TypeOK
  BY DEF IInv
<1>2. QED
  BY <1>1, Invariance, PTL

(* No thread ever follows a next_ slot that was never stored to.           *)
THEOREM LoadsInitialized == Spec => []NoUninitializedLoad
<1>1. IInv => NoUninitializedLoad
  <2>1. SUFFICES ASSUME IInv PROVE NoUninitializedLoad
    OBVIOUS
  <2>2. ASSUME NEW t \in Threads, pc[t] = "search"
        PROVE  next[x[t]][level[t]] # Uninit
    BY <2>1, <2>2, SearchLoads, SkipListAssumption
  <2>3. ASSUME pc[Writer] = "own"
        PROVE  prev[rung] # Uninit /\ next[prev[rung]][rung] # Uninit
    <3>1. prev[rung] \in Nodes /\ next[prev[rung]][rung] \in Linked(rung) \cup {NULL}
      BY <2>1, <2>3, WriterFacts DEF IsSuccessor
    <3>2. QED
      BY <3>1, SkipListAssumption DEF Nodes, Linked
  <2>4. QED
    BY <2>2, <2>3 DEF NoUninitializedLoad
<1>2. QED
  BY <1>1, Invariance, PTL

(* At every instant each level is one chain in strictly increasing order.  *)
THEOREM ListsOrdered == Spec => []LevelsOrdered
<1>1. IInv => LevelsOrdered
  BY DEF IInv
<1>2. QED
  BY <1>1, Invariance, PTL

(* Levels are nested, and equal up to Height when no Insert is linking.    *)
THEOREM ListsNested == Spec => []LevelsNested
<1>1. QED
  BY NestedLists, Invariance, PTL

(* A step stores to the lists only by Publish; every other step leaves     *)
(* them as they are.                                                       *)
LEMMA ListsKept ==
  ASSUME IInv, [Next]_vars, ~Publish
  PROVE  \A l \in Levels : Linked(l)' = Linked(l)
<1>1. CASE next' = next
  BY <1>1, SameLists
<1>2. CASE SetOwnNext
  BY <1>2, SetOwnNextLists
<1>3. CASE NewNode
  BY <1>1, <1>3, NewNodeIInv
<1>4. CASE ~SetOwnNext /\ ~NewNode
  <2>1. next' = next
    BY <1>4 DEF Next, vars, ReaderStep, WriterStep, FindGreaterOrEqual, MoveRight,
       MoveDown, Arrive, ContainsCall, ContainsReturn, InsertCall, RaiseHeight,
       InsertReturn
  <2>2. QED
    BY <1>1, <2>1
<1>5. QED
  BY <1>2, <1>3, <1>4

(* No step ever takes a key off a level.                                   *)
THEOREM KeysStayLinked == Spec => NeverUnlinked
<1>1. IInv /\ [Next]_vars => [\A l \in Levels : Linked(l) \subseteq Linked(l)']_vars
  <2>1. SUFFICES ASSUME IInv, [Next]_vars
                 PROVE  \A l \in Levels : Linked(l) \subseteq Linked(l)'
    OBVIOUS
  <2>2. CASE Publish
    BY <2>1, <2>2, PublishLists
  <2>3. CASE ~Publish
    BY <2>1, <2>3, ListsKept
  <2>4. QED
    BY <2>2, <2>3
<1>2. QED
  BY <1>1, Invariance, PTL DEF Spec, NeverUnlinked

-----------------------------------------------------------------------------
(* The list implements the set.  An empty list is the empty set.           *)
LEMMA InitRefines == Init => Abstract!Init
<1> SUFFICES ASSUME Init PROVE Abstract!Init
  OBVIOUS
<1> USE SkipListAssumption DEF Init, Threads, Nodes, Levels
<1>1. Linked(0) = {}
  BY DEF Linked
<1>2. Phase = [t \in Threads |-> "idle"]
  BY DEF Phase
<1>3. QED
  BY <1>1, <1>2 DEF Abstract!Init, Abstract!Threads

(* A search of a reader decides with its last load: it returns the key it  *)
(* looks for exactly if that key is on level 0 at that instant.            *)
LEMMA ArriveDecides ==
  ASSUME IInv, NEW t \in Threads, Arrive(t)
  PROVE  next[x[t]][0] = key[t] <=> key[t] \in Linked(0)
<1> DEFINE n == next[x[t]][0]
<1>1. /\ pc[t] = "search" /\ level[t] = 0
      /\ ~(n \in Keys /\ n < key[t])
  BY DEF Arrive, KeyIsAfterNode
<1>2. /\ key[t] \in Keys /\ x[t] \in Linked(0) \cup {head}
      /\ Precedes(x[t], key[t]) /\ 0 \in Levels /\ x[t] \in Nodes
  BY <1>1 DEF IInv, SearchInv, TypeOK
<1>3. IsSuccessor(Linked(0), x[t], n)
  BY <1>2 DEF IInv, LevelsOrdered
<1>4. n = key[t] => key[t] \in Linked(0)
  BY <1>2 DEF Linked
<1>5. ASSUME key[t] \in Linked(0) PROVE n = key[t]
  <2>1. n # NULL /\ n <= key[t]
    BY <1>2, <1>3, <1>5 DEF IsSuccessor
  <2>2. n \in Keys
    BY <1>3, <2>1 DEF IsSuccessor, Linked
  <2>3. n \in Int /\ key[t] \in Int
    BY <1>2, <2>2, SkipListAssumption
  <2>4. QED
    BY <1>1, <2>1, <2>2, <2>3
<1>6. QED
  BY <1>4, <1>5

(* Steps that change neither the list on level 0 nor a thread's phase, nor *)
(* an argument or an answer, are invisible to the set's callers.           *)
LEMMA Stutter ==
  ASSUME Linked(0)' = Linked(0), Phase' = Phase, UNCHANGED <<key, answer>>
  PROVE  UNCHANGED Abstract!vars
BY DEF Abstract!vars

(* Level 0 exists: kMaxHeight is positive.                                 *)
LEMMA ZeroIsLevel == 0 \in Levels
BY SkipListAssumption DEF Levels

(* A search is invisible but for a reader's last load, which decides.      *)
LEMMA SearchRefines ==
  ASSUME IInv, NEW t \in Threads, FindGreaterOrEqual(t)
  PROVE  [Abstract!Next]_(Abstract!vars)
<1> USE SkipListAssumption DEF Threads
<1>1. Linked(0)' = Linked(0) /\ UNCHANGED <<next, key, rung, answer>>
  BY SameLists DEF FindGreaterOrEqual, MoveRight, MoveDown, Arrive
<1>2. CASE MoveRight(t) \/ MoveDown(t)
  <2>1. UNCHANGED <<pc, found>>
    BY <1>2 DEF MoveRight, MoveDown
  <2>2. QED
    BY <1>1, <2>1, Stutter DEF Phase
<1>3. CASE Arrive(t)
  <2>1. /\ pc[t] = "search"
        /\ pc' = [pc EXCEPT ![t] = "found"]
        /\ found' = [found EXCEPT ![t] = next[x[t]][0]]
    BY <1>3 DEF Arrive
  <2>2. /\ \A s \in Threads \ {t} : pc'[s] = pc[s] /\ found'[s] = found[s]
        /\ pc'[t] = "found" /\ found'[t] = next[x[t]][0]
    BY <2>1 DEF IInv, TypeOK
  <2>3. CASE t = Writer
    <3>1. Phase' = Phase
      BY <1>1, <2>1, <2>2, <2>3 DEF Phase
    <3>2. QED
      BY <1>1, <3>1, Stutter
  <2>4. CASE t # Writer
    <3>1. found'[t] = key'[t] <=> key[t] \in Linked(0)
      BY <1>1, <1>3, <2>2, ArriveDecides
    <3>2. Phase[t] = "called" /\ Phase \in [Threads -> {"idle", "called", "done", "yes", "no"}]
      BY <2>1, <2>4 DEF Phase
    <3>3. \A s \in Threads : Phase'[s] =
            IF s = t THEN IF key[t] \in Linked(0) THEN "yes" ELSE "no" ELSE Phase[s]
      BY <1>1, <2>2, <2>4, <3>1 DEF Phase
    <3>4. Phase' = [Phase EXCEPT ![t] = IF key[t] \in Linked(0) THEN "yes" ELSE "no"]
      BY <3>2, <3>3 DEF Phase
    <3>5. Abstract!Decide(t)
      BY <1>1, <3>2, <3>4 DEF Abstract!Decide
    <3>6. QED
      BY <2>4, <3>5 DEF Abstract!Next
  <2>5. QED
    BY <2>3, <2>4
<1>4. QED
  BY <1>2, <1>3 DEF FindGreaterOrEqual

(* A call of Contains or of Insert is a call of the set.                   *)
LEMMA CallRefines ==
  ASSUME IInv, NEW t \in Threads, NEW k \in Keys,
         StartSearch(t, k), t = Writer => k \notin Linked(0),
         UNCHANGED <<next, rung, answer>>
  PROVE  Abstract!Call(t, k)
<1> USE SkipListAssumption DEF Threads
<1>1. Linked(0)' = Linked(0)
  BY SameLists
<1>2. /\ pc[t] = "idle" /\ pc' = [pc EXCEPT ![t] = "search"]
      /\ key' = [key EXCEPT ![t] = k] /\ found' = found
  BY DEF StartSearch
<1>3. /\ \A s \in Threads \ {t} : pc'[s] = pc[s] /\ key'[s] = key[s]
      /\ pc'[t] = "search"
  BY <1>2 DEF IInv, TypeOK
<1>4. t = Writer => rung = 0
  BY <1>2 DEF IInv, WriterInv
<1>5. \A s \in Threads : Phase'[s] = IF s = t THEN "called" ELSE Phase[s]
  BY <1>2, <1>3, <1>4 DEF Phase
<1>6. Phase[t] = "idle" /\ Phase' = [Phase EXCEPT ![t] = "called"]
  BY <1>2, <1>5 DEF Phase
<1>7. QED
  BY <1>1, <1>2, <1>6 DEF Abstract!Call

(* The return of Contains hands over what the search decided.              *)
LEMMA ContainsReturnRefines ==
  ASSUME IInv, NEW r \in Readers, ContainsReturn(r)
  PROVE  Abstract!ReturnContains(r)
<1> USE SkipListAssumption DEF Threads
<1>1. /\ pc[r] = "found" /\ r # Writer
      /\ pc' = [pc EXCEPT ![r] = "idle"]
      /\ key' = [key EXCEPT ![r] = NULL]
      /\ found' = [found EXCEPT ![r] = NULL]
      /\ UNCHANGED <<next, rung>>
  BY DEF ContainsReturn, EndCall
<1>2. Linked(0)' = Linked(0)
  BY <1>1, SameLists
<1>3. key[r] \in Keys
  BY <1>1 DEF IInv, FoundInv
<1>4. Phase[r] = IF found[r] = key[r] THEN "yes" ELSE "no"
  BY <1>1 DEF Phase
<1>5. answer' = [answer EXCEPT ![r] = Phase[r]]
  BY <1>3, <1>4 DEF ContainsReturn, Equal
<1>6. /\ \A s \in Threads \ {r} :
           pc'[s] = pc[s] /\ key'[s] = key[s] /\ found'[s] = found[s]
      /\ pc'[r] = "idle"
  BY <1>1 DEF IInv, TypeOK
<1>7. \A s \in Threads : Phase'[s] = IF s = r THEN "idle" ELSE Phase[s]
  BY <1>1, <1>6 DEF Phase
<1>8. Phase' = [Phase EXCEPT ![r] = "idle"]
  BY <1>7 DEF Phase
<1>9. QED
  BY <1>1, <1>2, <1>4, <1>5, <1>8 DEF Abstract!ReturnContains

(* The store on level 0 is the instant at which Insert takes effect.       *)
LEMMA PublishRefines ==
  ASSUME IInv, Publish
  PROVE  Abstract!TakeEffect \/ UNCHANGED Abstract!vars
<1> USE SkipListAssumption, ZeroIsLevel DEF Threads
<1>1. /\ pc[Writer] = "publish" /\ rung' = rung + 1 /\ rung \in Nat
      /\ pc' = [pc EXCEPT ![Writer] = IF rung + 1 < Height THEN "own" ELSE "done"]
      /\ UNCHANGED <<key, found, answer>>
  BY DEF Publish, IInv, TypeOK
<1>2. /\ \A s \in Threads \ {Writer} : pc'[s] = pc[s]
      /\ pc'[Writer] # "idle"
  BY <1>1 DEF IInv, TypeOK
<1>3. Linked(0)' = IF rung = 0 THEN Linked(0) \cup {key[Writer]} ELSE Linked(0)
  BY PublishLists
<1>4. \A s \in Threads : Phase'[s] = IF s = Writer THEN "done" ELSE Phase[s]
  BY <1>1, <1>2 DEF Phase
<1>5. CASE rung = 0
  <2>1. Phase[Writer] = "called"
    BY <1>1, <1>5 DEF Phase
  <2>2. Phase' = [Phase EXCEPT ![Writer] = "done"]
    BY <1>4 DEF Phase
  <2>3. QED
    BY <1>1, <1>3, <1>5, <2>1, <2>2 DEF Abstract!TakeEffect
<1>6. CASE rung # 0
  <2>1. Phase[Writer] = "done"
    BY <1>1, <1>6 DEF Phase
  <2>2. Phase' = Phase
    BY <1>4, <2>1 DEF Phase
  <2>3. QED
    BY <1>1, <1>3, <1>6, <2>2, Stutter
<1>7. QED
  BY <1>5, <1>6

(* Insert returns after it has taken effect.                               *)
LEMMA InsertReturnRefines ==
  ASSUME IInv, InsertReturn
  PROVE  Abstract!ReturnInsert
<1> USE SkipListAssumption DEF Threads
<1>1. /\ pc[Writer] = "done" /\ rung = Height
      /\ pc' = [pc EXCEPT ![Writer] = "idle"]
      /\ key' = [key EXCEPT ![Writer] = NULL]
      /\ found' = [found EXCEPT ![Writer] = NULL]
      /\ rung' = 0
      /\ UNCHANGED <<next, answer>>
  BY DEF InsertReturn, EndCall, IInv, WriterInv
<1>2. Linked(0)' = Linked(0)
  BY <1>1, SameLists
<1>3. /\ \A s \in Threads \ {Writer} :
           pc'[s] = pc[s] /\ key'[s] = key[s] /\ found'[s] = found[s]
      /\ pc'[Writer] = "idle"
  BY <1>1 DEF IInv, TypeOK
<1>4. \A s \in Threads : Phase'[s] = IF s = Writer THEN "idle" ELSE Phase[s]
  BY <1>3 DEF Phase
<1>5. Phase[Writer] = "done"
  BY <1>1 DEF Phase
<1>6. Phase' = [Phase EXCEPT ![Writer] = "idle"]
  BY <1>4 DEF Phase
<1>7. QED
  BY <1>1, <1>2, <1>5, <1>6 DEF Abstract!ReturnInsert

(* What Insert does before its first store to prev[0] is invisible.        *)
LEMMA PrepareRefines ==
  ASSUME IInv, RaiseHeight \/ NewNode \/ SetOwnNext
  PROVE  UNCHANGED Abstract!vars
<1> USE SkipListAssumption, ZeroIsLevel DEF Threads
<1>1. Linked(0)' = Linked(0)
  <2>1. CASE RaiseHeight
    BY <2>1, SameLists DEF RaiseHeight
  <2>2. CASE NewNode
    BY <2>2, SameLists, NewNodeIInv
  <2>3. CASE SetOwnNext
    BY <2>3, SetOwnNextLists
  <2>4. QED
    BY <2>1, <2>2, <2>3
<1>2. rung' = rung /\ UNCHANGED <<key, found, answer>>
  BY DEF RaiseHeight, NewNode, SetOwnNext, IInv, WriterInv
<1>3. /\ \A s \in Threads \ {Writer} : pc'[s] = pc[s]
      /\ pc[Writer] # "idle" /\ pc'[Writer] # "idle"
  BY DEF RaiseHeight, NewNode, SetOwnNext, IInv, TypeOK
<1>4. Phase' = Phase
  BY <1>2, <1>3 DEF Phase
<1>5. QED
  BY <1>1, <1>2, <1>4, Stutter

(* Every step of the list is a step of the set or leaves it alone.         *)
LEMMA StepRefines == IInv /\ [Next]_vars => [Abstract!Next]_(Abstract!vars)
<1> SUFFICES ASSUME IInv, [Next]_vars PROVE [Abstract!Next]_(Abstract!vars)
  OBVIOUS
<1> USE DEF Threads, Abstract!Threads
<1>1. ASSUME NEW r \in Readers, ReaderStep(r) PROVE [Abstract!Next]_(Abstract!vars)
  BY <1>1, SearchRefines, ContainsReturnRefines DEF ReaderStep, Abstract!Next
<1>2. ASSUME NEW r \in Readers, NEW k \in Keys, ContainsCall(r, k)
      PROVE  Abstract!Next
  <2>1. Abstract!Call(r, k)
    BY <1>2, CallRefines, SkipListAssumption DEF ContainsCall
  <2>2. QED
    BY <2>1 DEF Abstract!Next
<1>3. ASSUME NEW k \in Keys, InsertCall(k) PROVE Abstract!Next
  <2>1. Abstract!Call(Writer, k)
    BY <1>3, CallRefines DEF InsertCall
  <2>2. QED
    BY <2>1 DEF Abstract!Next
<1>4. CASE WriterStep
  BY <1>4, SearchRefines, PrepareRefines, PublishRefines, InsertReturnRefines
     DEF WriterStep, Abstract!Next
<1>5. CASE UNCHANGED vars
  BY <1>5, SameLists, Stutter DEF vars, Phase
<1>6. QED
  BY <1>1, <1>2, <1>3, <1>4, <1>5 DEF Next

(* Linearizability: for any number of readers, the lock-free list behaves  *)
(* as a set whose operations are atomic.                                   *)
THEOREM Linearizable == Spec => ImplementsKeySet
<1>1. QED
  BY InitRefines, StepRefines, Invariance, PTL
     DEF Spec, ImplementsKeySet, Abstract!Spec

-----------------------------------------------------------------------------
(* How far a search has to go: the nodes between it and its key, and the   *)
(* levels below it.                                                        *)
Ahead(t) == {k \in Linked(0) : Precedes(x[t], k) /\ k < key[t]}

TurnsLeft(t) == level[t] + Cardinality(Ahead(t))

(* Every load takes a search on, and of the steps of others only one       *)
(* leaves it more to do: the store that brings a new node into its way.    *)
Advance ==
  \A t \in Threads : pc[t] = "search" =>
    /\ FindGreaterOrEqual(t) => pc'[t] = "found" \/ TurnsLeft(t)' < TurnsLeft(t)
    /\ ~FindGreaterOrEqual(t) => /\ pc'[t] = "search"
                                 /\ TurnsLeft(t)' <= TurnsLeft(t) + (IF Publish THEN 1 ELSE 0)

CountInv == IInv /\ IsFiniteSet(Linked(0))

(* What is linked above is linked on level 0.                              *)
LEMMA LinkedBelow ==
  ASSUME IInv, NEW l \in Levels, NEW k \in Linked(l)
  PROVE  k \in Linked(0)
<1> USE SkipListAssumption DEF Levels
<1>1. k \in Keys /\ l < Height /\ l \in 0..(Height - 1) /\ 0 \in Levels /\ rung \in Nat
  BY DEF IInv, TowerInv, TypeOK, Linked
<1>2. CASE k # key[Writer]
  BY <1>1, <1>2 DEF IInv, TowerInv
<1>3. CASE k = key[Writer]
  <2>1. pc[Writer] # "idle"
    BY <1>1, <1>3 DEF IInv, CallInv, Threads
  <2>2. l < rung
    BY <1>3, <2>1 DEF IInv, WriterInv
  <2>3. 0 < rung
    BY <1>1, <2>2
  <2>4. QED
    BY <1>1, <1>3, <2>1, <2>3 DEF IInv, WriterInv
<1>4. QED
  BY <1>2, <1>3

(* A finite list has finitely many nodes ahead of a search.                *)
LEMMA AheadFinite ==
  ASSUME CountInv, NEW t \in Threads
  PROVE  /\ IsFiniteSet(Ahead(t)) /\ Cardinality(Ahead(t)) \in Nat
         /\ level[t] \in Nat /\ TurnsLeft(t) \in Nat
<1>1. Ahead(t) \in SUBSET Linked(0) /\ IsFiniteSet(Linked(0))
  BY DEF Ahead, CountInv
<1>2. IsFiniteSet(Ahead(t))
  BY <1>1, FS_Subset
<1>3. Cardinality(Ahead(t)) \in Nat
  BY <1>2, FS_CardinalityType
<1>4. level[t] \in Nat
  BY SkipListAssumption DEF CountInv, IInv, TypeOK, Levels
<1>5. QED
  BY <1>2, <1>3, <1>4 DEF TurnsLeft

(* The list stays finite: a step links at most one node to level 0.        *)
LEMMA NextCount == ASSUME CountInv, [Next]_vars PROVE CountInv'
<1>1. IInv'
  BY NextIInv DEF CountInv
<1>2. IsFiniteSet(Linked(0)')
  <2>1. CASE Publish
    <3>1. Linked(0)' = Linked(0) \/ Linked(0)' = Linked(0) \cup {key[Writer]}
      BY <2>1, PublishLists, ZeroIsLevel DEF CountInv
    <3>2. IsFiniteSet(Linked(0) \cup {key[Writer]})
      BY FS_AddElement DEF CountInv
    <3>3. QED
      BY <3>1, <3>2 DEF CountInv
  <2>2. CASE ~Publish
    BY <2>2, ListsKept, ZeroIsLevel DEF CountInv
  <2>3. QED
    BY <2>1, <2>2
<1>3. QED
  BY <1>1, <1>2 DEF CountInv

(* A step to the right leaves the node it comes to behind.                 *)
LEMMA MoveRightAdvances ==
  ASSUME CountInv, NEW t \in Threads, MoveRight(t)
  PROVE  TurnsLeft(t)' < TurnsLeft(t)
<1> DEFINE n == next[x[t]][level[t]]
<1> USE SkipListAssumption
<1>1. /\ pc[t] = "search" /\ n \in Keys /\ n < key[t] /\ UNCHANGED <<next, key, level>>
      /\ x' = [x EXCEPT ![t] = n]
  BY DEF MoveRight, KeyIsAfterNode
<1>2. x'[t] = n
  BY <1>1 DEF CountInv, IInv, TypeOK
<1>3. /\ level[t] \in Levels /\ x[t] \in Linked(level[t]) \cup {head} /\ key[t] \in Keys
      /\ x[t] \in Nodes
  BY <1>1 DEF CountInv, IInv, TypeOK, SearchInv
<1>4. IsSuccessor(Linked(level[t]), x[t], n)
  BY <1>3 DEF CountInv, IInv, LevelsOrdered
<1>5. Precedes(x[t], n) /\ n \in Linked(0)
  <2>1. n # NULL
    BY <1>1
  <2>2. n \in Linked(level[t]) /\ Precedes(x[t], n)
    BY <1>4, <2>1 DEF IsSuccessor
  <2>3. QED
    BY <1>3, <2>2, LinkedBelow DEF CountInv
<1>6. n \in Ahead(t)
  BY <1>1, <1>5 DEF Ahead
<1>7. Linked(0)' = Linked(0)
  BY <1>1, SameLists
<1>8. Ahead(t)' = {k \in Linked(0) : Precedes(n, k) /\ k < key[t]}
  BY <1>1, <1>2, <1>7 DEF Ahead, Precedes
<1>9. Ahead(t)' \in SUBSET (Ahead(t) \ {n})
  <2>1. ASSUME NEW k \in Linked(0), Precedes(n, k), k < key[t]
        PROVE  Precedes(x[t], k) /\ k # n
    <3>1. k \in Keys /\ k \in Int /\ n \in Int /\ n # head
      BY <1>1, <2>1 DEF Linked
    <3>2. n < k
      BY <1>1, <2>1, <3>1 DEF Precedes
    <3>3. x[t] \in Keys => x[t] \in Int
      OBVIOUS
    <3>4. QED
      BY <1>5, <3>1, <3>2, <3>3 DEF Precedes
  <2>2. QED
    BY <1>8, <2>1 DEF Ahead
<1>10. /\ IsFiniteSet(Ahead(t)) /\ Cardinality(Ahead(t)) \in Nat /\ level[t] \in Nat
  BY AheadFinite
<1>11. IsFiniteSet(Ahead(t) \ {n}) /\ Cardinality(Ahead(t) \ {n}) = Cardinality(Ahead(t)) - 1
  BY <1>6, <1>10, FS_RemoveElement
<1>12. Cardinality(Ahead(t)') <= Cardinality(Ahead(t)) - 1 /\ IsFiniteSet(Ahead(t)')
  BY <1>9, <1>11, FS_Subset
<1>13. Cardinality(Ahead(t)') \in Nat
  BY <1>12, FS_CardinalityType
<1>14. TurnsLeft(t)' = level[t] + Cardinality(Ahead(t)')
  BY <1>1 DEF TurnsLeft
<1>15. QED
  BY <1>10, <1>12, <1>13, <1>14 DEF TurnsLeft

(* A step down leaves a level behind.                                      *)
LEMMA MoveDownAdvances ==
  ASSUME CountInv, NEW t \in Threads, MoveDown(t)
  PROVE  TurnsLeft(t)' < TurnsLeft(t)
<1>1. UNCHANGED <<next, key, x>> /\ level' = [level EXCEPT ![t] = @ - 1]
  BY DEF MoveDown
<1>2. level'[t] = level[t] - 1
  BY <1>1 DEF CountInv, IInv, TypeOK
<1>3. Ahead(t)' = Ahead(t)
  BY <1>1, SameLists DEF Ahead
<1>4. TurnsLeft(t)' = level[t] - 1 + Cardinality(Ahead(t))
  BY <1>2, <1>3 DEF TurnsLeft
<1>5. QED
  BY <1>4, AheadFinite DEF TurnsLeft

(* A step of another thread leaves a search where it is.                   *)
LEMMA OthersWait ==
  ASSUME CountInv, [Next]_vars, NEW t \in Threads, pc[t] = "search", ~FindGreaterOrEqual(t)
  PROVE  /\ pc'[t] = "search" /\ key'[t] = key[t] /\ x'[t] = x[t] /\ level'[t] = level[t]
<1> USE SkipListAssumption DEF Threads
<1>1. TypeOK
  BY DEF CountInv, IInv
<1>2. ASSUME NEW s \in Threads, FindGreaterOrEqual(s) PROVE s # t
  BY <1>2
<1>3. ASSUME NEW s \in Threads, s # t, FindGreaterOrEqual(s)
      PROVE  /\ pc'[t] = "search" /\ key'[t] = key[t] /\ x'[t] = x[t] /\ level'[t] = level[t]
  BY <1>1, <1>3 DEF TypeOK, FindGreaterOrEqual, MoveRight, MoveDown, Arrive
<1>4. ASSUME NEW r \in Readers, ContainsReturn(r)
      PROVE  /\ pc'[t] = "search" /\ key'[t] = key[t] /\ x'[t] = x[t] /\ level'[t] = level[t]
  BY <1>1, <1>4 DEF TypeOK, ContainsReturn, EndCall
<1>5. ASSUME NEW s \in Threads, NEW k \in Keys, StartSearch(s, k)
      PROVE  /\ pc'[t] = "search" /\ key'[t] = key[t] /\ x'[t] = x[t] /\ level'[t] = level[t]
  BY <1>1, <1>5 DEF TypeOK, StartSearch
<1>6. CASE RaiseHeight \/ NewNode \/ SetOwnNext \/ Publish \/ InsertReturn
  BY <1>1, <1>6 DEF TypeOK, RaiseHeight, NewNode, SetOwnNext, Publish, InsertReturn, EndCall
<1>7. CASE UNCHANGED vars
  BY <1>7 DEF vars
<1>8. QED
  BY <1>2, <1>3, <1>4, <1>5, <1>6, <1>7
     DEF Next, ReaderStep, WriterStep, ContainsCall, InsertCall

(* A new node on level 0 is one node more in the way at most.              *)
LEMMA OthersAdd ==
  ASSUME CountInv, [Next]_vars, NEW t \in Threads, pc[t] = "search", ~FindGreaterOrEqual(t)
  PROVE  TurnsLeft(t)' <= TurnsLeft(t) + (IF Publish THEN 1 ELSE 0)
<1>1. key'[t] = key[t] /\ x'[t] = x[t] /\ level'[t] = level[t]
  BY OthersWait
<1>2. Ahead(t)' = {k \in Linked(0)' : Precedes(x[t], k) /\ k < key[t]}
  BY <1>1 DEF Ahead, Precedes
<1>3. TurnsLeft(t)' = level[t] + Cardinality(Ahead(t)')
  BY <1>1 DEF TurnsLeft
<1>4. IsFiniteSet(Ahead(t)) /\ Cardinality(Ahead(t)) \in Nat /\ level[t] \in Nat
  BY AheadFinite
<1>5. CASE Linked(0)' = Linked(0)
  <2>1. Ahead(t)' = Ahead(t)
    BY <1>2, <1>5 DEF Ahead
  <2>2. QED
    BY <1>3, <1>4, <2>1 DEF TurnsLeft
<1>6. CASE Publish /\ Linked(0)' = Linked(0) \cup {key[Writer]}
  <2>1. Ahead(t)' \in SUBSET (Ahead(t) \cup {key[Writer]})
    BY <1>2, <1>6 DEF Ahead
  <2>2. /\ IsFiniteSet(Ahead(t) \cup {key[Writer]})
        /\ Cardinality(Ahead(t) \cup {key[Writer]}) \in Nat
        /\ Cardinality(Ahead(t) \cup {key[Writer]}) <= Cardinality(Ahead(t)) + 1
    <3>1. /\ IsFiniteSet(Ahead(t) \cup {key[Writer]})
          /\ \/ Cardinality(Ahead(t) \cup {key[Writer]}) = Cardinality(Ahead(t))
             \/ Cardinality(Ahead(t) \cup {key[Writer]}) = Cardinality(Ahead(t)) + 1
      BY <1>4, FS_AddElement
    <3>2. QED
      BY <1>4, <3>1
  <2>3. IsFiniteSet(Ahead(t)') /\ Cardinality(Ahead(t)') <= Cardinality(Ahead(t) \cup {key[Writer]})
    BY <2>1, <2>2, FS_Subset
  <2>4. Cardinality(Ahead(t)') \in Nat
    BY <2>3, FS_CardinalityType
  <2>5. Cardinality(Ahead(t)') <= Cardinality(Ahead(t)) + 1
    BY <1>4, <2>2, <2>3, <2>4
  <2>6. QED
    BY <1>3, <1>4, <1>6, <2>4, <2>5 DEF TurnsLeft
<1>7. Linked(0)' = Linked(0) \/ (Publish /\ Linked(0)' = Linked(0) \cup {key[Writer]})
  BY ListsKept, PublishLists, ZeroIsLevel DEF CountInv
<1>8. QED
  BY <1>5, <1>6, <1>7

(* A search ends after at most as many loads as there are nodes in its way *)
(* when it begins, and levels, and one more for each Insert meanwhile: the *)
(* lock-free loads of FindGreaterOrEqual are never led around in circles,  *)
(* and no reader waits for the writer (SkipList.h:28-33, 145-183).         *)
THEOREM SearchesAdvance ==
  Spec => []CountInv /\ [](\A t \in Threads : TurnsLeft(t) \in Nat) /\ [][Advance]_vars
<1>1. Init => CountInv
  <2>1. Init => Linked(0) = {}
    BY SkipListAssumption, ZeroIsLevel DEF Init, Linked, Nodes
  <2>2. QED
    BY <2>1, InitIInv, FS_EmptySet DEF CountInv
<1>2. CountInv /\ [Next]_vars => CountInv'
  BY NextCount
<1>3. CountInv => \A t \in Threads : TurnsLeft(t) \in Nat
  BY AheadFinite
<1>4. CountInv /\ [Next]_vars => [Advance]_vars
  <2>1. ASSUME CountInv, [Next]_vars, NEW t \in Threads, pc[t] = "search",
               FindGreaterOrEqual(t)
        PROVE  pc'[t] = "found" \/ TurnsLeft(t)' < TurnsLeft(t)
    <3>1. CASE Arrive(t)
      BY <2>1, <3>1 DEF Arrive, CountInv, IInv, TypeOK
    <3>2. QED
      BY <2>1, <3>1, MoveRightAdvances, MoveDownAdvances DEF FindGreaterOrEqual
  <2>2. QED
    BY <2>1, OthersWait, OthersAdd DEF Advance
<1>5. QED
  BY <1>1, <1>2, <1>3, <1>4, PTL DEF Spec
=============================================================================
