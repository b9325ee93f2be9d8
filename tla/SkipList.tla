------------------------------ MODULE SkipList ------------------------------
(***************************************************************************)
(* SkipList<Key, Comparator> of db/SkipList.h.  One thread inserts while   *)
(* any number of threads search without a lock.  Every load of a next_     *)
(* slot or of max_height_ by a search, and every store of an Insert, is an *)
(* action of its own, so that they interleave in every order.  (The load   *)
(* of prev[i]->next_[i] goes with the store to the new node's own slot:    *)
(* only the writer stores to the one, and no reader can reach the other.)  *)
(*                                                                         *)
(* A node is created by one Insert, for a key that is not yet in the list, *)
(* and is never unlinked or freed while the list lives: the model names a  *)
(* node by its key.                                                        *)
(***************************************************************************)
EXTENDS Integers

CONSTANTS
  Keys,        (* keys, compared as integers (the test's Comparator)       *)
  Readers,     (* threads that call Contains                               *)
  Writer,      (* the thread that calls Insert                             *)
  head,        (* head_                                                    *)
  NULL,
  Uninit,      (* what an AtomicPointer holds before its first store       *)
  kMaxHeight,  (* slots of head_ (12 in the code)                          *)
  Height       (* the height Insert gives every node (5 in the code)       *)

ASSUME SkipListAssumption ==
  /\ Keys \subseteq Int
  /\ Writer \notin Readers
  /\ head \notin Keys
  /\ NULL \notin Keys \cup {head}
  /\ Uninit \notin Keys \cup {head, NULL}
  /\ kMaxHeight \in Nat
  /\ Height \in 1..kMaxHeight

Threads == Readers \cup {Writer}
Nodes   == Keys \cup {head}
Levels  == 0..(kMaxHeight - 1)

VARIABLES
  next,        (* next[n][l] is the slot n->next_[l]                       *)
  maxHeight,   (* max_height_                                              *)
  pc,          (* where each thread is                                     *)
  key,         (* the argument of each thread's call                       *)
  x,           (* FindGreaterOrEqual's x                                   *)
  level,       (* FindGreaterOrEqual's level                               *)
  found,       (* what FindGreaterOrEqual returned                         *)
  prev,        (* Insert's prev[]                                          *)
  rung,        (* Insert's loop variable i                                 *)
  answer       (* what each reader's last Contains returned                *)

vars == <<next, maxHeight, pc, key, x, level, found, prev, rung, answer>>

-----------------------------------------------------------------------------
(* Mutants of the definitions below, each a plausible slip in the code.    *)

(* The two stores of the loop are swapped: the node is published first.    *)
PublishFirst ==
  /\ pc[Writer] = "own"
  /\ next' = [next EXCEPT ![prev[rung]][rung] = key[Writer]]
  /\ pc' = [pc EXCEPT ![Writer] = "publish"]
  /\ UNCHANGED <<maxHeight, key, x, level, found, prev, rung, answer>>

(* The new node's successor is taken from head_ and not from prev[i].      *)
SetOwnNextFromHead ==
  /\ pc[Writer] = "own"
  /\ next' = [next EXCEPT ![key[Writer]][rung] = next[head][rung]]
  /\ pc' = [pc EXCEPT ![Writer] = "publish"]
  /\ UNCHANGED <<maxHeight, key, x, level, found, prev, rung, answer>>

(* The loop stops one level short of the node's height.                    *)
PublishShort ==
  /\ pc[Writer] = "publish"
  /\ next' = [next EXCEPT ![prev[rung]][rung] = key[Writer]]
  /\ rung' = rung + 1
  /\ pc' = [pc EXCEPT ![Writer] = IF rung + 2 < Height THEN "own" ELSE "done"]
  /\ UNCHANGED <<maxHeight, key, x, level, found, prev, answer>>

(* The search passes over a node whose key equals the one it looks for.    *)
KeyIsAtOrAfterNode(k, n) == n \in Keys /\ n <= k

-----------------------------------------------------------------------------
(* NULL is the infinite key; a slot never stored to holds no node.         *)
KeyIsAfterNode(k, n) == n \in Keys /\ n < k

Equal(a, b) == a = b

(* The keys some slot of level l points to.                                *)
Linked(l) == {k \in Keys : \E n \in Nodes : next[n][l] = k}

Init ==
  /\ next = [n \in Nodes |-> [l \in Levels |-> IF n = head THEN NULL ELSE Uninit]]
  /\ maxHeight = 1
  /\ pc = [t \in Threads |-> "idle"]
  /\ key = [t \in Threads |-> NULL]
  /\ x = [t \in Threads |-> head]
  /\ level = [t \in Threads |-> 0]
  /\ found = [t \in Threads |-> NULL]
  /\ prev = [l \in Levels |-> Uninit]
  /\ rung = 0
  /\ answer = [r \in Readers |-> "no"]

-----------------------------------------------------------------------------
(* FindGreaterOrEqual, run by Contains and by Insert.                      *)

(* The call: x starts at head_, level at the max_height_ it loads.         *)
StartSearch(t, k) ==
  /\ pc[t] = "idle"
  /\ pc' = [pc EXCEPT ![t] = "search"]
  /\ key' = [key EXCEPT ![t] = k]
  /\ x' = [x EXCEPT ![t] = head]
  /\ level' = [level EXCEPT ![t] = maxHeight - 1]
  /\ UNCHANGED found

(* One load of x->Next(level), and what the loop does with it.             *)
MoveRight(t) ==
  LET n == next[x[t]][level[t]] IN
  /\ pc[t] = "search"
  /\ KeyIsAfterNode(key[t], n)
  /\ x' = [x EXCEPT ![t] = n]
  /\ UNCHANGED <<next, maxHeight, pc, key, level, found, prev, rung, answer>>

(* Only Insert passes a prev array.                                        *)
RecordPrev(t) ==
  prev' = IF t = Writer THEN [prev EXCEPT ![level[t]] = x[t]] ELSE prev

MoveDown(t) ==
  LET n == next[x[t]][level[t]] IN
  /\ pc[t] = "search"
  /\ ~KeyIsAfterNode(key[t], n)
  /\ level[t] # 0
  /\ RecordPrev(t)
  /\ level' = [level EXCEPT ![t] = @ - 1]
  /\ UNCHANGED <<next, maxHeight, pc, key, x, found, rung, answer>>

Arrive(t) ==
  LET n == next[x[t]][level[t]] IN
  /\ pc[t] = "search"
  /\ ~KeyIsAfterNode(key[t], n)
  /\ level[t] = 0
  /\ RecordPrev(t)
  /\ found' = [found EXCEPT ![t] = n]
  /\ pc' = [pc EXCEPT ![t] = "found"]
  /\ UNCHANGED <<next, maxHeight, key, x, level, rung, answer>>

(* The call returns and its locals are gone.                               *)
EndCall(t) ==
  /\ pc' = [pc EXCEPT ![t] = "idle"]
  /\ key' = [key EXCEPT ![t] = NULL]
  /\ x' = [x EXCEPT ![t] = head]
  /\ level' = [level EXCEPT ![t] = 0]
  /\ found' = [found EXCEPT ![t] = NULL]

-----------------------------------------------------------------------------
(* Contains(k).                                                            *)
ContainsCall(r, k) ==
  /\ StartSearch(r, k)
  /\ UNCHANGED <<next, maxHeight, prev, rung, answer>>

ContainsReturn(r) ==
  /\ pc[r] = "found"
  /\ answer' = [answer EXCEPT ![r] =
       IF found[r] # NULL /\ Equal(key[r], found[r]) THEN "yes" ELSE "no"]
  /\ EndCall(r)
  /\ UNCHANGED <<next, maxHeight, prev, rung>>

-----------------------------------------------------------------------------
(* Insert(k).  REQUIRES: nothing that compares equal to k is in the list.  *)
InsertCall(k) ==
  /\ k \notin Linked(0)
  /\ StartSearch(Writer, k)
  /\ prev' = [l \in Levels |-> Uninit]
  /\ UNCHANGED <<next, maxHeight, rung, answer>>

(* head_ precedes the new node on the levels the search did not visit.     *)
RaiseHeight ==
  /\ pc[Writer] = "found"
  /\ Height > maxHeight
  /\ prev' = [l \in Levels |-> IF l \in maxHeight..(Height - 1) THEN head ELSE prev[l]]
  /\ maxHeight' = Height
  /\ UNCHANGED <<next, pc, key, x, level, found, rung, answer>>

(* The node's slots are memory of the arena that nobody has stored to.     *)
NewNode ==
  /\ pc[Writer] = "found"
  /\ Height <= maxHeight
  /\ next' = [next EXCEPT ![key[Writer]] = [l \in Levels |-> Uninit]]
  /\ rung' = 0
  /\ pc' = [pc EXCEPT ![Writer] = "own"]
  /\ UNCHANGED <<maxHeight, key, x, level, found, prev, answer>>

(* x->NoBarrier_SetNext(i, prev[i]->NoBarrier_Next(i))                     *)
SetOwnNext ==
  /\ pc[Writer] = "own"
  /\ next' = [next EXCEPT ![key[Writer]][rung] = next[prev[rung]][rung]]
  /\ pc' = [pc EXCEPT ![Writer] = "publish"]
  /\ UNCHANGED <<maxHeight, key, x, level, found, prev, rung, answer>>

(* prev[i]->SetNext(i, x)                                                  *)
Publish ==
  /\ pc[Writer] = "publish"
  /\ next' = [next EXCEPT ![prev[rung]][rung] = key[Writer]]
  /\ rung' = rung + 1
  /\ pc' = [pc EXCEPT ![Writer] = IF rung + 1 < Height THEN "own" ELSE "done"]
  /\ UNCHANGED <<maxHeight, key, x, level, found, prev, answer>>

InsertReturn ==
  /\ pc[Writer] = "done"
  /\ EndCall(Writer)
  /\ prev' = [l \in Levels |-> Uninit]
  /\ rung' = 0
  /\ UNCHANGED <<next, maxHeight, answer>>

-----------------------------------------------------------------------------
FindGreaterOrEqual(t) == MoveRight(t) \/ MoveDown(t) \/ Arrive(t)

ReaderStep(r) == FindGreaterOrEqual(r) \/ ContainsReturn(r)

WriterStep ==
  \/ FindGreaterOrEqual(Writer)
  \/ RaiseHeight \/ NewNode \/ SetOwnNext \/ Publish \/ InsertReturn

Next ==
  \/ \E r \in Readers : ReaderStep(r) \/ \E k \in Keys : ContainsCall(r, k)
  \/ WriterStep
  \/ \E k \in Keys : InsertCall(k)

Spec == Init /\ [][Next]_vars

(* A thread inside a call keeps running; nobody has to make a call.        *)
Fairness == (\A r \in Readers : WF_vars(ReaderStep(r))) /\ WF_vars(WriterStep)

FairSpec == Spec /\ Fairness

-----------------------------------------------------------------------------
(* Properties.                                                             *)

(* Every variable keeps the shape its declaration in SkipList.h gives it:  *)
(* in particular a search never leaves levels 0..kMaxHeight-1 of the next_ *)
(* arrays and Insert's loop never runs past the node's height.             *)
TypeOK ==
  /\ next \in [Nodes -> [Levels -> Keys \cup {NULL, Uninit}]]
  /\ maxHeight \in 1..kMaxHeight
  /\ pc \in [Threads -> {"idle", "search", "found", "own", "publish", "done"}]
  /\ key \in [Threads -> Keys \cup {NULL}]
  /\ x \in [Threads -> Nodes]
  /\ level \in [Threads -> Levels]
  /\ found \in [Threads -> Keys \cup {NULL, Uninit}]
  /\ prev \in [Levels -> Nodes \cup {Uninit}]
  /\ rung \in 0..Height
  /\ answer \in [Readers -> {"yes", "no"}]

(* No thread loads a next_ slot that nobody has stored to, although a node *)
(* is published on its lower levels while its upper slots are still raw    *)
(* arena memory (Insert's loop, SkipList.h:131-135), and although prev[]   *)
(* is an uninitialized array when the search is shorter than the node.     *)
NoUninitializedLoad ==
  /\ \A t \in Threads : pc[t] = "search" => next[x[t]][level[t]] # Uninit
  /\ pc[Writer] = "own" =>
       prev[rung] # Uninit /\ next[prev[rung]][rung] # Uninit

(* n is head_, which precedes everything, or a node with a smaller key.    *)
Precedes(n, k) == n = head \/ (n \in Keys /\ n < k)

(* m is the first key of list after n, or NULL when there is none.         *)
IsSuccessor(list, n, m) ==
  /\ m \in list \cup {NULL}
  /\ m # NULL => Precedes(n, m)
  /\ \A k \in list : Precedes(n, k) => m # NULL /\ m <= k

(* On every level, at every instant of an Insert, head_ and the linked     *)
(* nodes form one chain in strictly increasing key order that leaves none  *)
(* of them out: a search can neither skip a key nor run into a cycle.      *)
LevelsOrdered ==
  \A l \in Levels : \A n \in Linked(l) \cup {head} :
    IsSuccessor(Linked(l), n, next[n][l])

(* A node found on some level is linked on all the levels below, so a      *)
(* search may always step down; and once Insert has returned its node is   *)
(* linked on all of its Height levels, and on no level above maxHeight.    *)
LevelsNested ==
  /\ \A l \in Levels : l > 0 => Linked(l) \subseteq Linked(l - 1)
  /\ \A l \in Levels : l >= maxHeight => Linked(l) = {}
  /\ pc[Writer] \notin {"own", "publish"} =>
       \A l \in 0..(Height - 1) : Linked(l) = Linked(0)

(* A key that is linked on a level is never unlinked from it: the two      *)
(* stores per level of Insert only ever add to a list.                     *)
NeverUnlinked == [][\A l \in Levels : Linked(l) \subseteq Linked(l)']_vars

(* Linearizability (SkipList.h:28-33): every Insert and every Contains     *)
(* behaves as one atomic operation on a set of keys, although Insert takes *)
(* two stores per level and Contains a load per node it visits.  Insert    *)
(* takes effect with its store to prev[0], Contains with its last load.    *)
Phase ==
  [t \in Threads |->
     IF pc[t] = "idle" THEN "idle"
     ELSE IF t = Writer THEN (IF rung > 0 THEN "done" ELSE "called")
     ELSE IF pc[t] = "search" THEN "called"
     ELSE IF found[t] = key[t] THEN "yes" ELSE "no"]

Abstract == INSTANCE KeySet
  WITH set <- Linked(0), phase <- Phase, arg <- key, None <- NULL

ImplementsKeySet == Abstract!Spec

(* Every Contains and every Insert returns, however the reader's search    *)
(* and the writer's stores interleave.                                     *)
CallsReturn == \A t \in Threads : pc[t] # "idle" ~> pc[t] = "idle"
=============================================================================
