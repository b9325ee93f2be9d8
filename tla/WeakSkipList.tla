---------------------------- MODULE WeakSkipList ----------------------------
(***************************************************************************)
(* SkipList of db/SkipList.h on a machine that reorders memory accesses:   *)
(* what Acquire_Load, Release_Store, NoBarrier_Load and NoBarrier_Store of *)
(* AtomicPointer let a search see of an Insert in another thread.          *)
(*                                                                         *)
(* One thread stores, so its stores have a time, 1, 2, ...  A load returns *)
(* any store to its location that the reader has not been told is out of   *)
(* date, however old.  A reader that loads, with acquire, what was stored  *)
(* with release at time t has from then on seen all stores up to t; other  *)
(* loads only keep it from going back on the same location.  The writer    *)
(* sees its own stores in order: where its search ends, which SkipList     *)
(* models load by load, is Prev.                                           *)
(***************************************************************************)
EXTENDS Integers, Sequences

CONSTANTS
  Keys,        (* keys, compared as integers; a node is named by its key   *)
  Readers,     (* threads that call Contains                               *)
  head,        (* head_                                                    *)
  NULL,
  Uninit,      (* what raw memory of the arena holds                       *)
  kMaxHeight,  (* slots of head_ (12 in the code)                          *)
  Height       (* the height Insert gives every node (5 in the code)       *)

ASSUME WeakSkipListAssumption ==
  /\ Keys \subseteq Int
  /\ head \notin Keys
  /\ NULL \notin Keys \cup {head}
  /\ Uninit \notin Keys \cup {head, NULL}
  /\ kMaxHeight \in Nat
  /\ Height \in 1..kMaxHeight

Nodes  == Keys \cup {head}
Levels == 0..(kMaxHeight - 1)

VARIABLES
  now,         (* the number of stores so far                              *)
  slot,        (* the stores to n->next_[l], oldest first                  *)
  born,        (* the time of the store to n->key, 0 if there is none      *)
  raised,      (* the time of the store of Height to max_height_, or 0     *)
  stage,       (* where the Insert is                                      *)
  new,         (* its key, or NULL                                         *)
  rung,        (* its loop variable i                                      *)
  inserted     (* the keys inserted, in the order of the calls             *)

VARIABLES
  pc,          (* where each reader is                                     *)
  key,         (* the argument of its Contains                             *)
  x,           (* FindGreaterOrEqual's x                                   *)
  level,       (* FindGreaterOrEqual's level                               *)
  next,        (* FindGreaterOrEqual's next                                *)
  seen,        (* the reader has seen all stores up to this time           *)
  last,        (* the newest store to each slot that it has loaded         *)
  tall,        (* it has loaded Height from max_height_                    *)
  owed         (* it must find the first owed keys of inserted             *)

writerVars == <<now, slot, born, raised, stage, new, rung, inserted>>
readerVars == <<pc, key, x, level, next, seen, last, tall, owed>>
vars == <<writerVars, readerVars>>

Stored(t, n, r) == [time |-> t, node |-> n, release |-> r]
Larger(a, b) == IF a > b THEN a ELSE b

Init ==
  /\ now = 0
  /\ slot = [n \in Nodes |-> [l \in Levels |->
               <<Stored(0, IF n = head THEN NULL ELSE Uninit, FALSE)>>]]
  /\ born = [n \in Keys |-> 0]
  /\ raised = 0
  /\ stage = "idle"
  /\ new = NULL
  /\ rung = 0
  /\ inserted = <<>>
  /\ pc = [r \in Readers |-> "idle"]
  /\ key = [r \in Readers |-> NULL]
  /\ x = [r \in Readers |-> head]
  /\ level = [r \in Readers |-> 0]
  /\ next = [r \in Readers |-> NULL]
  /\ seen = [r \in Readers |-> 0]
  /\ last = [r \in Readers |-> [n \in Nodes |-> [l \in Levels |-> 1]]]
  /\ tall = [r \in Readers |-> FALSE]
  /\ owed = [r \in Readers |-> 0]

-----------------------------------------------------------------------------
(* What the writer sees of the list, and what the readers do.              *)
Newest(n, l) == slot[n][l][Len(slot[n][l])].node

Linked(l) == {k \in Keys : \E n \in Nodes : Newest(n, l) = k}

(* prev[l]: the last linked node before the new key, or head_.             *)
Prev(l) ==
  LET before == {k \in Linked(l) : k < new} IN
  IF before = {} THEN head ELSE CHOOSE k \in before : \A j \in before : j <= k

(* One store to n->next_[rung].                                            *)
Store(n, to, release) ==
  /\ now' = now + 1
  /\ slot' = [slot EXCEPT ![n][rung] = Append(@, Stored(now + 1, to, release))]

OnToNextRung ==
  /\ rung' = IF rung + 1 < Height THEN rung + 1 ELSE 0
  /\ stage' = IF rung + 1 < Height THEN "own" ELSE "idle"
  /\ new' = IF rung + 1 < Height THEN new ELSE NULL

(* The stores to n->next_[l] that a load by r may return.                  *)
Readable(r, n, l) ==
  {i \in DOMAIN slot[n][l] :
     /\ i >= last[r][n][l]
     /\ \A j \in DOMAIN slot[n][l] : j > i => slot[n][l][j].time > seen[r]}

-----------------------------------------------------------------------------
(* Mutants of the definitions below, each a plausible slip in the code.    *)

(* The node is linked with NoBarrier_SetNext, too.                         *)
PublishRelaxed ==
  /\ stage = "publish"
  /\ Store(Prev(rung), new, FALSE)
  /\ OnToNextRung
  /\ UNCHANGED <<born, raised, inserted, readerVars>>

(* Next() loads without a barrier.                                         *)
LoadRelaxed(r) ==
  LET n == x[r] l == level[r] IN
  /\ pc[r] = "load"
  /\ \E i \in Readable(r, n, l) :
       /\ next' = [next EXCEPT ![r] = slot[n][l][i].node]
       /\ last' = [last EXCEPT ![r][n][l] = i]
  /\ pc' = [pc EXCEPT ![r] = "compare"]
  /\ UNCHANGED <<writerVars, key, x, level, seen, tall, owed>>

(* A new node ends the list, as if keys came in ascending order.           *)
SetOwnNextToEnd ==
  /\ stage = "own"
  /\ Store(new, NULL, FALSE)
  /\ stage' = "publish"
  /\ UNCHANGED <<born, raised, new, rung, inserted, readerVars>>

-----------------------------------------------------------------------------
(* Insert.                                                                 *)
InsertCall(k) ==
  /\ stage = "idle"
  /\ \A i \in DOMAIN inserted : inserted[i] # k
  /\ stage' = "found"
  /\ new' = k
  /\ inserted' = Append(inserted, k)
  /\ UNCHANGED <<now, slot, born, raised, rung, readerVars>>

(* max_height_.Release_Store(height), when the list is shorter.            *)
RaiseHeight ==
  /\ stage = "found" /\ raised = 0 /\ Height > 1
  /\ now' = now + 1
  /\ raised' = now + 1
  /\ UNCHANGED <<slot, born, stage, new, rung, inserted, readerVars>>

(* new (mem) Node(key): a plain store.                                     *)
NewNode ==
  /\ stage = "found" /\ (raised # 0 \/ Height = 1)
  /\ now' = now + 1
  /\ born' = [born EXCEPT ![new] = now + 1]
  /\ stage' = "own"
  /\ UNCHANGED <<slot, raised, new, rung, inserted, readerVars>>

(* x->NoBarrier_SetNext(i, prev[i]->NoBarrier_Next(i))                     *)
SetOwnNext ==
  /\ stage = "own"
  /\ Store(new, Newest(Prev(rung), rung), FALSE)
  /\ stage' = "publish"
  /\ UNCHANGED <<born, raised, new, rung, inserted, readerVars>>

(* prev[i]->SetNext(i, x); after the last level Insert returns.            *)
Publish ==
  /\ stage = "publish"
  /\ Store(Prev(rung), new, TRUE)
  /\ OnToNextRung
  /\ UNCHANGED <<born, raised, inserted, readerVars>>

-----------------------------------------------------------------------------
(* A reader.                                                               *)

(* What GetMaxHeight(), a load without barrier, may return.                *)
Heights(r) ==
  (IF raised # 0 THEN {Height} ELSE {})
    \cup (IF raised # 0 /\ (tall[r] \/ raised <= seen[r]) THEN {} ELSE {1})

ContainsCall(r, k) ==
  /\ pc[r] = "idle"
  /\ \E h \in Heights(r) :
       /\ level' = [level EXCEPT ![r] = h - 1]
       /\ tall' = [tall EXCEPT ![r] = @ \/ h > 1]
  /\ pc' = [pc EXCEPT ![r] = "load"]
  /\ key' = [key EXCEPT ![r] = k]
  /\ x' = [x EXCEPT ![r] = head]
  /\ UNCHANGED <<writerVars, next, seen, last, owed>>

(* next = x->Next(level), an acquire load.                                 *)
Load(r) ==
  LET n == x[r] l == level[r] IN
  /\ pc[r] = "load"
  /\ \E i \in Readable(r, n, l) :
       LET m == slot[n][l][i] IN
       /\ next' = [next EXCEPT ![r] = m.node]
       /\ last' = [last EXCEPT ![r][n][l] = i]
       /\ seen' = [seen EXCEPT ![r] = IF m.release THEN Larger(@, m.time) ELSE @]
  /\ pc' = [pc EXCEPT ![r] = "compare"]
  /\ UNCHANGED <<writerVars, key, x, level, tall, owed>>

KeyIsAfterNode(k, n) == n \in Keys /\ n < k

MoveRight(r) ==
  /\ pc[r] = "compare"
  /\ KeyIsAfterNode(key[r], next[r])
  /\ x' = [x EXCEPT ![r] = next[r]]
  /\ pc' = [pc EXCEPT ![r] = "load"]
  /\ UNCHANGED <<writerVars, key, level, next, seen, last, tall, owed>>

MoveDown(r) ==
  /\ pc[r] = "compare"
  /\ ~KeyIsAfterNode(key[r], next[r])
  /\ level[r] # 0
  /\ level' = [level EXCEPT ![r] = @ - 1]
  /\ pc' = [pc EXCEPT ![r] = "load"]
  /\ UNCHANGED <<writerVars, key, x, next, seen, last, tall, owed>>

(* Contains is about to return next != NULL && Equal(key, next->key).      *)
Arrived(r) ==
  pc[r] = "compare" /\ ~KeyIsAfterNode(key[r], next[r]) /\ level[r] = 0

(* Who has found a key knows of it and of all inserted before it.          *)
ContainsReturn(r) ==
  /\ Arrived(r)
  /\ owed' = [owed EXCEPT ![r] =
       IF next[r] = key[r]
       THEN Larger(@, CHOOSE i \in DOMAIN inserted : inserted[i] = key[r])
       ELSE @]
  /\ pc' = [pc EXCEPT ![r] = "idle"]
  /\ key' = [key EXCEPT ![r] = NULL]
  /\ x' = [x EXCEPT ![r] = head]
  /\ next' = [next EXCEPT ![r] = NULL]
  /\ UNCHANGED <<writerVars, level, seen, last, tall>>

-----------------------------------------------------------------------------
(* Threads also synchronize outside the list, by a mutex, say: the writer  *)
(* between two Inserts tells r, or reader q tells r, all it has seen.      *)
WriterTells(r) ==
  /\ stage = "idle" /\ pc[r] = "idle"
  /\ seen' = [seen EXCEPT ![r] = Larger(@, now)]
  /\ owed' = [owed EXCEPT ![r] = Len(inserted)]
  /\ UNCHANGED <<writerVars, pc, key, x, level, next, last, tall>>

ReaderTells(q, r) ==
  /\ q # r /\ pc[q] = "idle" /\ pc[r] = "idle"
  /\ seen' = [seen EXCEPT ![r] = Larger(@, seen[q])]
  /\ last' = [last EXCEPT ![r] =
       [n \in Nodes |-> [l \in Levels |-> Larger(last[q][n][l], last[r][n][l])]]]
  /\ tall' = [tall EXCEPT ![r] = @ \/ tall[q]]
  /\ owed' = [owed EXCEPT ![r] = Larger(@, owed[q])]
  /\ UNCHANGED <<writerVars, pc, key, x, level, next>>

-----------------------------------------------------------------------------
Insert == (\E k \in Keys : InsertCall(k)) \/ RaiseHeight \/ NewNode \/ SetOwnNext \/ Publish

Contains(r) ==
  \/ \E k \in Keys : ContainsCall(r, k)
  \/ Load(r) \/ MoveRight(r) \/ MoveDown(r) \/ ContainsReturn(r)

Synchronize(r) == WriterTells(r) \/ \E q \in Readers : ReaderTells(q, r)

Next == Insert \/ \E r \in Readers : Contains(r) \/ Synchronize(r)

Spec == Init /\ [][Next]_vars

-----------------------------------------------------------------------------
(* Properties.                                                             *)

(* A reader never loads a slot, and never compares a key, that it might    *)
(* still see as the raw memory it was: NoBarrier_SetNext is enough for the *)
(* node's own slots, and a plain store for its key (SkipList.h:132 asks    *)
(* why), because SetNext releases and Next acquires them.                  *)
ReadsInitialized ==
  \A r \in Readers :
    /\ pc[r] = "load" =>
         \A i \in Readable(r, x[r], level[r]) : slot[x[r]][level[r]][i].node # Uninit
    /\ pc[r] = "compare" /\ next[r] # NULL =>
         next[r] \in Keys /\ born[next[r]] \in 1..seen[r]

(* A key a reader has found, or been told of, and every key inserted       *)
(* before it, is found by all its later searches, although loads may       *)
(* return old values and max_height_ is loaded without a barrier.          *)
FoundStaysFound ==
  \A r \in Readers :
    Arrived(r) /\ (\E i \in 1..owed[r] : inserted[i] = key[r]) => next[r] = key[r]

(* Every answer of Contains, TRUE or FALSE, is that of a set: of the keys  *)
(* of the first Inserts, up to one that the reader has never been behind   *)
(* before.  So no key is found that was not inserted, no two readers see   *)
(* Inserts in different orders, and none goes back in time.                *)
Phase ==
  [r \in Readers |->
     IF pc[r] = "idle" THEN "idle"
     ELSE IF ~Arrived(r) THEN "called"
     ELSE IF next[r] = key[r] THEN "yes" ELSE "no"]

View ==
  [r \in Readers |->
     IF Phase[r] = "yes"
     THEN Larger(owed[r], CHOOSE i \in DOMAIN inserted : inserted[i] = key[r])
     ELSE owed[r]]

Abstract == INSTANCE LaggingSet
  WITH log <- inserted, inserting <- stage # "idle", view <- View, phase <- Phase,
       arg <- key, None <- NULL

ImplementsLaggingSet == Abstract!Spec
=============================================================================
