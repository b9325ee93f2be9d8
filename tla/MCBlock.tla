------------------------------ MODULE MCBlock -------------------------------
(* The instance of Block that TLC checks: every block of up to MaxEntries  *)
(* of the keys below, with at most one damaged entry.                      *)
EXTENDS Block, Comparators, FiniteSetsExt, SequencesExt

CONSTANT MaxEntries

(* Keys that are prefixes of each other, or share some or no characters.   *)
Universe == << <<1>>, <<1, 1>>, <<1, 2>>, <<2>> >>

AllTargets == ToSet(Universe) \cup {<<>>, <<1, 1, 2>>, <<2, 2>>}

(* The order of BytewiseComparator.                                        *)
Bytewise(j, k) == Compare(j, k) < 0

(* The block of the given keys, restart points and damage, where an entry  *)
(* that is not a restart point shares as much as it can.                   *)
Build(picked, points, unreadable, overlong) ==
  LET keys == [i \in 0..(Len(picked) - 1) |-> picked[i + 1]]
      order == SetToSortSeq(points, <)
  IN [count    |-> Len(picked),
      keys     |-> keys,
      readable |-> [i \in DOMAIN keys |-> i \notin unreadable],
      shared   |-> [i \in DOMAIN keys |->
                      IF i \in overlong
                      THEN IF i = 0 THEN 1 ELSE Len(keys[i - 1]) + 1
                      ELSE IF i \in points THEN 0 ELSE DiffIndex(keys[i - 1], keys[i])],
      num      |-> Len(order),
      restarts |-> [p \in 0..(Len(order) - 1) |-> order[p + 1]]]

AllBlocks ==
  LET lists == {SelectSeq(Universe, LAMBDA k : k \in ks) : ks \in SUBSET ToSet(Universe)}
  IN UNION {
       {Build(picked, {0} \cup points, unreadable, overlong) :
          points \in SUBSET (1..(Len(picked) - 1)),
          unreadable \in {{}} \cup {{i} : i \in 0..(Len(picked) - 1)},
          overlong \in {{}}} \cup
       {Build(picked, {0} \cup points, {}, {i}) :
          points \in SUBSET (1..(Len(picked) - 1)), i \in 0..(Len(picked) - 1)} :
       picked \in {l \in lists : Len(l) <= MaxEntries}}
=============================================================================
