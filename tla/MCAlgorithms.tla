---------------------------- MODULE MCAlgorithms ----------------------------
(* Every input of the functions of Algorithms up to these bounds.          *)
EXTENDS Algorithms, SequencesExt

CONSTANTS MaxUserKey, MaxBlock

SmallKeys == BoundedSeq(Byte, MaxUserKey + 1)
SmallInternalKeys ==
  {k \o t : k \in BoundedSeq(Byte, MaxUserKey), t \in [1..TagBytes -> Byte]}
SmallContents == BoundedSeq(Octets, MaxBlock)
AllSeeds      == 0..(2 * M + 1)
SmallLogs     == 0..3
FewFunctions  == 1..6
InOrder       == {[i \in 1..n |-> i] : n \in 0..6}
=============================================================================
