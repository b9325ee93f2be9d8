--------------------------- MODULE RandomNumbers ----------------------------
(***************************************************************************)
(* The generator of db/random.h: multiplication by A modulo M, where M + 1 *)
(* is a power of two, without a division.                                  *)
(***************************************************************************)
EXTENDS Numerals

CONSTANTS M,     (* 2^31 - 1 in the code                                   *)
          A      (* 16807 in the code                                      *)

(* M is prime and does not divide A.                                       *)
ASSUME RandomAssumption ==
  /\ M \in Nat \ {0, 1}
  /\ A \in 1..M
  /\ \A seed \in 1..(M - 1) : (seed * A) % M # 0

(* A mutant: a sum of M + 1 and more is not reduced.                       *)
NextUnreduced(seed) ==
  LET product == seed * A IN (product \div (M + 1)) + (product % (M + 1))

(* Random::Random: a 32-bit argument loses its highest bit, and the two    *)
(* bad seeds are avoided.                                                  *)
Seed(s) == LET seed == s % (M + 1) IN IF seed \in {0, M} THEN 1 ELSE seed

(* Random::Next: the 64-bit product is reduced to 32 bits.                 *)
NextSeed(seed) ==
  LET product == seed * A
      sum == ((product \div (M + 1)) + (product % (M + 1))) % (2 * (M + 1))
  IN IF sum > M THEN sum - M ELSE sum

Uniform(number, n) == number % n

(* Random::Skewed takes two numbers of the generator.                      *)
Skewed(seed, maxLog) ==
  LET first == NextSeed(seed) IN
  Uniform(NextSeed(first), Powers(2, maxLog)[Uniform(first, maxLog + 1)])

(* The next number is seed * A modulo M, and never one of the two the      *)
(* generator would be stuck on (random.h:31); a skewed number has at most  *)
(* maxLog bits (random.h:56).                                              *)
IsModular(s, maxLog) ==
  LET seed == Seed(s) IN
  /\ NextSeed(seed) = (seed * A) % M
  /\ NextSeed(seed) \in 1..(M - 1)
  /\ Skewed(seed, maxLog) \in 0..(Powers(2, maxLog)[maxLog] - 1)
=============================================================================
