------------------------------ MODULE Numerals ------------------------------
(***************************************************************************)
(* Numbers in digits of base b, the lowest digit first: what shifts, masks *)
(* and the copying of words make of them on every machine.                 *)
(***************************************************************************)
EXTENDS Integers, Sequences

(* b^0 to b^w.                                                             *)
Powers(b, w) ==
  LET power[n \in 0..w] == IF n = 0 THEN 1 ELSE b * power[n - 1]
  IN power

Digits(number, b, w) == [i \in 1..w |-> (number \div Powers(b, w)[i - 1]) % b]

(* The sums of the first digits, from none of them to all.                 *)
Sums(digits, b) ==
  LET power == Powers(b, Len(digits))
      sum[n \in 0..Len(digits)] ==
        IF n = 0 THEN 0 ELSE sum[n - 1] + digits[n] * power[n - 1]
  IN sum

Number(digits, b) == Sums(digits, b)[Len(digits)]
=============================================================================
