------------------------------- MODULE Binary -------------------------------
(***************************************************************************)
(* The binary digits of natural numbers.  Everything is written with       *)
(* recursive functions over Nat, so that BinaryProofs can say what they    *)
(* compute: about the operator ^ the provers know nothing.                 *)
(***************************************************************************)
EXTENDS Naturals

\* 2 ^ n
Pow2[n \in Nat] == IF n = 0 THEN 1 ELSE 2 * Pow2[n - 1]

\* The places of the ones among the lowest width digits of x.
Digits(x, width) == {b \in 0 .. width - 1 : (x \div Pow2[b]) % 2 = 1}

\* The number whose ones, among the lowest width digits, are at these places.
Number(digits, width) ==
  LET value[n \in Nat] ==
        IF n = 0 THEN 0
        ELSE value[n - 1] + IF n - 1 \in digits THEN Pow2[n - 1] ELSE 0
  IN  value[width]
=============================================================================
