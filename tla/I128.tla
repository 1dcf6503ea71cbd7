-------------------------------- MODULE I128 --------------------------------
(* The contract's amounts: an i128 whose largest value is I128_MAX. *)
EXTENDS Integers

CONSTANT I128_MAX

ASSUME I128Assumption == I128_MAX \in Nat \ {0}

Lesser(x, y)  == IF x <= y THEN x ELSE y
Greater(x, y) == IF x >= y THEN x ELSE y

(* saturating_add; the amounts added here are never negative *)
SatAdd(x, y) == Lesser(x + y, I128_MAX)
=============================================================================
