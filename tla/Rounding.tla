------------------------------ MODULE Rounding ------------------------------
(***************************************************************************)
(* Division of integers as the contracts have it: towards zero, where       *)
(* TLA+ rounds down.                                                        *)
(***************************************************************************)
EXTENDS Integers

Size(n) == IF n < 0 THEN -n ELSE n

Quot(a, b) == IF a < 0 <=> b < 0 THEN Size(a) \div Size(b) ELSE -(Size(a) \div Size(b))
=============================================================================
