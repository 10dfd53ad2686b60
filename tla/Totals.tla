------------------------------- MODULE Totals -------------------------------
(***************************************************************************)
(* The sum of a function with natural-number values, written without       *)
(* recursion: Total(f) counts one unit <<x, i>> for each point x and each   *)
(* i \in 1..f[x].  Counting lets the prover reason about sums with nothing  *)
(* but facts about finite sets, and TLC evaluates it on small instances.    *)
(* The contracts of this repository keep running totals of such functions   *)
(* (total voting power, total staked) and hold tokens against them.         *)
(***************************************************************************)
EXTENDS Naturals, FiniteSets

Units(f) == UNION {{x} \X (1..f[x]) : x \in DOMAIN f}

Total(f) == Cardinality(Units(f))
=============================================================================
