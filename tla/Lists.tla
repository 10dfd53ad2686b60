-------------------------------- MODULE Lists --------------------------------
(***************************************************************************)
(* Selecting from a sequence and counting in it, in terms of sets of        *)
(* indices.  Kept is SelectSeq, and InList the length of what it selects:   *)
(* written without recursion the prover knows how long they are.            *)
(***************************************************************************)
EXTENDS Naturals, Sequences, FiniteSets

(* The k-th of a finite set of indices, counted from the smallest.          *)
Kth(P, k) == CHOOSE i \in P : Cardinality({j \in P : j <= i}) = k

Kept(s, Test(_)) ==
  LET P == {i \in DOMAIN s : Test(s[i])} IN [k \in 1..Cardinality(P) |-> s[Kth(P, k)]]

InList(s, Test(_)) == Cardinality({i \in DOMAIN s : Test(s[i])})
=============================================================================
