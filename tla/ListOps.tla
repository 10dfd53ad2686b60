------------------------------- MODULE ListOps -------------------------------
(***************************************************************************)
(* The operators of SequencesExt that the contracts of Services need, under *)
(* its names.  SequencesExt extends Bags, TLC and more; every INSTANCE of a *)
(* contract would repeat their hundred definitions, and the prover carries  *)
(* all of them into every obligation.  MCServices compares the two.         *)
(***************************************************************************)
EXTENDS Sequences, FiniteSetsExt

(* What a sequence holds. *)
ToSet(s) == {s[i] : i \in DOMAIN s}
Contains(s, e) == \E i \in 1..Len(s) : s[i] = e
Last(s) == s[Len(s)]

(* The first place whose element passes, 0 if none does. *)
SelectInSeq(s, Test(_)) ==
  LET I == {i \in 1..Len(s) : Test(s[i])} IN IF I # {} THEN Min(I) ELSE 0

(* One element put in at i, put in the place of s[i], or taken out. *)
InsertAt(s, i, e) == (SubSeq(s, 1, i - 1) \o <<e>>) \o SubSeq(s, i, Len(s))
ReplaceAt(s, i, e) == [s EXCEPT ![i] = e]
RemoveAt(s, i) == SubSeq(s, 1, i - 1) \o SubSeq(s, i + 1, Len(s))

(* op over the elements from the first on, starting with base. *)
FoldLeft(op(_, _), base, s) ==
  MapThenFoldSet(LAMBDA x, y : op(y, x), base, LAMBDA i : s[i], LAMBDA S : Max(S), DOMAIN s)
=============================================================================
