----------------------------- MODULE MCPayments -----------------------------
(***************************************************************************)
(* A small instance of Payments: two users, and an admin who is neither,    *)
(* so that users, and tokens, are interchangeable.                          *)
(***************************************************************************)
EXTENDS Payments, TLC

CONSTANTS root, u1, u2, xlm, t1, t2

MCUsers == {u1, u2}
MCTokens == {t1, t2}
MCSymmetry == Permutations(MCUsers) \cup Permutations(MCTokens)

(* An asset the admin may re-register on another token. *)
MCAnyToken == [a \in Assets |-> Tokens]

(* Each user starts with one unit of each token. *)
MCWallet == [p \in Purses |-> IF p[1] = Self THEN 0 ELSE 1]
=============================================================================
