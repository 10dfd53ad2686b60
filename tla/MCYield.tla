------------------------------- MODULE MCYield -------------------------------
(***************************************************************************)
(* A small instance of Yield: one staker, one asset.  A tick is a day and   *)
(* the rate the factor a day adds to the principal, as in the daily         *)
(* compounding mode.                                                        *)
(***************************************************************************)
EXTENDS Yield

CONSTANTS s1, usd

MCEarned(principal, rate, days) == principal * ((1 + rate)^days - 1)
=============================================================================
